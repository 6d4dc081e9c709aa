----------------------------- MODULE DiskProofs -----------------------------
(***************************************************************************)
(* Proofs about module Disk, for any keys, contents and limits: the store  *)
(* serves whole uploads only, it is the write-once store of module         *)
(* WriteOnce, and it stays within its budget and the limit of its index.   *)
(* Usage is a sum over a set, computed by a recursive function: what a sum *)
(* is worth is proved from that recursion, by smallest counterexamples.    *)
(***************************************************************************)
EXTENDS Disk, TLAPS, FiniteSetTheorems, WellFoundedInduction

\* The half-done request is that of a running process, and the index does not
\* know yet what is being written, or already knows what is being deleted.
IoFits ==
    io # None =>
        /\ online
        /\ io.op = "put" =>
             /\ rows[io.key] = None
             /\ files[io.key] # None /\ files[io.key] = body[io.key]
        /\ io.op = "delete" => rows[io.key] # None /\ rows[io.key].deleted

\* What the index lists as live is on the disk as it was sent.
LiveFits ==
    \A k \in Keys : Live(k) =>
        /\ files[k] # None /\ files[k] = body[k]
        /\ rows[k].size = Size[files[k]]

DInv == TypeOK /\ IoFits /\ LiveFits

LEMMA InitDInv ==
    ASSUME DiskAssumption, Init
    PROVE  DInv
  BY DEF Init, DInv, TypeOK, IoFits, LiveFits, Live

LEMMA RowShape ==
    ASSUME DiskAssumption, TypeOK, NEW k \in Keys, NEW c \in Contents, NEW deleted \in BOOLEAN
    PROVE  /\ [size |-> Size[c], deleted |-> deleted] \in Rows
           /\ rows[k] # None => [size |-> rows[k].size, deleted |-> deleted] \in Rows
           /\ [size |-> 0, deleted |-> deleted] \in Rows
           /\ None \notin Rows
  <1>1. Size[c] \in Nat
    BY DEF DiskAssumption
  <1>2. rows[k] # None => rows[k].size \in Nat
    BY DEF TypeOK, Rows
  <1>3. None \notin Rows
    BY DEF DiskAssumption, Rows
  <1>4. QED
    BY <1>1, <1>2, <1>3 DEF Rows

LEMMA StepDInv ==
    ASSUME DiskAssumption, DInv, [Next]_vars
    PROVE  DInv'
  <1> USE DEF DInv
  <1>1. ASSUME NEW k \in Keys, NEW c \in Contents, WriteFile(k, c) PROVE DInv'
    <2>1. TypeOK'
      BY <1>1 DEF WriteFile, TypeOK
    <2>2. IoFits'
      BY <1>1 DEF WriteFile, Free, TypeOK, IoFits, DiskAssumption
    <2>3. LiveFits'
      BY <1>1 DEF WriteFile, TypeOK, LiveFits, Live
    <2>4. QED
      BY <2>1, <2>2, <2>3
  <1>2. CASE InsertRow
    <2>1. io.key \in Keys /\ files[io.key] \in Contents /\ rows[io.key] = None
      BY <1>2 DEF InsertRow, TypeOK, IoFits
    <2>2. [size |-> Size[files[io.key]], deleted |-> FALSE] \in Rows
      BY <2>1, RowShape
    <2>3. TypeOK'
      BY <1>2, <2>1, <2>2 DEF InsertRow, TypeOK
    <2>4. IoFits'
      BY <1>2 DEF InsertRow, IoFits
    <2>5. LiveFits'
      BY <1>2, <2>1 DEF InsertRow, TypeOK, IoFits, LiveFits, Live
    <2>6. QED
      BY <2>3, <2>4, <2>5
  <1>3. ASSUME NEW k \in Keys, Tombstone(k) PROVE DInv'
    <2> DEFINE row == [size |-> IF rows[k] = None THEN 0 ELSE rows[k].size, deleted |-> TRUE]
    <2>1. row \in Rows /\ row # None /\ row.deleted
      <3>1. IF rows[k] = None THEN row.size = 0 ELSE row.size = rows[k].size
        OBVIOUS
      <3>2. rows[k] # None => rows[k].size \in Nat
        BY DEF TypeOK, Rows
      <3>3. row \in Rows
        BY <3>1, <3>2 DEF Rows
      <3>4. QED
        BY <3>3 DEF DiskAssumption, Rows
    <2>2. rows' = [rows EXCEPT ![k] = row] /\ io' = [op |-> "delete", key |-> k]
          /\ online /\ UNCHANGED <<files, online, body>>
      BY <1>3 DEF Tombstone, Free
    <2> HIDE DEF row
    <2>3. TypeOK'
      BY <2>1, <2>2 DEF TypeOK
    <2>4. IoFits'
      BY <2>1, <2>2 DEF TypeOK, IoFits
    <2>5. LiveFits'
      BY <2>1, <2>2 DEF TypeOK, LiveFits, Live
    <2>6. QED
      BY <2>3, <2>4, <2>5
  <1>4. CASE Unlink
    <2>1. io.key \in Keys /\ rows[io.key] # None /\ rows[io.key].deleted
      BY <1>4 DEF Unlink, TypeOK, IoFits
    <2>2. QED
      BY <1>4, <2>1 DEF Unlink, TypeOK, IoFits, LiveFits, Live
  <1>5. ASSUME Interrupted, online' \in BOOLEAN PROVE DInv'
    <2>1. CASE io # None /\ io.op = "put"
      <3>1. io.key \in Keys /\ rows[io.key] = None
        BY <2>1 DEF TypeOK, IoFits
      <3>2. PICK c \in {d \in Contents : Size[d] <= Size[files[io.key]]} \cup {None} :
                files' = [files EXCEPT ![io.key] = c]
        BY <1>5, <2>1 DEF Interrupted
      <3>3. c \in Contents \cup {None}
        OBVIOUS
      <3>4. QED
        BY <1>5, <3>1, <3>2, <3>3 DEF Interrupted, TypeOK, IoFits, LiveFits, Live
    <2>2. CASE ~(io # None /\ io.op = "put")
      BY <1>5, <2>2 DEF Interrupted, TypeOK, IoFits, LiveFits, Live
    <2>3. QED
      BY <2>1, <2>2
  <1>6. CASE Fail \/ Crash
    BY <1>5, <1>6 DEF Fail, Crash, TypeOK
  <1>7. CASE Start
    BY <1>7 DEF Start, TypeOK, IoFits, LiveFits, Live
  <1>8. CASE Compact
    BY <1>8 DEF Compact, TypeOK, IoFits, LiveFits, Live
  <1>9. CASE UNCHANGED vars
    BY <1>9 DEF vars, TypeOK, IoFits, LiveFits, Live
  <1>10. QED
    BY <1>1, <1>2, <1>3, <1>4, <1>6, <1>7, <1>8, <1>9 DEF Next

\* The store keeps its half-done request, its index and its files together as
\* the order of its writes intends (local_media_store.py:78-110).
THEOREM DiskInvariant ==
    ASSUME DiskAssumption
    PROVE  Spec => []DInv
  <1>1. Init => DInv
    BY InitDInv
  <1>2. DInv /\ [Next]_vars => DInv'
    BY StepDInv
  <1>3. QED
    BY <1>1, <1>2, PTL DEF Spec

\* What GET returns is a whole upload (local_media_store.py:99-124).
THEOREM DiskServesWholeUploads ==
    ASSUME DiskAssumption
    PROVE  Spec => []ServedIsWhole
  <1>1. DInv => ServedIsWhole
    BY DEF DInv, LiveFits, ServedIsWhole, Served
  <1>2. QED
    BY <1>1, DiskInvariant, PTL

-----------------------------------------------------------------------------
(* The refinement                                                          *)

object == [k \in Keys |-> View(k)]

\* A key whose row and file stay, and which nobody begins or ends to write,
\* looks the same.
LEMMA ViewStays ==
    ASSUME NEW k \in Keys, rows'[k] = rows[k], files'[k] = files[k],
           rows[k] = None /\ files[k] # None => (Writing(k) <=> Writing(k)')
    PROVE  View(k)' = View(k)
  BY DEF View, Served, Live

LEMMA RefinementStep ==
    ASSUME DiskAssumption, DInv, DInv', [Next]_vars
    PROVE  [Abstract!Next]_<<object, online>>
  <1> USE DEF DInv
  <1>1. ASSUME NEW k \in Keys, NEW c \in Contents, WriteFile(k, c)
        PROVE  UNCHANGED <<object, online>>
    <2>1. View(k)' = View(k)
      BY <1>1 DEF WriteFile, View, Served, Live, Writing, TypeOK
    <2>2. ASSUME NEW l \in Keys, l # k PROVE View(l)' = View(l)
      BY <1>1, <2>2, ViewStays DEF WriteFile, Free, Writing, TypeOK
    <2>3. QED
      BY <1>1, <2>1, <2>2 DEF WriteFile, object
  <1>2. CASE InsertRow
    <2>1. /\ io.key \in Keys /\ files[io.key] \in Contents
          /\ rows[io.key] = None /\ online
      BY <1>2 DEF InsertRow, TypeOK, IoFits
    <2>2. PICK k \in Keys : k = io.key
      BY <2>1
    <2>3. PICK c \in Contents : c = files[k]
      BY <2>1, <2>2
    <2>4. View(k) = None
      BY <1>2, <2>1, <2>2, <2>3 DEF InsertRow, View, Served, Live, Writing
    <2>5. View(k)' = c
      <3>1. rows'[k] = [size |-> Size[c], deleted |-> FALSE] /\ files'[k] = c
        BY <1>2, <2>1, <2>2, <2>3 DEF InsertRow, TypeOK
      <3>2. rows'[k] # None /\ c # None
        BY <3>1, RowShape DEF DiskAssumption
      <3>3. QED
        BY <3>1, <3>2 DEF View, Served, Live
    <2>6. ASSUME NEW l \in Keys, l # k PROVE View(l)' = View(l)
      BY <1>2, <2>1, <2>2, <2>6, ViewStays DEF InsertRow, Writing, TypeOK
    <2>7. object' = [object EXCEPT ![k] = c] /\ object[k] = None
      BY <2>4, <2>5, <2>6 DEF object
    <2>8. Abstract!Write(k, c)
      BY <1>2, <2>1, <2>7 DEF Abstract!Write, object, InsertRow
    <2>9. QED
      BY <2>8 DEF Abstract!Next
  <1>3. ASSUME NEW k \in Keys, Tombstone(k) PROVE Abstract!Next
    <2>1. rows'[k] # None /\ rows'[k].deleted
      BY <1>3 DEF Tombstone, TypeOK, IoFits
    <2>2. View(k)' = Gone
      BY <2>1 DEF View, Served, Live
    <2>3. ASSUME NEW l \in Keys, l # k PROVE View(l)' = View(l)
      BY <1>3, <2>3, ViewStays DEF Tombstone, Free, Writing, TypeOK
    <2>4. object' = [object EXCEPT ![k] = Gone]
      BY <2>2, <2>3 DEF object
    <2>5. Abstract!Withdraw(k)
      BY <1>3, <2>4 DEF Abstract!Withdraw, Tombstone, Free, object
    <2>6. QED
      BY <2>5 DEF Abstract!Next
  <1>4. CASE Unlink
    <2>1. io.key \in Keys /\ rows[io.key] # None /\ rows[io.key].deleted
      BY <1>4 DEF Unlink, TypeOK, IoFits
    <2>2. PICK k \in Keys : k = io.key
      BY <2>1
    <2>3. View(k)' = Gone /\ View(k) = Gone
      BY <1>4, <2>1, <2>2 DEF Unlink, View, Served, Live
    <2>4. ASSUME NEW l \in Keys, l # k PROVE View(l)' = View(l)
      BY <1>4, <2>2, <2>4, ViewStays DEF Unlink, Writing, TypeOK
    <2>5. QED
      BY <1>4, <2>3, <2>4 DEF Unlink, object
  <1>5. ASSUME Interrupted
        PROVE  \/ UNCHANGED object
               \/ \E k \in Keys : object[k] = None /\ object' = [object EXCEPT ![k] = Gone]
    <2>1. CASE io # None /\ io.op = "put"
      <3>1. io.key \in Keys /\ rows[io.key] = None /\ rows' = rows /\ io' = None
        BY <1>5, <2>1 DEF Interrupted, TypeOK, IoFits
      <3>2. PICK k \in Keys : k = io.key
        BY <3>1
      <3>3. PICK c \in {d \in Contents : Size[d] <= Size[files[k]]} \cup {None} :
                files' = [files EXCEPT ![k] = c]
        BY <1>5, <2>1, <3>2 DEF Interrupted
      <3>4. ASSUME NEW l \in Keys, l # k PROVE View(l)' = View(l)
        BY <3>1, <3>2, <3>3, <3>4, ViewStays DEF Writing, TypeOK
      <3>5. View(k) = None
        BY <2>1, <3>1, <3>2 DEF View, Served, Live, Writing
      <3>6. View(k)' \in {None, Gone}
        BY <3>1, <3>2 DEF View, Served, Live
      <3>7. QED
        BY <3>4, <3>5, <3>6 DEF object
    <2>2. CASE ~(io # None /\ io.op = "put")
      <3>1. ASSUME NEW l \in Keys PROVE View(l)' = View(l)
        BY <1>5, <2>2, ViewStays DEF Interrupted, Writing
      <3>2. QED
        BY <3>1 DEF object
    <2>3. QED
      BY <2>1, <2>2
  <1>6. CASE Fail
    <2>1. online /\ UNCHANGED online
      BY <1>6 DEF Fail, IoFits
    <2>2. CASE UNCHANGED object
      BY <2>1, <2>2
    <2>3. ASSUME NEW k \in Keys, object' = [object EXCEPT ![k] = Gone] PROVE Abstract!Next
      BY <2>1, <2>3 DEF Abstract!Next, Abstract!Withdraw, object
    <2>4. QED
      BY <1>5, <1>6, <2>2, <2>3 DEF Fail
  <1>7. CASE Crash
    BY <1>5, <1>7 DEF Crash, Abstract!Next, Abstract!Stop, object
  <1>8. CASE Start
    <2>1. ASSUME NEW l \in Keys PROVE View(l)' = View(l)
      BY <1>8, ViewStays DEF Start, Writing
    <2>2. QED
      BY <1>8, <2>1 DEF Start, Abstract!Next, Abstract!Start, object
  <1>9. CASE Compact
    <2> DEFINE K == {k \in Keys : rows[k] # None /\ ~Live(k)}
    <2>1. io = None /\ io' = None /\ ~online /\ UNCHANGED <<files, online>>
      BY <1>9 DEF Compact, IoFits
    <2>2. ASSUME NEW k \in K PROVE View(k) = Gone /\ View(k)' = None
      BY <1>9, <2>1, <2>2 DEF Compact, View, Served, Live, Writing
    <2>3. ASSUME NEW k \in Keys \ K PROVE View(k)' = View(k)
      <3>1. rows'[k] = rows[k]
        BY <1>9, <2>3 DEF Compact, Live
      <3>2. QED
        BY <2>1, <3>1, ViewStays DEF Writing
    <2>4. object' = [k \in Keys |-> IF k \in K THEN None ELSE object[k]]
      BY <2>2, <2>3 DEF object
    <2>5. K \in SUBSET {k \in Keys : object[k] = Gone}
      BY <2>2 DEF object
    <2>6. Abstract!Forget
      BY <2>1, <2>4, <2>5 DEF Abstract!Forget, object
    <2>7. QED
      BY <2>6 DEF Abstract!Next
  <1>10. CASE UNCHANGED vars
    <2>1. ASSUME NEW l \in Keys PROVE View(l)' = View(l)
      BY <1>10, ViewStays DEF vars, Writing
    <2>2. QED
      BY <1>10, <2>1 DEF vars, object
  <1>11. QED
    BY <1>1, <1>2, <1>3, <1>4, <1>6, <1>7, <1>8, <1>9, <1>10 DEF Next

\* Files and index together are a store whose objects are written once
\* (local_media_store.py:78-110, compact_local_media.py:53-61).
THEOREM DiskIsWriteOnce ==
    ASSUME DiskAssumption
    PROVE  Spec => ImplementsWriteOnce
  <1>1. Init => Abstract!Init
    BY DEF Init, Abstract!Init, View, Served, Live, Writing
  <1>2. DInv /\ DInv' /\ [Next]_vars => [Abstract!Next]_(Abstract!vars)
    BY RefinementStep DEF object, Abstract!vars
  <1>3. QED
    BY <1>1, <1>2, DiskInvariant, PTL DEF Spec, ImplementsWriteOnce, Abstract!Spec
-----------------------------------------------------------------------------
(* Sums over finite sets                                                   *)

\* A set of natural numbers that is not empty has a smallest element.
LEMMA SmallestNumber ==
    ASSUME NEW S, S \subseteq Nat, S # {}
    PROVE  \E m \in S : \A n \in S : m <= n
  <1> DEFINE less == OpToRel(<, Nat)
  <1>1. \A m, n \in Nat : <<n, m>> \in less <=> n < m
    BY DEF OpToRel
  <1>2. IsWellFoundedOn(less, Nat)
    BY NatLessThanWellFounded
  <1> HIDE DEF less
  <1>3. PICK m \in S : \A n \in S : ~ (<<n, m>> \in less)
    BY <1>2, WFMin
  <1>4. ASSUME NEW n \in S PROVE m <= n
    <2>1. m \in Nat /\ n \in Nat
      OBVIOUS
    <2>2. ~ (n < m)
      BY <1>1, <1>3, <2>1
    <2>3. QED
      BY <2>1, <2>2
  <1>5. QED
    BY <1>4

\* The element a sum takes first, and the equation of the sums of W over the
\* subsets of K: how MapThenSumSet computes them.
Pick(s) == CHOOSE x \in s : TRUE
SumsFrom(W, f, s) == IF s = {} THEN 0 ELSE W[Pick(s)] + f[s \ {Pick(s)}]
Sums(W, K, f) == f = [s \in SUBSET K |-> SumsFrom(W, f, s)]

LEMMA PickIsElement ==
    ASSUME NEW s, s # {}
    PROVE  Pick(s) \in s
  BY DEF Pick

\* Taking out an element makes a set smaller.
LEMMA TakeOut ==
    ASSUME NEW K, IsFiniteSet(K), NEW s \in SUBSET K
    PROVE  /\ IsFiniteSet(s) /\ Cardinality(s) \in Nat
           /\ s = {} <=> Cardinality(s) = 0
           /\ \A x \in s : /\ s \ {x} \in SUBSET K
                           /\ Cardinality(s \ {x}) = Cardinality(s) - 1
  <1>1. IsFiniteSet(s)
    BY FS_Subset
  <1>2. QED
    BY <1>1, FS_CardinalityType, FS_EmptySet, FS_RemoveElement

\* There are such sums: the recursion is well founded.
LEMMA SumsExist ==
    ASSUME NEW K, IsFiniteSet(K), NEW W \in [K -> Nat]
    PROVE  \E f \in [SUBSET K -> Nat] : Sums(W, K, f)
  <1> DEFINE Small(n) == {s \in SUBSET K : Cardinality(s) <= n}
             UpTo(n) == \E f \in [SUBSET K -> Nat] : \A s \in Small(n) : f[s] = SumsFrom(W, f, s)
             Bad == {n \in Nat : ~UpTo(n)}
  <1>1. UpTo(0)
    <2> DEFINE f == [s \in SUBSET K |-> 0]
    <2>1. \A s \in Small(0) : s = {}
      BY TakeOut
    <2>2. \A s \in Small(0) : f[s] = SumsFrom(W, f, s)
      BY <2>1 DEF SumsFrom
    <2>3. QED
      BY <2>2
  <1>2. ASSUME NEW n \in Nat, UpTo(n) PROVE UpTo(n + 1)
    <2>1. PICK f \in [SUBSET K -> Nat] : \A s \in Small(n) : f[s] = SumsFrom(W, f, s)
      BY <1>2
    <2> DEFINE g == [s \in SUBSET K |-> IF s \in Small(n) THEN f[s] ELSE SumsFrom(W, f, s)]
    <2>2. ASSUME NEW s \in SUBSET K PROVE SumsFrom(W, f, s) \in Nat
      BY PickIsElement DEF SumsFrom
    <2>3. g \in [SUBSET K -> Nat]
      BY <2>2
    <2>4. ASSUME NEW s \in Small(n + 1) PROVE g[s] = SumsFrom(W, g, s)
      <3>1. g[s] = SumsFrom(W, f, s)
        BY <2>1
      <3>2. CASE s = {}
        BY <3>1, <3>2 DEF SumsFrom
      <3>3. CASE s # {}
        <4>1. Pick(s) \in s /\ s \ {Pick(s)} \in Small(n)
          BY <3>3, PickIsElement, TakeOut
        <4>2. g[s \ {Pick(s)}] = f[s \ {Pick(s)}]
          BY <4>1
        <4>3. QED
          BY <3>1, <3>3, <4>2 DEF SumsFrom
      <3>4. QED
        BY <3>2, <3>3
    <2>5. QED
      BY <2>3, <2>4
  <1> HIDE DEF UpTo
  <1>3. Bad = {}
    <2> SUFFICES ASSUME Bad # {} PROVE FALSE
      OBVIOUS
    <2>1. PICK m \in Bad : \A n \in Bad : m <= n
      BY SmallestNumber
    <2>2. m # 0 /\ m - 1 \in Nat /\ m - 1 \notin Bad
      BY <1>1, <2>1
    <2>3. UpTo((m - 1) + 1)
      BY <1>2, <2>2
    <2>4. QED
      BY <2>3
  <1>4. Cardinality(K) \in Nat /\ \A s \in SUBSET K : Cardinality(s) <= Cardinality(K)
    BY FS_CardinalityType, FS_Subset
  <1>5. UpTo(Cardinality(K))
    BY <1>3, <1>4
  <1>6. PICK f \in [SUBSET K -> Nat] :
            \A s \in Small(Cardinality(K)) : f[s] = SumsFrom(W, f, s)
    BY <1>5 DEF UpTo
  <1>7. f = [s \in SUBSET K |-> SumsFrom(W, f, s)]
    BY <1>4, <1>6
  <1>8. QED
    BY <1>7 DEF Sums

\* A sum does not depend on the order in which elements are taken.
LEMMA SumTakesOut ==
    ASSUME NEW K, IsFiniteSet(K), NEW W, NEW f, Sums(W, K, f),
           \A x \in K : W[x] \in Nat, \A t \in SUBSET K : f[t] \in Nat,
           NEW s \in SUBSET K, NEW x \in s
    PROVE  f[s] = W[x] + f[s \ {x}]
  <1> DEFINE Bad == {n \in Nat : \E t \in SUBSET K : \E y \in t :
                        Cardinality(t) = n /\ f[t] # W[y] + f[t \ {y}]}
  <1>1. ASSUME NEW t \in SUBSET K, t # {} PROVE f[t] = W[Pick(t)] + f[t \ {Pick(t)}]
    BY <1>1 DEF Sums, SumsFrom
  <1>2. Bad = {}
    <2> SUFFICES ASSUME Bad # {} PROVE FALSE
      OBVIOUS
    <2>1. PICK n \in Bad : \A m \in Bad : n <= m
      BY SmallestNumber
    <2>2. PICK t \in SUBSET K : \E y \in t : Cardinality(t) = n /\ f[t] # W[y] + f[t \ {y}]
      BY <2>1
    <2>3. PICK y \in t : Cardinality(t) = n /\ f[t] # W[y] + f[t \ {y}]
      BY <2>2
    <2>4. PICK z \in t : z = Pick(t)
      BY <2>3, PickIsElement
    <2>5. f[t] = W[z] + f[t \ {z}]
      BY <1>1, <2>4
    <2>6. y # z
      BY <2>3, <2>5
    <2>7. /\ t \ {y} \in SUBSET K /\ Cardinality(t \ {y}) = n - 1
          /\ t \ {z} \in SUBSET K /\ Cardinality(t \ {z}) = n - 1 /\ n - 1 \in Nat
      BY <2>3, TakeOut
    <2>8. ASSUME NEW u \in SUBSET K, Cardinality(u) = n - 1, NEW v \in u
          PROVE  f[u] = W[v] + f[u \ {v}]
      <3>1. n \in Nat /\ ~ (n <= n - 1)
        OBVIOUS
      <3>2. n - 1 \notin Bad
        BY <2>1, <3>1
      <3>3. QED
        BY <2>7, <2>8, <3>2
    <2>9. f[t \ {z}] = W[y] + f[(t \ {z}) \ {y}]
      BY <2>6, <2>7, <2>8
    <2>10. f[t \ {y}] = W[z] + f[(t \ {y}) \ {z}]
      BY <2>6, <2>7, <2>8
    <2>11. (t \ {y}) \ {z} = (t \ {z}) \ {y} /\ (t \ {z}) \ {y} \in SUBSET K
      OBVIOUS
    <2>12. W[y] \in Nat /\ W[z] \in Nat /\ f[(t \ {z}) \ {y}] \in Nat
      BY <2>11
    <2>13. PICK a \in Nat : a = f[(t \ {z}) \ {y}]
      BY <2>12
    <2>14. f[t \ {z}] = W[y] + a /\ f[t \ {y}] = W[z] + a
      BY <2>9, <2>10, <2>11, <2>13
    <2>15. W[z] + (W[y] + a) = W[y] + (W[z] + a)
      BY <2>12
    <2>16. QED
      BY <2>3, <2>5, <2>14, <2>15
  <1>3. Cardinality(s) \notin Bad /\ Cardinality(s) \in Nat
    BY <1>2, TakeOut
  <1>4. QED
    BY <1>3

\* A sum depends on the weights of its elements, and on no other.
LEMMA SumsAgree ==
    ASSUME NEW K, IsFiniteSet(K), NEW W, NEW V,
           NEW f, NEW g, Sums(W, K, f), Sums(V, K, g),
           NEW s \in SUBSET K, \A x \in s : W[x] = V[x]
    PROVE  f[s] = g[s]
  <1> DEFINE Bad == {n \in Nat : \E t \in SUBSET s : Cardinality(t) = n /\ f[t] # g[t]}
  <1>1. Bad = {}
    <2> SUFFICES ASSUME Bad # {} PROVE FALSE
      OBVIOUS
    <2>1. PICK n \in Bad : \A m \in Bad : n <= m
      BY SmallestNumber
    <2>2. PICK t \in SUBSET s : Cardinality(t) = n /\ f[t] # g[t]
      BY <2>1
    <2>3. t # {}
      BY <2>2 DEF Sums, SumsFrom
    <2>4. PICK z \in t : z = Pick(t)
      BY <2>3, PickIsElement
    <2>5. f[t] = W[z] + f[t \ {z}] /\ g[t] = V[z] + g[t \ {z}]
      BY <2>3, <2>4 DEF Sums, SumsFrom
    <2>6. t \ {z} \in SUBSET s /\ Cardinality(t \ {z}) = n - 1 /\ n - 1 \in Nat
      BY <2>2, TakeOut
    <2>7. n - 1 \notin Bad
      BY <2>1, <2>6
    <2>8. f[t \ {z}] = g[t \ {z}]
      BY <2>6, <2>7
    <2>9. QED
      BY <2>2, <2>5, <2>8
  <1>2. Cardinality(s) \notin Bad /\ Cardinality(s) \in Nat
    BY <1>1, TakeOut
  <1>3. QED
    BY <1>2

Lengths == [k \in Keys |-> FileSize(k)]

LEMMA LengthsAreNumbers ==
    ASSUME DiskAssumption, TypeOK
    PROVE  Lengths \in [Keys -> Nat]
  BY DEF DiskAssumption, TypeOK, Lengths, FileSize

UsageSummed == \E f \in [SUBSET Keys -> Nat] : Sums(Lengths, Keys, f) /\ Usage = f[Keys]

\* Usage is the sum of the lengths of all files.
LEMMA UsageIsSum ==
    ASSUME DiskAssumption, TypeOK
    PROVE  UsageSummed
  <1> DEFINE Recursion(f) == f = [s \in SUBSET Keys |->
                 IF s = {} THEN 0 ELSE FileSize(Pick(s)) + f[s \ {Pick(s)}]]
             sums == CHOOSE f : Recursion(f)
  <1>1. Usage = sums[Keys]
    BY DEF Usage, MapThenSumSet, MapThenFoldSet, Pick
  <1>2. ASSUME NEW f PROVE Recursion(f) <=> Sums(Lengths, Keys, f)
    <2>1. \A s \in SUBSET Keys : s # {} => Lengths[Pick(s)] = FileSize(Pick(s))
      BY PickIsElement DEF Lengths
    <2>2. QED
      BY <2>1 DEF Sums, SumsFrom
  <1>3. PICK f \in [SUBSET Keys -> Nat] : Sums(Lengths, Keys, f)
    BY LengthsAreNumbers, SumsExist DEF DiskAssumption
  <1>4. Recursion(f)
    BY <1>2, <1>3
  <1>5. Recursion(sums)
    BY <1>4
  <1> HIDE DEF Recursion, sums
  <1>6. Sums(Lengths, Keys, sums)
    BY <1>2, <1>5
  <1>7. sums = f
    <2>1. ASSUME NEW s \in SUBSET Keys PROVE sums[s] = f[s]
      BY <1>3, <1>6, SumsAgree DEF DiskAssumption
    <2>2. \A s \in SUBSET Keys : SumsFrom(Lengths, sums, s) = f[s]
      BY <1>6, <2>1 DEF Sums
    <2>3. sums = [s \in SUBSET Keys |-> f[s]]
      BY <1>6, <2>2 DEF Sums
    <2>4. QED
      BY <2>3
  <1>8. QED
    BY <1>1, <1>3, <1>7 DEF UsageSummed

-----------------------------------------------------------------------------
(* The budget                                                              *)

LEMMA UsageIsAlwaysSum ==
    ASSUME DiskAssumption
    PROVE  [](TypeOK => UsageSummed)
  <1>1. TypeOK => UsageSummed
    BY UsageIsSum
  <1>2. QED
    BY <1>1, PTL

\* A step that changes one file changes the usage by what that file gained.
LEMMA OneFileChanges ==
    ASSUME DiskAssumption, TypeOK, TypeOK', NEW k \in Keys,
           \A l \in Keys \ {k} : files'[l] = files[l]
    PROVE  \E rest \in Nat : Usage = FileSize(k) + rest /\ Usage' = FileSize(k)' + rest
  <1>1. PICK f \in [SUBSET Keys -> Nat] : Sums(Lengths, Keys, f) /\ Usage = f[Keys]
    BY UsageIsSum DEF UsageSummed
  <1>2. UsageSummed'
    BY UsageIsAlwaysSum, PTL
  <1>3. PICK g \in [SUBSET Keys -> Nat] : Sums(Lengths', Keys, g) /\ Usage' = g[Keys]
    BY <1>2 DEF UsageSummed
  <1>4. Lengths \in [Keys -> Nat] /\ Lengths' \in [Keys -> Nat]
    BY LengthsAreNumbers DEF DiskAssumption, TypeOK, Lengths, FileSize
  <1>5. IsFiniteSet(Keys)
    BY DEF DiskAssumption
  <1>6. f[Keys] = Lengths[k] + f[Keys \ {k}] /\ g[Keys] = Lengths'[k] + g[Keys \ {k}]
    <2>1. ASSUME NEW W \in [Keys -> Nat], NEW h \in [SUBSET Keys -> Nat], Sums(W, Keys, h)
          PROVE  h[Keys] = W[k] + h[Keys \ {k}]
      <3>1. (\A x \in Keys : W[x] \in Nat) /\ \A s \in SUBSET Keys : h[s] \in Nat
        OBVIOUS
      <3>2. QED
        BY <1>5, <2>1, <3>1, SumTakesOut
    <2>2. QED
      BY <1>1, <1>3, <1>4, <2>1
  <1>7. \A l \in Keys \ {k} : Lengths[l] = Lengths'[l]
    BY DEF Lengths, FileSize
  <1>8. f[Keys \ {k}] = g[Keys \ {k}]
    BY <1>1, <1>3, <1>5, <1>7, SumsAgree
  <1>9. Lengths[k] = FileSize(k) /\ Lengths'[k] = FileSize(k)'
    BY DEF Lengths
  <1>10. f[Keys \ {k}] \in Nat
    OBVIOUS
  <1>11. QED
    BY <1>1, <1>3, <1>6, <1>8, <1>9, <1>10

LEMMA NoFileChanges ==
    ASSUME DiskAssumption, TypeOK, TypeOK', files' = files
    PROVE  Usage' = Usage
  <1>1. PICK f \in [SUBSET Keys -> Nat] : Sums(Lengths, Keys, f) /\ Usage = f[Keys]
    BY UsageIsSum DEF UsageSummed
  <1>2. UsageSummed'
    BY UsageIsAlwaysSum, PTL
  <1>3. PICK g \in [SUBSET Keys -> Nat] : Sums(Lengths', Keys, g) /\ Usage' = g[Keys]
    BY <1>2 DEF UsageSummed
  <1>4. \A k \in Keys : Lengths[k] = Lengths'[k]
    BY DEF Lengths, FileSize
  <1>5. f[Keys] = g[Keys]
    BY <1>1, <1>3, <1>4, SumsAgree DEF DiskAssumption
  <1>6. QED
    BY <1>1, <1>3, <1>5

\* A file that is emptied, removed or cut short takes no more than before.
LEMMA CutFileFits ==
    ASSUME DiskAssumption, TypeOK, TypeOK', Usage <= MaxBytes,
           NEW k \in Keys, \A l \in Keys \ {k} : files'[l] = files[l],
           FileSize(k)' <= FileSize(k)
    PROVE  Usage' <= MaxBytes
  <1>1. PICK rest \in Nat : Usage = FileSize(k) + rest /\ Usage' = FileSize(k)' + rest
    BY OneFileChanges
  <1>2. FileSize(k) \in Nat /\ FileSize(k)' \in Nat /\ MaxBytes \in Nat
    BY DEF DiskAssumption, TypeOK, FileSize
  <1>3. QED
    BY <1>1, <1>2

Indexed == {k \in Keys : rows[k] # None}

\* While a file is being written its row still has room.
BudgetInv ==
    /\ Usage <= MaxBytes
    /\ Cardinality(Indexed) <= MaxRows
    /\ io # None /\ io.op = "put" => Cardinality(Indexed) < MaxRows

LEMMA InitBudget ==
    ASSUME DiskAssumption, Init
    PROVE  BudgetInv
  <1>1. TypeOK
    BY InitDInv DEF DInv
  <1>2. PICK f \in [SUBSET Keys -> Nat] : Sums(Lengths, Keys, f) /\ Usage = f[Keys]
    BY <1>1, UsageIsSum DEF UsageSummed
  <1>3. \A k \in Keys : Lengths[k] = 0
    BY DEF Init, Lengths, FileSize
  <1>4. Lengths = [k \in Keys |-> 0]
    BY <1>3 DEF Lengths
  <1>5. f[Keys] = 0
    <2> DEFINE g == [s \in SUBSET Keys |-> 0]
    <2>1. Sums(Lengths, Keys, g)
      <3>1. ASSUME NEW s \in SUBSET Keys PROVE SumsFrom(Lengths, g, s) = 0
        BY <1>3, PickIsElement DEF SumsFrom
      <3>2. QED
        BY <3>1 DEF Sums
    <2>2. f[Keys] = g[Keys]
      BY <1>2, <2>1, SumsAgree DEF DiskAssumption
    <2>3. QED
      BY <2>2
  <1>6. Indexed = {} /\ Cardinality({}) = 0 /\ io = None
    BY FS_EmptySet DEF Init, Indexed
  <1>7. QED
    BY <1>2, <1>5, <1>6 DEF BudgetInv, DiskAssumption

LEMMA OneElementMore ==
    ASSUME NEW A, NEW B, NEW k, IsFiniteSet(A), B \subseteq A \cup {k}
    PROVE  /\ Cardinality(A) \in Nat /\ Cardinality(B) \in Nat
           /\ Cardinality(B) <= Cardinality(A) + 1
           /\ k \in A => Cardinality(B) <= Cardinality(A)
  <1>1. IsFiniteSet(A \cup {k})
        /\ Cardinality(A \cup {k}) = IF k \in A THEN Cardinality(A) ELSE Cardinality(A) + 1
    BY FS_AddElement
  <1>2. IsFiniteSet(B) /\ Cardinality(B) <= Cardinality(A \cup {k})
    BY <1>1, FS_Subset
  <1>3. Cardinality(A) \in Nat /\ Cardinality(B) \in Nat /\ Cardinality(A \cup {k}) \in Nat
    BY <1>1, <1>2, FS_CardinalityType
  <1>4. QED
    BY <1>1, <1>2, <1>3

\* A row more, when only that of k may have come.
LEMMA OneRowMore ==
    ASSUME DiskAssumption, NEW k \in Keys,
           \A l \in Keys \ {k} : rows'[l] # None <=> rows[l] # None
    PROVE  /\ Cardinality(Indexed) \in Nat /\ Cardinality(Indexed') \in Nat
           /\ Cardinality(Indexed') <= Cardinality(Indexed) + 1
           /\ rows[k] # None => Cardinality(Indexed') <= Cardinality(Indexed)
  <1>1. IsFiniteSet(Indexed)
    BY FS_Subset DEF DiskAssumption, Indexed
  <1>2. Indexed' \subseteq Indexed \cup {k} /\ (rows[k] # None => k \in Indexed)
    BY DEF Indexed
  <1>3. QED
    BY <1>1, <1>2, OneElementMore

LEMMA StepBudget ==
    ASSUME DiskAssumption, DInv, DInv', BudgetInv, [Next]_vars
    PROVE  BudgetInv'
  <1> USE DEF DInv
  <1>1. ASSUME UNCHANGED files PROVE Usage' = Usage
    BY <1>1, NoFileChanges
  <1>2. ASSUME UNCHANGED rows PROVE Indexed' = Indexed
    BY <1>2 DEF Indexed
  <1>3. ASSUME NEW k \in Keys, NEW c \in Contents, WriteFile(k, c) PROVE BudgetInv'
    <2>1. \A l \in Keys \ {k} : files'[l] = files[l]
      BY <1>3 DEF WriteFile, TypeOK
    <2>2. PICK rest \in Nat : Usage = FileSize(k) + rest /\ Usage' = FileSize(k)' + rest
      BY <2>1, OneFileChanges
    <2>3. FileSize(k) = 0 /\ FileSize(k)' = Size[c]
      BY <1>3 DEF WriteFile, FileSize, TypeOK, DiskAssumption
    <2>4. Usage + Size[c] <= MaxBytes /\ Size[c] \in Nat
      BY <1>3 DEF WriteFile, DiskAssumption
    <2>5. Usage' <= MaxBytes
      BY <2>2, <2>3, <2>4
    <2>6. Indexed' = Indexed /\ Cardinality(Indexed) < MaxRows
      BY <1>2, <1>3 DEF WriteFile, Capacity, Indexed
    <2>7. QED
      BY <2>5, <2>6 DEF BudgetInv
  <1>4. CASE InsertRow
    <2>1. PICK k \in Keys : k = io.key
      BY <1>4 DEF InsertRow, TypeOK
    <2>2. \A l \in Keys \ {k} : rows'[l] # None <=> rows[l] # None
      BY <1>4, <2>1 DEF InsertRow, TypeOK
    <2>3. Cardinality(Indexed) < MaxRows
      BY <1>4 DEF InsertRow, BudgetInv
    <2>4. Cardinality(Indexed') <= MaxRows
      BY <2>2, <2>3, OneRowMore DEF DiskAssumption
    <2>5. QED
      BY <1>1, <1>4, <2>4 DEF InsertRow, BudgetInv
  <1>5. ASSUME NEW k \in Keys, Tombstone(k) PROVE BudgetInv'
    <2>1. \A l \in Keys \ {k} : rows'[l] # None <=> rows[l] # None
      BY <1>5 DEF Tombstone, TypeOK
    <2>2. rows[k] # None \/ Cardinality(Indexed) < MaxRows
      BY <1>5 DEF Tombstone, Capacity, Indexed
    <2>3. Cardinality(Indexed') <= MaxRows
      BY <2>1, <2>2, OneRowMore DEF DiskAssumption, BudgetInv
    <2>4. io'.op = "delete"
      BY <1>5 DEF Tombstone
    <2>5. QED
      BY <1>1, <1>5, <2>3, <2>4 DEF Tombstone, BudgetInv
  <1>6. CASE Unlink
    <2>1. PICK k \in Keys : k = io.key
      BY <1>6 DEF Unlink, TypeOK
    <2>2. \A l \in Keys \ {k} : files'[l] = files[l]
      BY <1>6, <2>1 DEF Unlink, TypeOK
    <2>3. FileSize(k)' <= FileSize(k)
      <3>1. FileSize(k)' = 0
        BY <1>6, <2>1 DEF Unlink, FileSize, TypeOK
      <3>2. FileSize(k) \in Nat
        BY DEF FileSize, TypeOK, DiskAssumption
      <3>3. QED
        BY <3>1, <3>2
    <2>4. Usage' <= MaxBytes
      BY <2>2, <2>3, CutFileFits DEF BudgetInv
    <2>5. QED
      BY <1>2, <1>6, <2>4 DEF Unlink, BudgetInv
  <1>7. CASE Interrupted
    <2>1. ASSUME io # None, io.op = "put" PROVE Usage' <= MaxBytes
      <3>1. PICK k \in Keys : k = io.key
        BY <2>1 DEF TypeOK
      <3>2. files[k] \in Contents /\ files[k] # None
        BY <2>1, <3>1 DEF IoFits, TypeOK
      <3>3. PICK c \in {d \in Contents : Size[d] <= Size[files[k]]} \cup {None} :
                files' = [files EXCEPT ![k] = c]
        BY <1>7, <2>1, <3>1 DEF Interrupted
      <3>4. \A l \in Keys \ {k} : files'[l] = files[l]
        BY <3>3 DEF TypeOK
      <3>5. files'[k] = c /\ Size[files[k]] \in Nat
        BY <3>2, <3>3 DEF TypeOK, DiskAssumption
      <3>6. FileSize(k)' <= FileSize(k)
        BY <3>2, <3>5 DEF FileSize
      <3>7. QED
        BY <3>4, <3>6, CutFileFits DEF BudgetInv
    <2>2. ASSUME ~ (io # None /\ io.op = "put") PROVE Usage' <= MaxBytes
      BY <1>1, <1>7, <2>2 DEF Interrupted, BudgetInv
    <2>3. QED
      BY <1>2, <1>7, <2>1, <2>2 DEF Interrupted, BudgetInv
  <1>8. CASE Start
    BY <1>1, <1>2, <1>8 DEF Start, BudgetInv
  <1>9. CASE Compact
    <2>1. Indexed' \subseteq Indexed
      BY <1>9 DEF Compact, Live, Indexed
    <2>2. IsFiniteSet(Indexed)
      BY FS_Subset DEF DiskAssumption, Indexed
    <2>3. Cardinality(Indexed') <= Cardinality(Indexed)
          /\ Cardinality(Indexed) \in Nat /\ Cardinality(Indexed') \in Nat
      BY <2>1, <2>2, FS_Subset, FS_CardinalityType
    <2>4. QED
      BY <1>1, <1>9, <2>3 DEF Compact, BudgetInv, DiskAssumption
  <1>10. CASE UNCHANGED vars
    BY <1>1, <1>2, <1>10 DEF vars, BudgetInv
  <1>11. QED
    BY <1>3, <1>4, <1>5, <1>6, <1>7, <1>8, <1>9, <1>10 DEF Next, Fail, Crash

\* Neither the bytes on the disk nor the rows of the index ever exceed their
\* limits: an interrupted upload only shrinks, and the row of a running one
\* was reserved when it began (local_media_store.py:57-65, 96-98, 126-128).
THEOREM DiskWithinBudget ==
    ASSUME DiskAssumption
    PROVE  Spec => []WithinBudget
  <1>1. Init => BudgetInv
    BY InitBudget
  <1>2. DInv /\ DInv' /\ BudgetInv /\ [Next]_vars => BudgetInv'
    BY StepBudget
  <1>3. BudgetInv => WithinBudget
    BY DEF BudgetInv, WithinBudget, Indexed
  <1>4. QED
    BY <1>1, <1>2, <1>3, DiskInvariant, PTL DEF Spec

=============================================================================
