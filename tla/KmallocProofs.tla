---------------------------- MODULE KmallocProofs ----------------------------
(***************************************************************************)
(* Proofs about Kmalloc, for pages, slabs and heaps of any size and rows   *)
(* of any sizes that divide a slab: memory in use never overlaps, lies in  *)
(* mapped pages and is not lost, and trimming releases what it can.        *)
(***************************************************************************)
EXTENDS Kmalloc, FiniteSetTheorems, WellFoundedInduction, TLAPS

Elements(s) == {s[k] : k \in 1 .. Len(s)}
Once(s) == \A k, l \in 1 .. Len(s) : s[k] = s[l] => k = l
Lists(s, S) == s \in Seq(S) /\ Elements(s) = S /\ Once(s)

(* The items of a slab, those of them that are in a slab, and the headers. *)
Count(size) == SlabBytes \div size
Cells(a, size) == {a + k * size : k \in 0 .. Count(size) - 1}
SlabPlaces == {p * PageBytes : p \in 0 .. HeapPages - SlabPages}
Placed(h, x, size) == \E a \in DOMAIN h.slab : h.slab[a].size = size /\ x \in Cells(a, size)
Headers(h) == {h.slab[a].header : a \in DOMAIN h.slab}
PagesOfSlabs(h) == UNION {PagesOf(a, SlabPages) : a \in DOMAIN h.slab}
InRow(h, size) == {a \in DOMAIN h.slab : h.slab[a].size = size}

(* A slab at a, where X is what is in use: its list has the items that are *)
(* not, and its count is one less.                                         *)
SlabOK(s, a, X) ==
  /\ DOMAIN s = {"size", "header", "avail", "total", "free"}
  /\ s.size \in Sizes /\ s.total = Count(s.size) - 1 /\ s.free \in Nat
  /\ Lists(s.avail, Cells(a, s.size) \ X) /\ Len(s.avail) = s.free + 1

(* A heap out of which the items Y are in use besides the slabs' headers,  *)
(* and the pages R are mapped besides the slabs'.                          *)
ShapeOK(h) == DOMAIN h = {"slab", "row", "special", "mapped"} /\ DOMAIN h.slab \subseteq SlabPlaces
ListsOK(h, Y) == \A a \in DOMAIN h.slab : SlabOK(h.slab[a], a, Y \cup Headers(h))
HeadersOK(h) ==
  /\ \A a \in DOMAIN h.slab : /\ Placed(h, h.slab[a].header, HeaderSize)
                              /\ h.slab[a].size = HeaderSize => h.slab[a].header = a
  /\ \A a, b \in DOMAIN h.slab : h.slab[a].header = h.slab[b].header => a = b
ItemsOK(h, Y) == \A y \in Y : y \notin Headers(h) /\ \E size \in Sizes : Placed(h, y, size)
PagesOK(h, R) ==
  /\ \A a, b \in DOMAIN h.slab : a # b => PagesOf(a, SlabPages) \cap PagesOf(b, SlabPages) = {}
  /\ h.mapped = R \cup PagesOfSlabs(h) /\ R \cap PagesOfSlabs(h) = {} /\ h.mapped \subseteq 0 .. HeapPages - 1
RowsOK(h) == DOMAIN h.row = Sizes /\ \A size \in Sizes : Lists(h.row[size], InRow(h, size))

HeapOK(h, Y, R) ==
  ShapeOK(h) /\ ListsOK(h, Y) /\ HeadersOK(h) /\ ItemsOK(h, Y) /\ PagesOK(h, R) /\ RowsOK(h)

Records(h) == {h.special[i].rec : i \in DOMAIN h.special}
PagesOfSpecial(h) == UNION {PagesOf(h.special[i].data, h.special[i].pages) : i \in DOMAIN h.special}
SpecialOK(h) ==
  /\ h.special \in Seq([data : {p * PageBytes : p \in 0 .. HeapPages - 1}, pages : Nat \ {0}, rec : Nat])
  /\ \A i \in DOMAIN h.special : Placed(h, h.special[i].rec, RecordSize)
  /\ \A i, j \in DOMAIN h.special : i # j =>
       /\ h.special[i].rec # h.special[j].rec
       /\ PagesOf(h.special[i].data, h.special[i].pages) \cap PagesOf(h.special[j].data, h.special[j].pages) = {}

Small(o) == {x.at : x \in {y \in o : y.size <= SlabBytes}}
ObjectsOK(h, o) ==
  /\ o \subseteq [at : Nat, size : Requests]
  /\ \A x, y \in o : x.at = y.at => x = y
  /\ \A x \in o : IF x.size <= SlabBytes THEN Placed(h, x.at, RowOf(x.size))
                  ELSE \E i \in DOMAIN h.special : h.special[i].data = x.at /\ h.special[i].pages = PagesNeeded(x.size)

(* The items in use, and what the allocator's are not.                     *)
InUse(h, o) == RowHeaders \cup Records(h) \cup Small(o)
ApartOK(h, o) ==
  /\ \A r \in RowHeaders : Placed(h, r, HeaderSize) /\ r \notin Records(h) /\ r \notin Small(o)
  /\ Records(h) \cap Small(o) = {}

Sound(h, o) ==
  HeapOK(h, InUse(h, o), PagesOfSpecial(h)) /\ SpecialOK(h) /\ ObjectsOK(h, o) /\ ApartOK(h, o)

IInv == Sound(heap, objs) /\ fault \in BOOLEAN
-----------------------------------------------------------------------------
(* Lists without repetitions. *)
LEMMA InSeq ==
  ASSUME NEW S, NEW T, NEW s \in Seq(S), \A k \in 1 .. Len(s) : s[k] \in T
  PROVE  s \in Seq(T)
  OBVIOUS

LEMMA LengthIs == ASSUME NEW S, NEW s \in Seq(S) PROVE Len(s) \in Nat /\ DOMAIN s = 1 .. Len(s)
  OBVIOUS

LEMMA ElementOf == ASSUME NEW s, NEW k \in 1 .. Len(s) PROVE s[k] \in Elements(s)
  BY DEF Elements

(* What is left of a list once its head is taken. *)
LEMMA ListTail ==
  ASSUME NEW S, NEW s, Lists(s, S), s # <<>>
  PROVE  /\ Lists(Tail(s), S \ {Head(s)}) /\ Head(s) \in S
         /\ Len(s) \in Nat /\ Len(Tail(s)) = Len(s) - 1 /\ Len(s) # 0
<1> DEFINE t == Tail(s)
           e == Head(s)
<1>1. s \in Seq(S) /\ Elements(s) = S /\ Once(s)
  BY DEF Lists
<1>2. /\ t \in Seq(S) /\ Len(t) = Len(s) - 1 /\ Len(s) \in Nat \ {0} /\ e = s[1] /\ e \in S
      /\ \A k \in 1 .. Len(t) : t[k] = s[k + 1]
  BY <1>1
<1> HIDE DEF t, e
<1>3. 1 \in 1 .. Len(s) /\ \A k \in 1 .. Len(t) : k + 1 \in 1 .. Len(s) /\ k + 1 # 1
  BY <1>2
<1>4. ASSUME NEW k \in 1 .. Len(t) PROVE t[k] \in S \ {e}
  <2>1. k + 1 \in 1 .. Len(s) /\ t[k] = s[k + 1] /\ k + 1 # 1
    BY <1>2, <1>3
  <2>2. t[k] # e
    BY <1>1, <1>2, <1>3, <2>1 DEF Once
  <2>3. t[k] \in S
    BY <1>1, <2>1, ElementOf
  <2>. QED
    BY <2>2, <2>3
<1>5. t \in Seq(S \ {e})
  BY <1>2, <1>4, InSeq
<1>6. Once(t)
  <2>1. SUFFICES ASSUME NEW k \in 1 .. Len(t), NEW l \in 1 .. Len(t), t[k] = t[l] PROVE k = l
    BY DEF Once
  <2>2. k + 1 = l + 1
    BY <1>1, <1>2, <1>3, <2>1 DEF Once
  <2>. QED
    BY <2>2
<1>7. ASSUME NEW x \in S \ {e} PROVE x \in Elements(t)
  <2>1. PICK k \in 1 .. Len(s) : x = s[k]
    BY <1>1 DEF Elements
  <2>2. k # 1
    BY <1>2, <2>1
  <2>3. k - 1 \in 1 .. Len(t) /\ (k - 1) + 1 = k
    BY <1>2, <2>2
  <2>4. t[k - 1] = x
    BY <1>2, <2>1, <2>3
  <2>. QED
    BY <2>3, <2>4, ElementOf
<1>8. Elements(t) = S \ {e}
  BY <1>4, <1>7 DEF Elements
<1>. QED
  BY <1>2, <1>5, <1>6, <1>8 DEF Lists, t, e

(* An item put before a list it is not on. *)
LEMMA ListPush ==
  ASSUME NEW S, NEW s, Lists(s, S), NEW e, e \notin S
  PROVE  Lists(<<e>> \o s, S \cup {e}) /\ Len(<<e>> \o s) = Len(s) + 1 /\ Len(s) \in Nat
<1> DEFINE t == <<e>> \o s
           T == S \cup {e}
<1>1. s \in Seq(S) /\ Elements(s) = S /\ Once(s)
  BY DEF Lists
<1>2. /\ t \in Seq(T) /\ Len(t) = Len(s) + 1 /\ Len(s) \in Nat /\ t[1] = e
      /\ \A k \in 1 .. Len(s) : t[k + 1] = s[k]
  <2>1. s \in Seq(T) /\ <<e>> \in Seq(T)
    BY <1>1
  <2>. QED
    BY <2>1
<1> HIDE DEF t
<1>3. \A k \in 1 .. Len(s) : k + 1 \in 1 .. Len(t) /\ s[k] \in S /\ s[k] # e
  BY <1>1, <1>2, ElementOf
<1>4. \A k \in 1 .. Len(t) : k = 1 \/ (k - 1 \in 1 .. Len(s) /\ t[k] = s[k - 1])
  <2>1. SUFFICES ASSUME NEW k \in 1 .. Len(t), k # 1 PROVE k - 1 \in 1 .. Len(s) /\ t[k] = s[k - 1]
    OBVIOUS
  <2>2. k - 1 \in 1 .. Len(s) /\ (k - 1) + 1 = k
    BY <1>2, <2>1
  <2>. QED
    BY <1>2, <2>2
<1>5. Once(t)
  <2>1. SUFFICES ASSUME NEW k \in 1 .. Len(t), NEW l \in 1 .. Len(t), t[k] = t[l] PROVE k = l
    BY DEF Once
  <2>2. CASE k = 1 \/ l = 1
    BY <1>2, <1>3, <1>4, <2>1, <2>2
  <2>3. CASE k # 1 /\ l # 1
    <3>1. k - 1 \in 1 .. Len(s) /\ l - 1 \in 1 .. Len(s) /\ s[k - 1] = s[l - 1]
      BY <1>4, <2>1, <2>3
    <3>2. k - 1 = l - 1
      BY <1>1, <3>1 DEF Once
    <3>. QED
      BY <3>2
  <2>. QED
    BY <2>2, <2>3
<1>6. Elements(t) = T
  <2>1. 1 \in 1 .. Len(t)
    BY <1>2
  <2>2. e \in Elements(t)
    BY <1>2, <2>1, ElementOf
  <2>3. ASSUME NEW x \in S PROVE x \in Elements(t)
    <3>1. PICK k \in 1 .. Len(s) : x = s[k]
      BY <1>1 DEF Elements
    <3>2. k + 1 \in 1 .. Len(t) /\ t[k + 1] = x
      BY <1>2, <1>3, <3>1
    <3>. QED
      BY <3>2, ElementOf
  <2>4. ASSUME NEW k \in 1 .. Len(t) PROVE t[k] \in T
    BY <1>2, <1>3, <1>4
  <2>. QED
    BY <2>2, <2>3, <2>4 DEF Elements
<1>. QED
  BY <1>2, <1>5, <1>6 DEF Lists, t

(* The places of a sequence joined of two. *)
LEMMA JoinIs ==
  ASSUME NEW S, NEW A \in Seq(S), NEW B \in Seq(S), NEW C, C = A \o B
  PROVE  /\ C \in Seq(S) /\ Len(C) = Len(A) + Len(B)
         /\ \A j \in 1 .. Len(A) : C[j] = A[j]
         /\ \A j \in 1 .. Len(B) : C[Len(A) + j] = B[j]
  OBVIOUS

(* RemoveAt, place by place. *)
LEMMA RemovedIs ==
  ASSUME NEW S, NEW s \in Seq(S), NEW i \in 1 .. Len(s)
  PROVE  LET t == RemoveAt(s, i)
         IN /\ t \in Seq(S) /\ Len(t) = Len(s) - 1 /\ Len(s) \in Nat \ {0}
            /\ \A k \in 1 .. Len(t) : t[k] = IF k < i THEN s[k] ELSE s[k + 1]
<1> DEFINE A == SubSeq(s, 1, i - 1)
           B == SubSeq(s, i + 1, Len(s))
           t == RemoveAt(s, i)
           n == Len(s)
<1>1. n \in Nat \ {0} /\ i \in 1 .. n
  OBVIOUS
<1>2. A \in Seq(S) /\ Len(A) = i - 1 /\ \A k \in 1 .. i - 1 : A[k] = s[k]
  BY <1>1
<1>3. B \in Seq(S) /\ Len(B) = n - i /\ \A k \in 1 .. n - i : B[k] = s[i + k]
  BY <1>1
<1>4. t = A \o B
  BY DEF RemoveAt
<1> HIDE DEF A, B, t
<1>5. /\ t \in Seq(S) /\ Len(t) = Len(A) + Len(B)
      /\ \A j \in 1 .. Len(A) : t[j] = A[j]
      /\ \A j \in 1 .. Len(B) : t[Len(A) + j] = B[j]
  <2>1. A \in Seq(S) /\ B \in Seq(S)
    BY <1>2, <1>3
  <2>. QED
    BY <1>4, <2>1, JoinIs
<1> HIDE DEF n
<1>6. Len(t) = n - 1
  BY <1>1, <1>2, <1>3, <1>5
<1>7. ASSUME NEW k \in 1 .. Len(t) PROVE t[k] = IF k < i THEN s[k] ELSE s[k + 1]
  <2>1. CASE k < i
    <3>1. k \in 1 .. i - 1
      BY <1>1, <2>1
    <3>. QED
      BY <1>2, <1>5, <2>1, <3>1
  <2>2. CASE ~(k < i)
    <3>1. k - (i - 1) \in 1 .. n - i /\ (i - 1) + (k - (i - 1)) = k /\ i + (k - (i - 1)) = k + 1
      BY <1>1, <1>6, <2>2
    <3>2. t[(i - 1) + (k - (i - 1))] = B[k - (i - 1)] /\ B[k - (i - 1)] = s[i + (k - (i - 1))]
      BY <1>2, <1>3, <1>5, <3>1
    <3>. QED
      BY <2>2, <3>1, <3>2
  <2>. QED
    BY <2>1, <2>2
<1>. QED
  BY <1>1, <1>5, <1>6, <1>7 DEF t, n

(* Where the entries that stay come from. *)
LEMMA RemovedFrom ==
  ASSUME NEW S, NEW s \in Seq(S), NEW i \in 1 .. Len(s), NEW t, t = RemoveAt(s, i)
  PROVE  /\ t \in Seq(S)
         /\ \E old \in [1 .. Len(t) -> 1 .. Len(s)] :
              /\ \A k \in 1 .. Len(t) : old[k] # i /\ t[k] = s[old[k]]
              /\ \A k, l \in 1 .. Len(t) : old[k] = old[l] => k = l
              /\ \A j \in 1 .. Len(s) : j # i => \E k \in 1 .. Len(t) : old[k] = j
<1> DEFINE n == Len(s)
           old == [k \in 1 .. Len(t) |-> IF k < i THEN k ELSE k + 1]
<1>1. /\ t \in Seq(S) /\ Len(t) = n - 1 /\ n \in Nat \ {0}
      /\ \A k \in 1 .. Len(t) : t[k] = IF k < i THEN s[k] ELSE s[k + 1]
  BY RemovedIs
<1>2. old \in [1 .. Len(t) -> 1 .. n] /\ \A k \in 1 .. Len(t) : old[k] # i /\ t[k] = s[old[k]]
  BY <1>1
<1>3. \A k, l \in 1 .. Len(t) : old[k] = old[l] => k = l
  BY <1>1
<1>4. ASSUME NEW j \in 1 .. n, j # i PROVE \E k \in 1 .. Len(t) : old[k] = j
  <2>1. CASE j < i
    <3>1. j \in 1 .. Len(t) /\ old[j] = j
      BY <1>1, <2>1
    <3>. QED
      BY <3>1
  <2>2. CASE ~(j < i)
    <3>1. j - 1 \in 1 .. Len(t) /\ ~(j - 1 < i) /\ (j - 1) + 1 = j
      BY <1>1, <1>4, <2>2
    <3>2. old[j - 1] = j
      BY <3>1
    <3>. QED
      BY <3>1, <3>2
  <2>. QED
    BY <2>1, <2>2
<1> HIDE DEF old
<1>. QED
  BY <1>1, <1>2, <1>3, <1>4

(* A list with one of its places taken out. *)
LEMMA ListRemove ==
  ASSUME NEW S, NEW s, Lists(s, S), NEW i \in 1 .. Len(s)
  PROVE  Lists(RemoveAt(s, i), S \ {s[i]})
<1> DEFINE t == RemoveAt(s, i)
           n == Len(s)
<1>1. s \in Seq(S) /\ Elements(s) = S /\ Once(s)
  BY DEF Lists
<1>2. t \in Seq(S)
  BY <1>1, RemovedFrom
<1>3. PICK old \in [1 .. Len(t) -> 1 .. n] :
        /\ \A k \in 1 .. Len(t) : old[k] # i /\ t[k] = s[old[k]]
        /\ \A k, l \in 1 .. Len(t) : old[k] = old[l] => k = l
        /\ \A j \in 1 .. n : j # i => \E k \in 1 .. Len(t) : old[k] = j
  BY <1>1, RemovedFrom
<1> HIDE DEF t
<1>4. Once(t)
  BY <1>1, <1>3 DEF Once
<1>5. ASSUME NEW k \in 1 .. Len(t) PROVE t[k] \in S \ {s[i]}
  <2>1. old[k] \in 1 .. n /\ old[k] # i /\ t[k] = s[old[k]]
    BY <1>3
  <2>2. t[k] # s[i]
    BY <1>1, <2>1 DEF Once
  <2>. QED
    BY <1>1, <2>1, <2>2, ElementOf
<1>6. ASSUME NEW x \in S \ {s[i]} PROVE x \in Elements(t)
  <2>1. PICK j \in 1 .. n : x = s[j]
    BY <1>1 DEF Elements
  <2>2. j # i
    BY <2>1
  <2>3. PICK k \in 1 .. Len(t) : old[k] = j
    BY <1>3, <2>2
  <2>. QED
    BY <1>3, <2>1, <2>3, ElementOf
<1>7. t \in Seq(S \ {s[i]})
  BY <1>2, <1>5, InSeq
<1>. QED
  BY <1>4, <1>5, <1>6, <1>7 DEF Lists, Elements, t

(* A list has as many places as elements. *)
LEMMA ListCount ==
  ASSUME NEW S, NEW s, Lists(s, S)
  PROVE  IsFiniteSet(S) /\ Cardinality(S) = Len(s) /\ Len(s) \in Nat
<1> DEFINE D == 1 .. Len(s)
           f == [k \in D |-> s[k]]
<1>1. s \in Seq(S) /\ Elements(s) = S /\ Once(s) /\ Len(s) \in Nat
  BY LengthIs DEF Lists
<1>2. IsFiniteSet(D) /\ Cardinality(D) = Len(s)
  <2>1. IsFiniteSet(D) /\ Cardinality(D) = IF 1 > Len(s) THEN 0 ELSE Len(s) - 1 + 1
    BY <1>1, FS_Interval
  <2>. QED
    BY <1>1, <2>1
<1>3. f \in [D -> S] /\ DOMAIN f = D /\ \A k \in D : f[k] = s[k]
  BY <1>1 DEF Elements
<1>4. (\A k, l \in D : f[k] = f[l] => k = l) /\ \A x \in S : \E k \in D : f[k] = x
  BY <1>1, <1>3 DEF Once, Elements
<1> HIDE DEF D, f
<1>5. f \in Injection(D, S) /\ f \in Surjection(D, S)
  BY <1>3, <1>4 DEF Injection, IsInjective, Surjection
<1>6. ExistsBijection(D, S)
  BY <1>5 DEF ExistsBijection, Bijection
<1>. QED
  BY <1>1, <1>2, <1>6, FS_Bijection
-----------------------------------------------------------------------------
(* Sizes, items and pages. *)
LEMMA ProductUp ==
  ASSUME NEW k \in Nat, NEW l \in Nat, k <= l, NEW s \in Nat
  PROVE  k * s \in Nat /\ l * s \in Nat /\ k * s <= l * s
<1>1. l = k + (l - k) /\ l - k \in Nat
  OBVIOUS
<1>2. l * s = k * s + (l - k) * s
  BY <1>1
<1>3. (l - k) * s \in Nat /\ k * s \in Nat
  BY <1>1
<1>. QED
  BY <1>2, <1>3

LEMMA WholeParts ==
  ASSUME NEW n \in Nat \ {0}, NEW s \in Nat \ {0}, n % s = 0
  PROVE  n \div s \in Nat \ {0} /\ (n \div s) * s = n /\ s <= n
  OBVIOUS

(* The sizes KmallocAssumption names. *)
LEMMA SlabSize ==
  /\ SlabBytes \in Nat \ {0} /\ PageBytes \in Nat \ {0} /\ SlabPages \in Nat \ {0} /\ HeapPages \in Nat \ {0}
  /\ SlabPages * PageBytes = SlabBytes /\ SlabPages <= HeapPages
<1>1. PageBytes \in Nat \ {0} /\ SlabPages \in Nat \ {0} /\ HeapPages \in Nat \ {0} /\ SlabPages <= HeapPages
  BY KmallocAssumption
<1>2. PageBytes * SlabPages \in Nat \ {0} /\ SlabPages * PageBytes = PageBytes * SlabPages
  BY <1>1
<1>. QED
  BY <1>1, <1>2 DEF SlabBytes

(* The items of a size fill a slab exactly. *)
LEMMA SizeIs ==
  ASSUME NEW s \in Sizes
  PROVE  /\ s \in Nat \ {0} /\ s <= SlabBytes
         /\ Count(s) \in Nat \ {0} /\ Count(s) * s = SlabBytes
         /\ (Count(s) = 1) <=> (s = SlabBytes)
<1>1. s \in Nat \ {0} /\ SlabBytes % s = 0
  BY KmallocAssumption
<1>2. SlabBytes \div s \in Nat \ {0} /\ (SlabBytes \div s) * s = SlabBytes /\ s <= SlabBytes
  BY <1>1, SlabSize, WholeParts
<1>3. Count(s) \in Nat \ {0} /\ Count(s) * s = SlabBytes
  BY <1>2 DEF Count
<1>4. ASSUME Count(s) = 1 PROVE s = SlabBytes
  BY <1>1, <1>3, <1>4
<1>5. ASSUME s = SlabBytes PROVE Count(s) = 1
  BY <1>1, <1>5, SlabSize DEF Count
<1>. QED
  BY <1>1, <1>2, <1>3, <1>4, <1>5

(* The header row has items left once the row headers are in it. *)
LEMMA NamedSizes ==
  /\ HeaderSize \in Sizes /\ RecordSize \in Sizes /\ SlabBytes \in Sizes
  /\ Count(HeaderSize) >= 3 /\ Count(RecordSize) >= 2 /\ Count(SlabBytes) = 1
  /\ Cardinality(Sizes) \in Nat \ {0} /\ Cardinality(Sizes) + 2 <= Count(HeaderSize)
<1>1. /\ HeaderSize \in Sizes /\ RecordSize \in Sizes /\ SlabBytes \in Sizes /\ RecordSize # SlabBytes
      /\ IsFiniteSet(Sizes) /\ Cardinality(Sizes) + 2 <= Count(HeaderSize)
  BY KmallocAssumption DEF Count
<1>2. Cardinality(Sizes) \in Nat /\ Cardinality(Sizes) # 0
  BY <1>1, FS_CardinalityType, FS_EmptySet
<1>3. Count(RecordSize) # 1 /\ Count(SlabBytes) = 1
  BY <1>1, SizeIs
<1>4. Count(RecordSize) \in Nat \ {0} /\ Count(HeaderSize) \in Nat \ {0}
  BY <1>1, SizeIs
<1>. QED
  BY <1>1, <1>2, <1>3, <1>4

(* The items of a slab lie inside it, and apart. *)
LEMMA CellInside ==
  ASSUME NEW a \in Nat, NEW s \in Sizes, NEW x \in Cells(a, s)
  PROVE  x \in Nat /\ a <= x /\ x + s <= a + SlabBytes
<1>1. PICK k \in 0 .. Count(s) - 1 : x = a + k * s
  BY DEF Cells
<1>2. s \in Nat \ {0} /\ Count(s) \in Nat \ {0} /\ Count(s) * s = SlabBytes
  BY SizeIs
<1>3. k \in Nat /\ k + 1 \in Nat /\ k + 1 <= Count(s) /\ (k + 1) * s = k * s + s
  BY <1>2
<1>4. k * s \in Nat /\ (k + 1) * s <= Count(s) * s
  BY <1>2, <1>3, ProductUp
<1> DEFINE m == k * s
<1> HIDE DEF m
<1>5. m \in Nat /\ m + s <= SlabBytes /\ x = a + m
  BY <1>1, <1>2, <1>3, <1>4 DEF m
<1>. QED
  BY <1>2, <1>5, SlabSize

(* Two items of a slab do not overlap. *)
LEMMA CellsApart ==
  ASSUME NEW a \in Nat, NEW s \in Sizes, NEW x \in Cells(a, s), NEW y \in Cells(a, s), x # y
  PROVE  x + s <= y \/ y + s <= x
<1>1. PICK k \in 0 .. Count(s) - 1 : x = a + k * s
  BY DEF Cells
<1>2. PICK l \in 0 .. Count(s) - 1 : y = a + l * s
  BY DEF Cells
<1>3. s \in Nat \ {0} /\ k \in Nat /\ l \in Nat /\ k # l
  BY <1>1, <1>2, SizeIs
<1>4. k * s \in Nat /\ l * s \in Nat /\ (k + 1) * s = k * s + s /\ (l + 1) * s = l * s + s
  BY <1>3
<1>5. CASE k < l
  <2>1. (k + 1) * s <= l * s
    BY <1>3, <1>5, ProductUp
  <2>2. k * s + s <= l * s
    BY <1>4, <2>1
  <2> DEFINE m == k * s
             n == l * s
  <2> HIDE DEF m, n
  <2>3. m + s <= n /\ m \in Nat /\ n \in Nat /\ x = a + m /\ y = a + n
    BY <1>1, <1>2, <1>4, <2>2 DEF m, n
  <2>. QED
    BY <1>3, <2>3
<1>6. CASE l < k
  <2>1. (l + 1) * s <= k * s
    BY <1>3, <1>6, ProductUp
  <2>2. l * s + s <= k * s
    BY <1>4, <2>1
  <2> DEFINE m == k * s
             n == l * s
  <2> HIDE DEF m, n
  <2>3. n + s <= m /\ m \in Nat /\ n \in Nat /\ x = a + m /\ y = a + n
    BY <1>1, <1>2, <1>4, <2>2 DEF m, n
  <2>. QED
    BY <1>3, <2>3
<1>. QED
  BY <1>3, <1>5, <1>6

(* The list that a new slab begins with. *)
LEMMA ItemsList ==
  ASSUME NEW a \in Nat, NEW s \in Sizes
  PROVE  Lists(Items(a, s), Cells(a, s)) /\ Len(Items(a, s)) = Count(s) /\ Head(Items(a, s)) = a /\ Items(a, s) # <<>>
<1> DEFINE t == Items(a, s)
           n == Count(s)
<1>1. n \in Nat \ {0} /\ s \in Nat \ {0}
  BY SizeIs
<1>2. t = [k \in 1 .. n |-> a + (k - 1) * s]
  BY DEF Items, Count
<1> HIDE DEF t, n
<1>3. \A k \in 1 .. n : t[k] = a + (k - 1) * s /\ k - 1 \in 0 .. n - 1 /\ (k - 1) * s \in Nat
  BY <1>1, <1>2
<1>4. \A k \in 1 .. n : t[k] \in Cells(a, s)
  BY <1>3 DEF Cells, n
<1>5. t \in Seq(Cells(a, s)) /\ Len(t) = n
  BY <1>1, <1>2, <1>4
<1>6. Once(t)
  <2>1. SUFFICES ASSUME NEW k \in 1 .. n, NEW l \in 1 .. n, t[k] = t[l] PROVE k = l
    BY <1>5 DEF Once
  <2>2. (k - 1) * s = (l - 1) * s
    <3> DEFINE x == (k - 1) * s
               y == (l - 1) * s
    <3>1. x \in Nat /\ y \in Nat /\ a + x = a + y
      BY <1>3, <2>1
    <3> HIDE DEF x, y
    <3>2. x = y
      BY <3>1
    <3>. QED
      BY <3>2 DEF x, y
  <2>3. k - 1 = l - 1
    BY <1>1, <1>3, <2>2
  <2>. QED
    BY <1>1, <2>3
<1>7. ASSUME NEW x \in Cells(a, s) PROVE x \in Elements(t)
  <2>1. PICK k \in 0 .. n - 1 : x = a + k * s
    BY DEF Cells, n
  <2>2. k + 1 \in 1 .. n /\ (k + 1) - 1 = k
    BY <1>1
  <2>3. t[k + 1] = x
    BY <1>3, <2>1, <2>2
  <2>. QED
    BY <1>5, <2>2, <2>3, ElementOf
<1>8. Elements(t) = Cells(a, s)
  BY <1>4, <1>5, <1>7 DEF Elements
<1>9. t[1] = a /\ Head(t) = t[1] /\ t # <<>>
  BY <1>1, <1>2, <1>5
<1>. QED
  BY <1>5, <1>6, <1>8, <1>9 DEF Lists, t, n

(* An address in bytes and its page. *)
LEMMA PageOfPlace ==
  ASSUME NEW per \in Nat \ {0}, NEW p \in Nat, NEW d \in 0 .. per - 1
  PROVE  (p * per + d) \div per = p
  OBVIOUS

LEMMA PageParts ==
  ASSUME NEW per \in Nat \ {0}, NEW b \in Nat
  PROVE  b \div per \in Nat /\ b % per \in 0 .. per - 1 /\ b = (b \div per) * per + (b % per)
  OBVIOUS

(* The pages of a run that starts at a page. *)
LEMMA PagesAre ==
  ASSUME NEW p \in Nat, NEW n \in Nat
  PROVE  p * PageBytes \in Nat /\ PagesOf(p * PageBytes, n) = p .. p + n - 1
<1>1. p * PageBytes \in Nat /\ p * PageBytes + 0 = p * PageBytes /\ 0 \in 0 .. PageBytes - 1
  BY SlabSize
<1>2. (p * PageBytes + 0) \div PageBytes = p
  BY <1>1, SlabSize, PageOfPlace
<1>. QED
  BY <1>1, <1>2 DEF PagesOf

(* A byte of a run is in one of its pages. *)
LEMMA BytesInPages ==
  ASSUME NEW p \in Nat, NEW n \in Nat, NEW b \in Nat, p * PageBytes <= b, b < p * PageBytes + n * PageBytes
  PROVE  b \div PageBytes \in PagesOf(p * PageBytes, n)
<1> DEFINE q == b \div PageBytes
<1>1. PageBytes \in Nat \ {0}
  BY SlabSize
<1>2. q \in Nat /\ b % PageBytes \in 0 .. PageBytes - 1 /\ b = q * PageBytes + (b % PageBytes)
  BY <1>1, PageParts
<1> HIDE DEF q
<1>3. /\ (q + 1) * PageBytes = q * PageBytes + PageBytes
      /\ p * PageBytes + n * PageBytes = (p + n) * PageBytes
      /\ q * PageBytes \in Nat /\ p * PageBytes \in Nat /\ (p + n) * PageBytes \in Nat
  BY <1>1, <1>2
<1>4. q >= p
  <2>1. SUFFICES ASSUME q < p PROVE FALSE
    BY <1>2
  <2>2. (q + 1) * PageBytes <= p * PageBytes
    BY <1>1, <1>2, <2>1, ProductUp
  <2> DEFINE x == q * PageBytes
             y == p * PageBytes
             z == b % PageBytes
  <2>3. x + PageBytes <= y /\ y <= b /\ b = x + z /\ z < PageBytes /\ x \in Nat /\ y \in Nat /\ z \in Nat
    BY <1>1, <1>2, <1>3, <2>2
  <2> HIDE DEF x, y, z
  <2>. QED
    BY <1>1, <2>3
<1>5. q < p + n
  <2>1. SUFFICES ASSUME p + n <= q PROVE FALSE
    BY <1>2
  <2>2. (p + n) * PageBytes <= q * PageBytes
    BY <1>1, <1>2, <2>1, ProductUp
  <2> DEFINE x == q * PageBytes
             y == (p + n) * PageBytes
             z == b % PageBytes
  <2>3. y <= x /\ b < y /\ b = x + z /\ x \in Nat /\ y \in Nat /\ z \in Nat
    BY <1>1, <1>2, <1>3, <2>2
  <2> HIDE DEF x, y, z
  <2>. QED
    BY <2>3
<1>6. q \in p .. p + n - 1
  BY <1>2, <1>4, <1>5
<1>. QED
  BY <1>6, PagesAre DEF q

(* A place for a slab, and a byte of the slab. *)
LEMMA SlabPlace ==
  ASSUME NEW a \in SlabPlaces
  PROVE  /\ a \in Nat /\ PagesOf(a, SlabPages) \subseteq 0 .. HeapPages - 1
         /\ \A b \in Nat : a <= b /\ b < a + SlabBytes => b \div PageBytes \in PagesOf(a, SlabPages)
<1>1. PICK p \in 0 .. HeapPages - SlabPages : a = p * PageBytes
  BY DEF SlabPlaces
<1>2. p \in Nat /\ SlabPages \in Nat /\ HeapPages \in Nat
  BY <1>1, SlabSize
<1>3. a \in Nat /\ PagesOf(a, SlabPages) = p .. p + SlabPages - 1
  BY <1>1, <1>2, PagesAre
<1>4. ASSUME NEW b \in Nat, a <= b, b < a + SlabBytes PROVE b \div PageBytes \in PagesOf(a, SlabPages)
  BY <1>1, <1>2, <1>4, SlabSize, BytesInPages
<1>. QED
  BY <1>1, <1>2, <1>3, <1>4
-----------------------------------------------------------------------------
(* What an address belongs to in a heap. *)
LEMMA SlabIs ==
  ASSUME NEW h, NEW Y, NEW R, HeapOK(h, Y, R), NEW a \in DOMAIN h.slab
  PROVE  /\ a \in SlabPlaces /\ a \in Nat /\ h.slab[a].size \in Sizes
         /\ \A x \in Cells(a, h.slab[a].size) : x \in Nat /\ a <= x /\ x < a + SlabBytes
<1>1. a \in SlabPlaces /\ h.slab[a].size \in Sizes
  BY DEF HeapOK, ShapeOK, ListsOK, SlabOK
<1>2. a \in Nat
  BY <1>1, SlabPlace
<1>3. ASSUME NEW x \in Cells(a, h.slab[a].size) PROVE x \in Nat /\ a <= x /\ x < a + SlabBytes
  <2>1. x \in Nat /\ a <= x /\ x + h.slab[a].size <= a + SlabBytes
    BY <1>1, <1>2, CellInside
  <2>. QED
    BY <1>1, <1>2, <2>1, SizeIs, SlabSize
<1>. QED
  BY <1>1, <1>2, <1>3

(* An address is inside one slab at most. *)
LEMMA OneSlab ==
  ASSUME NEW h, NEW Y, NEW R, HeapOK(h, Y, R), NEW a \in DOMAIN h.slab, NEW b \in DOMAIN h.slab,
         NEW x \in Nat, a <= x, x < a + SlabBytes, b <= x, x < b + SlabBytes
  PROVE  a = b
<1>1. a \in SlabPlaces /\ b \in SlabPlaces
  BY SlabIs
<1>2. x \div PageBytes \in PagesOf(a, SlabPages) /\ x \div PageBytes \in PagesOf(b, SlabPages)
  BY <1>1, SlabPlace
<1>. QED
  BY <1>2 DEF HeapOK, PagesOK

(* kfree's search of the rows finds the slab an item belongs to. *)
LEMMA Around ==
  ASSUME NEW h, NEW Y, NEW R, HeapOK(h, Y, R), NEW a \in DOMAIN h.slab, NEW x \in Cells(a, h.slab[a].size)
  PROVE  SlabsAround(h, x) = {a}
<1>1. x \in Nat /\ a <= x /\ x < a + SlabBytes
  BY SlabIs
<1>2. \A b \in SlabsAround(h, x) : b = a
  BY <1>1, OneSlab DEF SlabsAround
<1>. QED
  BY <1>1, <1>2 DEF SlabsAround

(* Other slabs' items are not a slab's. *)
LEMMA OtherCells ==
  ASSUME NEW h, NEW Y, NEW R, HeapOK(h, Y, R), NEW a \in DOMAIN h.slab, NEW b \in DOMAIN h.slab, a # b,
         NEW x \in Cells(a, h.slab[a].size)
  PROVE  x \notin Cells(b, h.slab[b].size)
<1>1. SlabsAround(h, x) = {a}
  BY Around
<1>2. ASSUME x \in Cells(b, h.slab[b].size) PROVE FALSE
  BY <1>1, <1>2, Around
<1>. QED
  BY <1>2

(* What was in a slab of h still is in g. *)
Keeps(h, g) ==
  /\ g.special = h.special
  /\ \A a \in DOMAIN h.slab : a \in DOMAIN g.slab /\ g.slab[a].size = h.slab[a].size

(* An item stays in a slab of its size. *)
LEMMA KeepsPlaced ==
  ASSUME NEW h, NEW g, Keeps(h, g), NEW x, NEW s, Placed(h, x, s)
  PROVE  Placed(g, x, s)
  BY DEF Keeps, Placed

(* What is in use stays in its place. *)
KeepsUsed(h, g, Y) == g.special = h.special /\ \A x \in Y : \A s : Placed(h, x, s) => Placed(g, x, s)

LEMMA KeepsThen ==
  ASSUME NEW f, NEW g, NEW h, Keeps(f, g), Keeps(g, h)
  PROVE  Keeps(f, h)
  BY DEF Keeps
-----------------------------------------------------------------------------
(* Taking an item from a slab's list, or putting it back. *)
OneListChanged(h, g, a, list, n) ==
  /\ DOMAIN g = DOMAIN h /\ g.row = h.row /\ g.special = h.special /\ g.mapped = h.mapped
  /\ DOMAIN g.slab = DOMAIN h.slab
  /\ \A b \in DOMAIN h.slab : b # a => g.slab[b] = h.slab[b]
  /\ DOMAIN g.slab[a] = DOMAIN h.slab[a]
  /\ g.slab[a].size = h.slab[a].size /\ g.slab[a].header = h.slab[a].header /\ g.slab[a].total = h.slab[a].total
  /\ g.slab[a].avail = list /\ g.slab[a].free = n

HeapFields == {"slab", "row", "special", "mapped"}
SlabFields == {"size", "header", "avail", "total", "free"}

(* What an EXCEPT of a slab's count and list changes. *)
LEMMA ListView ==
  ASSUME NEW h, DOMAIN h = HeapFields, NEW a \in DOMAIN h.slab, DOMAIN h.slab[a] = SlabFields,
         NEW list, NEW n, NEW g, g = [h EXCEPT !.slab[a].free = n, !.slab[a].avail = list]
  PROVE  OneListChanged(h, g, a, list, n)
<1> DEFINE s == [h.slab[a] EXCEPT !.free = n]
           t == [s EXCEPT !.avail = list]
<1>1. DOMAIN s = SlabFields /\ s.free = n /\ s.size = h.slab[a].size /\ s.header = h.slab[a].header /\ s.total = h.slab[a].total
  BY DEF SlabFields
<1> HIDE DEF s
<1>2. DOMAIN t = SlabFields /\ t.avail = list /\ t.free = n /\ t.size = s.size /\ t.header = s.header /\ t.total = s.total
  BY <1>1 DEF SlabFields
<1>3. g = [h EXCEPT !.slab = [h.slab EXCEPT ![a] = t]]
  BY DEF s, HeapFields
<1> HIDE DEF t
<1>4. /\ DOMAIN g = HeapFields /\ g.row = h.row /\ g.special = h.special /\ g.mapped = h.mapped
      /\ g.slab = [h.slab EXCEPT ![a] = t]
  BY <1>3 DEF HeapFields
<1>5. DOMAIN g.slab = DOMAIN h.slab /\ g.slab[a] = t /\ \A b \in DOMAIN h.slab : b # a => g.slab[b] = h.slab[b]
  BY <1>4
<1>. QED
  BY <1>1, <1>2, <1>4, <1>5 DEF OneListChanged

(* The list and the count that go with Z in use instead of Y. *)
ListFor(h, Y, Z, a, list, n) ==
  /\ n \in Nat /\ Lists(list, Cells(a, h.slab[a].size) \ (Z \cup Headers(h))) /\ Len(list) = n + 1
  /\ \A x : x \notin Cells(a, h.slab[a].size) => (x \in Z <=> x \in Y)
  /\ \A z \in Z : z \notin Headers(h) /\ \E size \in Sizes : Placed(h, z, size)

(* The heap after one slab's list lost or got an item. *)
LEMMA ListChanged ==
  ASSUME NEW h, NEW Y, NEW R, HeapOK(h, Y, R), NEW a \in DOMAIN h.slab, NEW g, NEW list, NEW n,
         OneListChanged(h, g, a, list, n), NEW Z, ListFor(h, Y, Z, a, list, n)
  PROVE  HeapOK(g, Z, R) /\ Keeps(h, g) /\ Headers(g) = Headers(h) /\ DOMAIN g.slab = DOMAIN h.slab
<1> /\ n \in Nat /\ Lists(list, Cells(a, h.slab[a].size) \ (Z \cup Headers(h))) /\ Len(list) = n + 1
    /\ \A x : x \notin Cells(a, h.slab[a].size) => (x \in Z <=> x \in Y)
    /\ \A z \in Z : z \notin Headers(h) /\ \E size \in Sizes : Placed(h, z, size)
  BY DEF ListFor
<1>1. DOMAIN g.slab = DOMAIN h.slab /\ \A b \in DOMAIN h.slab : g.slab[b].size = h.slab[b].size /\ g.slab[b].header = h.slab[b].header
  BY DEF OneListChanged
<1>2. Keeps(h, g) /\ Headers(g) = Headers(h) /\ PagesOfSlabs(g) = PagesOfSlabs(h) /\ \A s : InRow(g, s) = InRow(h, s)
  BY <1>1 DEF OneListChanged, Keeps, Headers, PagesOfSlabs, InRow
<1>3. ASSUME NEW b \in DOMAIN h.slab PROVE SlabOK(g.slab[b], b, Z \cup Headers(g))
  <2>1. SlabOK(h.slab[b], b, Y \cup Headers(h))
    BY DEF HeapOK, ListsOK
  <2>2. CASE b = a
    BY <1>2, <2>1, <2>2 DEF OneListChanged, SlabOK
  <2>3. CASE b # a
    <3>1. \A x \in Cells(b, h.slab[b].size) : x \in Z <=> x \in Y
      BY <2>3, OtherCells
    <3>2. Cells(b, h.slab[b].size) \ (Z \cup Headers(g)) = Cells(b, h.slab[b].size) \ (Y \cup Headers(h))
      BY <1>2, <3>1
    <3>3. g.slab[b] = h.slab[b]
      BY <2>3 DEF OneListChanged
    <3>. QED
      BY <2>1, <3>2, <3>3 DEF SlabOK
  <2>. QED
    BY <2>2, <2>3
<1>4. \A x, s : Placed(h, x, s) => Placed(g, x, s)
  BY <1>2, KeepsPlaced
<1>5. ShapeOK(g) /\ RowsOK(g) /\ PagesOK(g, R)
  BY <1>1, <1>2 DEF HeapOK, ShapeOK, RowsOK, PagesOK, OneListChanged
<1>6. HeadersOK(g)
  BY <1>1, <1>4 DEF HeapOK, HeadersOK
<1>7. ItemsOK(g, Z)
  BY <1>2, <1>4 DEF ItemsOK
<1>8. ListsOK(g, Z)
  BY <1>1, <1>3 DEF ListsOK
<1>. QED
  BY <1>1, <1>2, <1>5, <1>6, <1>7, <1>8 DEF HeapOK

(* slab_alloc_item hands out an item that was not in use, and no header. *)
LEMMA TakeHeap ==
  ASSUME NEW h, NEW Y, NEW R, HeapOK(h, Y, R), NEW a \in DOMAIN h.slab, h.slab[a].free # 0
  PROVE  LET o == slab_alloc_item(h, a)
         IN /\ HeapOK(o.heap, Y \cup {o.item}, R) /\ Keeps(h, o.heap) /\ Headers(o.heap) = Headers(h)
            /\ o.item \in Cells(a, h.slab[a].size) /\ o.item \notin Y /\ o.item \notin Headers(h)
<1> DEFINE s == h.slab[a]
           g == [h EXCEPT !.slab[a].free = s.free - 1, !.slab[a].avail = Tail(s.avail)]
           x == Head(s.avail)
           S == Cells(a, s.size) \ (Y \cup Headers(h))
<1>1. DOMAIN h = HeapFields /\ SlabOK(s, a, Y \cup Headers(h))
  BY DEF HeapOK, ShapeOK, ListsOK, HeapFields
<1>2. DOMAIN s = SlabFields /\ s.free \in Nat \ {0} /\ Lists(s.avail, S) /\ Len(s.avail) = s.free + 1 /\ s.size \in Sizes
  BY <1>1 DEF SlabOK, SlabFields
<1>3. slab_alloc_item(h, a) = [heap |-> g, item |-> x]
  BY DEF slab_alloc_item
<1>4. OneListChanged(h, g, a, Tail(s.avail), s.free - 1)
  BY <1>1, <1>2, ListView
<1> HIDE DEF s, g, S
<1>5. s.avail # <<>>
  BY <1>2
<1> DEFINE t == Tail(s.avail)
           n == s.free - 1
<1>6. Lists(t, S \ {x}) /\ x \in S /\ Len(t) = n + 1 /\ n \in Nat
  <2>1. /\ Lists(t, S \ {x}) /\ x \in S
        /\ Len(s.avail) \in Nat /\ Len(t) = Len(s.avail) - 1
    BY <1>2, <1>5, ListTail
  <2> HIDE DEF t, x
  <2>. QED
    BY <1>2, <2>1
<1> HIDE DEF x, t, n
<1>7. x \in Cells(a, h.slab[a].size) /\ x \notin Y /\ x \notin Headers(h)
  BY <1>6 DEF S, s
<1>8. S \ {x} = Cells(a, h.slab[a].size) \ ((Y \cup {x}) \cup Headers(h))
  BY DEF S, s
<1>9. \A z \in Y \cup {x} : z \notin Headers(h) /\ \E size \in Sizes : Placed(h, z, size)
  BY <1>2, <1>7 DEF HeapOK, ItemsOK, Placed, s
<1> DEFINE Z == Y \cup {x}
<1>10. /\ \A z : z \notin Cells(a, h.slab[a].size) => (z \in Z <=> z \in Y)
       /\ Lists(t, Cells(a, h.slab[a].size) \ (Z \cup Headers(h)))
  BY <1>6, <1>7, <1>8
<1>11. OneListChanged(h, g, a, t, n)
  BY <1>4 DEF t, n
<1>12. ListFor(h, Y, Z, a, t, n)
  BY <1>6, <1>9, <1>10 DEF ListFor
<1> HIDE DEF Z
<1>13. HeapOK(g, Z, R) /\ Keeps(h, g) /\ Headers(g) = Headers(h)
  BY <1>11, <1>12, ListChanged
<1>. QED
  BY <1>3, <1>7, <1>13 DEF Z

(* slab_free_item puts an item that was in use back on its slab's list. *)
LEMMA GiveHeap ==
  ASSUME NEW h, NEW Y, NEW R, HeapOK(h, Y, R), NEW a \in DOMAIN h.slab, NEW x \in Y, x \in Cells(a, h.slab[a].size)
  PROVE  LET g == slab_free_item(h, a, x)
         IN HeapOK(g, Y \ {x}, R) /\ Keeps(h, g) /\ Headers(g) = Headers(h) /\ DOMAIN g.slab = DOMAIN h.slab
<1> DEFINE s == h.slab[a]
           g == slab_free_item(h, a, x)
           S == Cells(a, s.size) \ (Y \cup Headers(h))
<1>1. DOMAIN h = HeapFields /\ SlabOK(s, a, Y \cup Headers(h))
  BY DEF HeapOK, ShapeOK, ListsOK, HeapFields
<1>2. DOMAIN s = SlabFields /\ s.free \in Nat /\ Lists(s.avail, S) /\ Len(s.avail) = s.free + 1
  BY <1>1 DEF SlabOK, SlabFields
<1>3. g = [h EXCEPT !.slab[a].free = s.free + 1, !.slab[a].avail = <<x>> \o s.avail]
  BY DEF slab_free_item
<1> HIDE DEF g, s
<1>4. OneListChanged(h, g, a, <<x>> \o s.avail, s.free + 1)
  BY <1>1, <1>2, <1>3, ListView DEF s
<1>5. x \notin S /\ x \notin Headers(h)
  BY DEF S, HeapOK, ItemsOK
<1>6. Lists(<<x>> \o s.avail, S \cup {x}) /\ Len(<<x>> \o s.avail) = (s.free + 1) + 1 /\ s.free + 1 \in Nat
  <2> HIDE DEF S
  <2>. QED
    BY <1>2, <1>5, ListPush
<1>7. S \cup {x} = Cells(a, h.slab[a].size) \ ((Y \ {x}) \cup Headers(h))
  BY <1>5 DEF S, s
<1>8. \A z \in Y \ {x} : z \notin Headers(h) /\ \E size \in Sizes : Placed(h, z, size)
  BY DEF HeapOK, ItemsOK
<1> DEFINE Z == Y \ {x}
           t == <<x>> \o s.avail
           n == s.free + 1
<1>9. ListFor(h, Y, Z, a, t, n) /\ OneListChanged(h, g, a, t, n)
  BY <1>4, <1>6, <1>7, <1>8 DEF ListFor
<1> HIDE DEF Z, t, n
<1>10. HeapOK(g, Z, R) /\ Keeps(h, g) /\ Headers(g) = Headers(h) /\ DOMAIN g.slab = DOMAIN h.slab
  BY <1>9, ListChanged
<1>. QED
  BY <1>10 DEF g, Z
-----------------------------------------------------------------------------
(* Mapping pages for a slab or a block, or unmapping a block's. *)
LEMMA OtherPages ==
  ASSUME NEW h, NEW Y, NEW R, HeapOK(h, Y, R), NEW g, DOMAIN g = HeapFields, g.slab = h.slab, g.row = h.row,
         NEW S, g.mapped = S \cup PagesOfSlabs(h), S \cap PagesOfSlabs(h) = {}, S \subseteq 0 .. HeapPages - 1
  PROVE  HeapOK(g, Y, S) /\ Headers(g) = Headers(h) /\ \A x, s : Placed(g, x, s) <=> Placed(h, x, s)
<1>1. /\ Headers(g) = Headers(h) /\ PagesOfSlabs(g) = PagesOfSlabs(h)
      /\ \A s : InRow(g, s) = InRow(h, s)
      /\ \A x, s : Placed(g, x, s) <=> Placed(h, x, s)
  BY DEF Headers, PagesOfSlabs, InRow, Placed
<1>2. ShapeOK(g) /\ RowsOK(g)
  BY <1>1 DEF HeapOK, ShapeOK, RowsOK, HeapFields
<1>3. PagesOfSlabs(h) \subseteq 0 .. HeapPages - 1
  BY DEF HeapOK, PagesOK
<1>4. PagesOK(g, S)
  <2>1. g.mapped \subseteq 0 .. HeapPages - 1
    BY <1>3
  <2>. QED
    BY <1>1, <2>1 DEF HeapOK, PagesOK
<1>5. HeadersOK(g) /\ ItemsOK(g, Y)
  BY <1>1 DEF HeapOK, HeadersOK, ItemsOK
<1>6. ListsOK(g, Y)
  BY <1>1 DEF HeapOK, ListsOK
<1>. QED
  BY <1>1, <1>2, <1>4, <1>5, <1>6 DEF HeapOK

(* slab_create finds pages that are not mapped. *)
LEMMA PlacesAre ==
  ASSUME NEW h, NEW n \in Nat \ {0}, NEW at \in Places(h, n)
  PROVE  /\ at \in {p * PageBytes : p \in 0 .. HeapPages - 1} /\ (n = SlabPages => at \in SlabPlaces)
         /\ PagesOf(at, n) \cap h.mapped = {} /\ PagesOf(at, n) \subseteq 0 .. HeapPages - 1
<1>1. PICK p \in 0 .. HeapPages - n : at = p * PageBytes /\ p .. p + n - 1 \cap h.mapped = {}
  BY DEF Places
<1>2. HeapPages \in Nat \ {0} /\ p \in Nat /\ p \in 0 .. HeapPages - 1
  BY <1>1, SlabSize
<1>3. PagesOf(at, n) = p .. p + n - 1
  BY <1>1, <1>2, PagesAre
<1>4. p .. p + n - 1 \subseteq 0 .. HeapPages - 1
  BY <1>1, <1>2
<1>. QED
  BY <1>1, <1>2, <1>3, <1>4 DEF SlabPlaces

(* slab_create maps pages that no slab has. *)
LEMMA CreateHeap ==
  ASSUME NEW h, NEW Y, NEW R, HeapOK(h, Y, R), NEW n, NEW at, PagesOf(at, n) \cap h.mapped = {},
         PagesOf(at, n) \subseteq 0 .. HeapPages - 1
  PROVE  LET g == slab_create(h, at, n)
         IN /\ HeapOK(g, Y, R \cup PagesOf(at, n)) /\ Headers(g) = Headers(h) /\ Keeps(h, g)
            /\ DOMAIN g = HeapFields /\ g.slab = h.slab /\ g.row = h.row /\ g.special = h.special
<1> DEFINE g == slab_create(h, at, n)
           P == PagesOf(at, n)
           S == R \cup P
<1>1. DOMAIN h = HeapFields /\ h.mapped = R \cup PagesOfSlabs(h) /\ R \cap PagesOfSlabs(h) = {} /\ h.mapped \subseteq 0 .. HeapPages - 1
  BY DEF HeapOK, ShapeOK, PagesOK, HeapFields
<1>2. DOMAIN g = HeapFields /\ g.slab = h.slab /\ g.row = h.row /\ g.special = h.special /\ g.mapped = h.mapped \cup P
  BY <1>1 DEF slab_create, HeapFields
<1> HIDE DEF g, P
<1>3. g.mapped = S \cup PagesOfSlabs(h) /\ S \cap PagesOfSlabs(h) = {} /\ S \subseteq 0 .. HeapPages - 1
  BY <1>1, <1>2 DEF P
<1> HIDE DEF S
<1>4. HeapOK(g, Y, S) /\ Headers(g) = Headers(h)
  BY <1>2, <1>3, OtherPages
<1>5. Keeps(h, g)
  BY <1>2 DEF Keeps
<1>. QED
  BY <1>2, <1>4, <1>5 DEF g, S, P

(* A place outside the slabs: none of its cells is in a slab. *)
LEMMA Elsewhere ==
  ASSUME NEW h, NEW Y, NEW R, HeapOK(h, Y, R), NEW at \in SlabPlaces, PagesOf(at, SlabPages) \subseteq R
  PROVE  /\ at \notin DOMAIN h.slab
         /\ \A s \in Sizes : \A t, x : x \in Cells(at, s) => ~Placed(h, x, t)
         /\ \A s \in Sizes : \A x : x \in Cells(at, s) => x \notin Y \cup Headers(h)
         /\ \A b \in DOMAIN h.slab : PagesOf(at, SlabPages) \cap PagesOf(b, SlabPages) = {}
<1>1. \A b \in DOMAIN h.slab : PagesOf(at, SlabPages) \cap PagesOf(b, SlabPages) = {}
  BY DEF HeapOK, PagesOK, PagesOfSlabs
<1>2. at \in Nat /\ at \div PageBytes \in PagesOf(at, SlabPages)
  BY SlabPlace, SlabSize
<1>3. at \notin DOMAIN h.slab
  BY <1>1, <1>2
<1>4. ASSUME NEW s \in Sizes, NEW x \in Cells(at, s), NEW t, Placed(h, x, t) PROVE FALSE
  <2>1. PICK b \in DOMAIN h.slab : h.slab[b].size = t /\ x \in Cells(b, t)
    BY <1>4 DEF Placed
  <2>2. b \in SlabPlaces /\ x \in Nat /\ b <= x /\ x < b + SlabBytes
    BY <2>1, SlabIs
  <2>3. x \div PageBytes \in PagesOf(b, SlabPages)
    BY <2>2, SlabPlace
  <2>4. at <= x /\ x + s <= at + SlabBytes
    BY <1>2, CellInside
  <2>5. x < at + SlabBytes
    BY <1>2, <2>2, <2>4, SizeIs, SlabSize
  <2>6. x \div PageBytes \in PagesOf(at, SlabPages)
    BY <2>2, <2>4, <2>5, SlabPlace
  <2>. QED
    BY <1>1, <2>3, <2>6
<1>5. \A y \in Y \cup Headers(h) : \E t : Placed(h, y, t)
  BY DEF HeapOK, ItemsOK, HeadersOK, Headers
<1>. QED
  BY <1>1, <1>3, <1>4, <1>5
-----------------------------------------------------------------------------
(* A slab made: what changes, and that the heap stays in order.  Its       *)
(* header hd is its own first item, or an item taken from a header slab.   *)
SlabAdded(h, g, size, at, hd, av, n) ==
  /\ DOMAIN g = HeapFields /\ g.special = h.special /\ g.mapped = h.mapped
  /\ DOMAIN g.slab = DOMAIN h.slab \cup {at} /\ \A b \in DOMAIN h.slab : b # at => g.slab[b] = h.slab[b]
  /\ DOMAIN g.slab[at] = SlabFields /\ g.slab[at].size = size /\ g.slab[at].header = hd /\ g.slab[at].avail = av
  /\ g.slab[at].total = Count(size) - 1 /\ g.slab[at].free = n
  /\ DOMAIN g.row = Sizes /\ g.row[size] = <<at>> \o h.row[size]
  /\ \A t \in Sizes : t # size => g.row[t] = h.row[t]

(* What kmalloc_slab_new and the link to its row change. *)
LEMMA SlabAddedView ==
  ASSUME NEW h, DOMAIN h = HeapFields, DOMAIN h.row = Sizes, NEW size \in Sizes, NEW at, NEW hd, NEW av, NEW used
  PROVE  SlabAdded(h, Linked(WithSlab(h, size, at, hd, av, used), size, at), size, at, hd, av, Count(size) - 1 - used)
<1> DEFINE s == [size |-> size, header |-> hd, avail |-> av, total |-> slab_make_linked_list(size),
                 free |-> slab_make_linked_list(size) - used]
           slabs == [a \in DOMAIN h.slab \cup {at} |-> IF a = at THEN s ELSE h.slab[a]]
           f == WithSlab(h, size, at, hd, av, used)
           g == Linked(f, size, at)
           rows == [h.row EXCEPT ![size] = <<at>> \o h.row[size]]
<1>1. /\ DOMAIN s = SlabFields /\ s.size = size /\ s.header = hd /\ s.avail = av
      /\ s.total = Count(size) - 1 /\ s.free = Count(size) - 1 - used
  BY DEF SlabFields, Count, slab_make_linked_list
<1>2. f = [h EXCEPT !.slab = slabs]
  BY DEF WithSlab
<1> HIDE DEF s
<1>3. /\ DOMAIN slabs = DOMAIN h.slab \cup {at} /\ slabs[at] = s
      /\ \A b \in DOMAIN h.slab : b # at => slabs[b] = h.slab[b]
  OBVIOUS
<1> HIDE DEF slabs, f
<1>4. DOMAIN f = HeapFields /\ f.slab = slabs /\ f.row = h.row /\ f.special = h.special /\ f.mapped = h.mapped
  BY <1>2 DEF HeapFields
<1>5. g = [f EXCEPT !.row = rows]
  BY <1>4 DEF Linked, HeapFields
<1>6. DOMAIN rows = Sizes /\ rows[size] = <<at>> \o h.row[size] /\ \A t \in Sizes : t # size => rows[t] = h.row[t]
  OBVIOUS
<1> HIDE DEF rows, g
<1>7. DOMAIN g = HeapFields /\ g.slab = slabs /\ g.row = rows /\ g.special = h.special /\ g.mapped = h.mapped
  BY <1>4, <1>5 DEF HeapFields
<1>8. SlabAdded(h, g, size, at, hd, av, Count(size) - 1 - used)
  BY <1>1, <1>3, <1>6, <1>7 DEF SlabAdded
<1>. QED
  BY <1>8 DEF g, f

(* A new slab, whose header is its own first item or an item taken from another slab. *)
LEMMA AddSlab ==
  ASSUME NEW h, NEW Y, NEW R, HeapOK(h, Y, R), NEW size \in Sizes,
         NEW at \in SlabPlaces, PagesOf(at, SlabPages) \subseteq R, NEW hd, NEW av, NEW n \in Nat,
         Lists(av, Cells(at, size) \ {hd}), Len(av) = n + 1,
         \/ hd = at /\ size = HeaderSize
         \/ hd \in Y /\ Placed(h, hd, HeaderSize) /\ size # HeaderSize,
         NEW g, SlabAdded(h, g, size, at, hd, av, n)
  PROVE  HeapOK(g, Y \ {hd}, R \ PagesOf(at, SlabPages)) /\ Keeps(h, g)
<1> DEFINE D == DOMAIN h.slab
           P == PagesOf(at, SlabPages)
           Z == Y \ {hd}
<1>1. /\ at \notin D
      /\ \A s \in Sizes : \A t, x : x \in Cells(at, s) => ~Placed(h, x, t)
      /\ \A s \in Sizes : \A x : x \in Cells(at, s) => x \notin Y \cup Headers(h)
      /\ \A b \in D : P \cap PagesOf(b, SlabPages) = {}
  BY Elsewhere
<1>2. at \in Nat /\ at \in Cells(at, size)
  <2>1. 0 \in 0 .. Count(size) - 1 /\ size \in Nat /\ at \in Nat
    BY SizeIs, SlabPlace
  <2>2. at + 0 * size = at
    BY <2>1
  <2>. QED
    BY <2>1, <2>2 DEF Cells
<1>3. /\ DOMAIN g.slab = D \cup {at} /\ \A b \in D : g.slab[b] = h.slab[b] /\ b # at
      /\ g.slab[at].size = size /\ g.slab[at].header = hd
  BY <1>1 DEF SlabAdded
<1>4. Keeps(h, g)
  BY <1>3 DEF Keeps, SlabAdded
<1>5. hd \notin Headers(h) /\ Placed(g, hd, HeaderSize) /\ (size = HeaderSize => hd = at)
  <2>1. CASE hd = at /\ size = HeaderSize
    BY <1>1, <1>2, <1>3, <2>1 DEF Placed
  <2>2. CASE hd \in Y /\ Placed(h, hd, HeaderSize) /\ size # HeaderSize
    BY <1>4, <2>2, KeepsPlaced DEF HeapOK, ItemsOK
  <2>. QED
    BY <2>1, <2>2
<1>6. Headers(g) = Headers(h) \cup {hd}
  BY <1>3 DEF Headers
<1>7. PagesOfSlabs(g) = PagesOfSlabs(h) \cup P
  BY <1>3 DEF PagesOfSlabs
<1>8. InRow(g, size) = InRow(h, size) \cup {at} /\ \A t : t # size => InRow(g, t) = InRow(h, t)
  BY <1>3 DEF InRow
<1>9. ShapeOK(g)
  BY <1>3 DEF HeapOK, ShapeOK, SlabAdded, HeapFields
<1>10. RowsOK(g)
  <2>1. DOMAIN g.row = Sizes
    BY DEF SlabAdded
  <2>2. at \notin InRow(h, size)
    BY <1>1 DEF InRow
  <2>3. Lists(h.row[size], InRow(h, size))
    BY DEF HeapOK, RowsOK
  <2>4. Lists(<<at>> \o h.row[size], InRow(h, size) \cup {at})
    BY <2>2, <2>3, ListPush
  <2>5. ASSUME NEW t \in Sizes PROVE Lists(g.row[t], InRow(g, t))
    <3>1. CASE t = size
      BY <1>8, <2>4, <3>1 DEF SlabAdded
    <3>2. CASE t # size
      BY <1>8, <3>2 DEF SlabAdded, HeapOK, RowsOK
    <3>. QED
      BY <3>1, <3>2
  <2>. QED
    BY <2>1, <2>5 DEF RowsOK
<1>11. PagesOK(g, R \ P)
  <2>1. \A a, b \in DOMAIN g.slab : a # b => PagesOf(a, SlabPages) \cap PagesOf(b, SlabPages) = {}
    BY <1>1, <1>3 DEF HeapOK, PagesOK
  <2>2. g.mapped = h.mapped /\ h.mapped = R \cup PagesOfSlabs(h) /\ R \cap PagesOfSlabs(h) = {} /\ h.mapped \subseteq 0 .. HeapPages - 1
    BY DEF SlabAdded, HeapOK, PagesOK
  <2> HIDE DEF P
  <2>3. P \subseteq R
    BY DEF P
  <2>4. g.mapped = (R \ P) \cup PagesOfSlabs(g) /\ (R \ P) \cap PagesOfSlabs(g) = {}
    BY <1>7, <2>2, <2>3
  <2>. QED
    BY <2>1, <2>2, <2>4 DEF PagesOK
<1>12. HeadersOK(g)
  <2>1. ASSUME NEW b \in D PROVE Placed(g, g.slab[b].header, HeaderSize) /\ (g.slab[b].size = HeaderSize => g.slab[b].header = b)
    BY <1>3, <1>4, KeepsPlaced DEF HeapOK, HeadersOK
  <2>2. \A b \in D : g.slab[b].header # hd
    BY <1>3, <1>5 DEF Headers
  <2>3. \A a, b \in DOMAIN g.slab : g.slab[a].header = g.slab[b].header => a = b
    BY <1>3, <2>2 DEF HeapOK, HeadersOK
  <2>. QED
    BY <1>3, <1>5, <2>1, <2>3 DEF HeadersOK
<1>13. ItemsOK(g, Z)
  <2>1. \A y \in Z : y \notin Headers(g)
    BY <1>6 DEF HeapOK, ItemsOK
  <2>2. \A y \in Z : \E s \in Sizes : Placed(g, y, s)
    BY <1>4, KeepsPlaced DEF HeapOK, ItemsOK
  <2>. QED
    BY <2>1, <2>2 DEF ItemsOK
<1>14. ListsOK(g, Z)
  <2> HIDE DEF Z
  <2>1. Z \cup Headers(g) = Y \cup Headers(h) \cup {hd}
    BY <1>6 DEF Z
  <2>2. ASSUME NEW b \in D PROVE SlabOK(g.slab[b], b, Z \cup Headers(g))
    <3>1. SlabOK(h.slab[b], b, Y \cup Headers(h))
      BY DEF HeapOK, ListsOK
    <3>2. hd \in Y \cup Headers(h) \/ hd \notin Cells(b, h.slab[b].size)
      BY <1>1, <1>2 DEF Placed
    <3>3. Cells(b, h.slab[b].size) \ (Z \cup Headers(g)) = Cells(b, h.slab[b].size) \ (Y \cup Headers(h))
      BY <2>1, <3>2
    <3>. QED
      BY <1>3, <3>1, <3>3 DEF SlabOK
  <2>3. Cells(at, size) \ (Z \cup Headers(g)) = Cells(at, size) \ {hd}
    BY <1>1, <2>1
  <2>4. SlabOK(g.slab[at], at, Z \cup Headers(g))
    BY <2>3 DEF SlabOK, SlabAdded, SlabFields
  <2>. QED
    BY <1>3, <2>2, <2>4 DEF ListsOK
<1>. QED
  BY <1>4, <1>9, <1>10, <1>11, <1>12, <1>13, <1>14 DEF HeapOK
-----------------------------------------------------------------------------
(* Allocating an item: it was not in use, and everything that was in its   *)
(* place still is.                                                         *)
LEMMA LeastIs ==
  ASSUME NEW S \in SUBSET Nat, S # {}
  PROVE  Min(S) \in S /\ \A e \in S : Min(S) <= e
<1>1. PICK d \in S : \A e \in S : ~(<<e, d>> \in OpToRel(<, Nat))
  BY NatLessThanWellFounded, WFMin, Zenon
<1>2. \A e \in S : ~(e < d)
  <2>1. SUFFICES ASSUME NEW e \in S, e < d PROVE <<e, d>> \in OpToRel(<, Nat)
    BY <1>1, Zenon
  <2>2. <<e, d>> \in Nat \X Nat /\ <<e, d>>[1] < <<e, d>>[2]
    BY <2>1
  <2>. QED
    BY <2>2, Zenon DEF OpToRel
<1>3. \A e \in S : d <= e
  BY <1>2
<1>. QED
  BY <1>3 DEF Min

ItemTaken(h, o, Y, R, size) ==
  /\ HeapOK(o.heap, Y \cup {o.item}, R) /\ Keeps(h, o.heap)
  /\ o.item \notin Y /\ Placed(o.heap, o.item, size)

(* The slabs of a row have its size. *)
LEMMA RowSlab ==
  ASSUME NEW h, NEW Y, NEW R, HeapOK(h, Y, R), NEW size \in Sizes, NEW i \in DOMAIN h.row[size]
  PROVE  i \in Nat /\ h.row[size][i] \in DOMAIN h.slab /\ h.slab[h.row[size][i]].size = size
<1> DEFINE s == h.row[size]
<1>1. s \in Seq(InRow(h, size))
  BY DEF HeapOK, RowsOK, Lists
<1> HIDE DEF s
<1>2. i \in Nat /\ s[i] \in InRow(h, size)
  BY <1>1 DEF s
<1>. QED
  BY <1>2 DEF s, InRow

(* kmalloc's walk of a row stops at a slab with an item. *)
LEMMA FirstIs ==
  ASSUME NEW h, NEW Y, NEW R, HeapOK(h, Y, R), NEW size \in Sizes, WithItems(h, size) # {}
  PROVE  LET a == FirstWithItems(h, size) IN a \in DOMAIN h.slab /\ h.slab[a].size = size /\ h.slab[a].free # 0
<1>1. WithItems(h, size) \in SUBSET Nat
  BY RowSlab DEF WithItems
<1>2. Min(WithItems(h, size)) \in WithItems(h, size)
  BY <1>1, LeastIs
<1>. QED
  BY <1>2, RowSlab DEF FirstWithItems, WithItems

(* kmalloc from a slab of the row. *)
LEMMA TakeFirst ==
  ASSUME NEW h, NEW Y, NEW R, HeapOK(h, Y, R), NEW size \in Sizes, WithItems(h, size) # {}
  PROVE  ItemTaken(h, slab_alloc_item(h, FirstWithItems(h, size)), Y, R, size)
<1> DEFINE a == FirstWithItems(h, size)
           o == slab_alloc_item(h, a)
<1>1. a \in DOMAIN h.slab /\ h.slab[a].size = size /\ h.slab[a].free # 0
  BY FirstIs
<1> HIDE DEF a
<1>2. /\ HeapOK(o.heap, Y \cup {o.item}, R) /\ Keeps(h, o.heap) /\ o.item \notin Y
      /\ o.item \in Cells(a, h.slab[a].size)
  BY <1>1, TakeHeap
<1> HIDE DEF o
<1>3. Placed(o.heap, o.item, size)
  BY <1>1, <1>2 DEF Placed, Keeps
<1>. QED
  BY <1>2, <1>3 DEF ItemTaken, o, a

(* kmalloc from the slab it just made. *)
LEMMA TakeNew ==
  ASSUME NEW f, NEW h, NEW Y, NEW R, Keeps(f, h), HeapOK(h, Y, R), NEW size, NEW a \in DOMAIN h.slab,
         h.slab[a].size = size, h.slab[a].free # 0
  PROVE  ItemTaken(f, slab_alloc_item(h, a), Y, R, size)
<1> DEFINE o == slab_alloc_item(h, a)
<1>1. /\ HeapOK(o.heap, Y \cup {o.item}, R) /\ Keeps(h, o.heap) /\ o.item \notin Y
      /\ o.item \in Cells(a, h.slab[a].size)
  BY TakeHeap
<1> HIDE DEF o
<1>2. Placed(o.heap, o.item, size)
  BY <1>1 DEF Placed, Keeps
<1>3. Keeps(f, o.heap)
  BY <1>1, KeepsThen
<1>. QED
  BY <1>1, <1>2, <1>3 DEF ItemTaken, o

(* A new slab of headers holds its own. *)
LEMMA HeaderSlabIs ==
  ASSUME NEW h, NEW Y, NEW R, HeapOK(h, Y, R), NEW at \in SlabPlaces,
         PagesOf(at, SlabPages) \cap h.mapped = {}
  PROVE  LET g == Linked(NewHeaderSlab(h, at), HeaderSize, at)
         IN /\ HeapOK(g, Y, R) /\ Keeps(h, g)
            /\ SlabAdded(slab_create(h, at, SlabPages), g, HeaderSize, at, at, Tail(Items(at, HeaderSize)), Count(HeaderSize) - 2)
<1> DEFINE f == slab_create(h, at, SlabPages)
           P == PagesOf(at, SlabPages)
           list == Items(at, HeaderSize)
           av == Tail(list)
           n == Count(HeaderSize) - 2
           g == Linked(NewHeaderSlab(h, at), HeaderSize, at)
<1>1. at \in Nat /\ P \subseteq 0 .. HeapPages - 1
  BY SlabPlace
<1>2. HeapOK(f, Y, R \cup P) /\ Keeps(h, f)
  BY <1>1, CreateHeap
<1>3. DOMAIN f = HeapFields /\ DOMAIN f.row = Sizes
  BY <1>2 DEF HeapOK, ShapeOK, RowsOK, HeapFields
<1>4. Lists(list, Cells(at, HeaderSize)) /\ Head(list) = at /\ list # <<>> /\ Len(list) = Count(HeaderSize)
  BY <1>1, NamedSizes, ItemsList
<1>5. g = Linked(WithSlab(f, HeaderSize, at, at, av, 1), HeaderSize, at)
  BY <1>4 DEF NewHeaderSlab
<1> HIDE DEF f, list
<1>6. n \in Nat /\ Count(HeaderSize) - 1 - 1 = n
  BY NamedSizes, SizeIs
<1>7. SlabAdded(f, g, HeaderSize, at, at, av, n)
  <2>1. SlabAdded(f, g, HeaderSize, at, at, av, Count(HeaderSize) - 1 - 1)
    BY <1>3, <1>5, NamedSizes, SlabAddedView
  <2>. QED
    BY <1>6, <2>1
<1> HIDE DEF g, av, n
<1>8. Lists(av, Cells(at, HeaderSize) \ {at}) /\ Len(av) = n + 1
  <2>1. Lists(Tail(list), Cells(at, HeaderSize) \ {Head(list)}) /\ Len(Tail(list)) = Len(list) - 1
    BY <1>4, ListTail
  <2>2. Count(HeaderSize) \in Nat
    BY NamedSizes, SizeIs
  <2>3. Len(av) = Count(HeaderSize) - 1
    BY <1>4, <2>1 DEF av
  <2>4. Len(av) = n + 1
    BY <2>2, <2>3 DEF n
  <2>. QED
    BY <1>4, <2>1, <2>4 DEF av
<1>9. HeapOK(g, Y \ {at}, (R \cup P) \ P) /\ Keeps(f, g)
  BY <1>2, <1>6, <1>7, <1>8, NamedSizes, AddSlab
<1>10. at \notin Y
  <2>1. at \in Cells(at, HeaderSize)
    BY <1>4, ListTail
  <2>. QED
    BY <1>2, <2>1, NamedSizes, Elsewhere
<1>11. Y \ {at} = Y /\ (R \cup P) \ P = R
  <2>1. R \subseteq h.mapped
    BY DEF HeapOK, PagesOK
  <2>. QED
    BY <1>10, <2>1
<1>12. HeapOK(g, Y, R) /\ Keeps(h, g)
  BY <1>2, <1>9, <1>11, KeepsThen
<1>. QED
  BY <1>7, <1>12 DEF g, f, av, list, n

(* The nested kmalloc of a slab header, with or without a new header slab. *)
LEMMA AllocHeaderIs ==
  ASSUME NEW h, NEW Y, NEW R, HeapOK(h, Y, R), NEW o \in AllocHeader(h)
  PROVE  ItemTaken(h, o, Y, R, HeaderSize)
<1>1. CASE WithItems(h, HeaderSize) # {}
  BY <1>1, NamedSizes, TakeFirst DEF AllocHeader
<1>2. CASE WithItems(h, HeaderSize) = {}
  <2>1. PICK at \in Places(h, SlabPages) : o = slab_alloc_item(Linked(NewHeaderSlab(h, at), HeaderSize, at), at)
    BY <1>2 DEF AllocHeader
  <2> DEFINE g == Linked(NewHeaderSlab(h, at), HeaderSize, at)
  <2>2. at \in SlabPlaces /\ PagesOf(at, SlabPages) \cap h.mapped = {}
    BY SlabSize, PlacesAre
  <2>3. /\ HeapOK(g, Y, R) /\ Keeps(h, g)
        /\ SlabAdded(slab_create(h, at, SlabPages), g, HeaderSize, at, at, Tail(Items(at, HeaderSize)), Count(HeaderSize) - 2)
    BY <2>2, HeaderSlabIs
  <2> HIDE DEF g
  <2>4. at \in DOMAIN g.slab /\ g.slab[at].size = HeaderSize /\ g.slab[at].free # 0
    <3>1. g.slab[at].free = Count(HeaderSize) - 2 /\ at \in DOMAIN g.slab /\ g.slab[at].size = HeaderSize
      BY <2>3 DEF SlabAdded
    <3>. QED
      BY <3>1, NamedSizes, SizeIs
  <2>5. ItemTaken(h, slab_alloc_item(g, at), Y, R, HeaderSize)
    BY <2>3, <2>4, TakeNew
  <2>. QED
    BY <2>1, <2>5 DEF g
<1>. QED
  BY <1>1, <1>2

(* A new slab of another row: first the slab, then its header. *)
LEMMA NewSlabIs ==
  ASSUME NEW h, NEW Y, NEW R, HeapOK(h, Y, R), NEW size \in Sizes, size # HeaderSize, NEW k \in NewSlabs(h, size)
  PROVE  LET g == Linked(k.heap, size, k.at)
         IN /\ HeapOK(g, Y, R) /\ Keeps(h, g) /\ k.at \in DOMAIN g.slab /\ g.slab[k.at].size = size
            /\ g.slab[k.at].free = Count(size) - 1
<1>0. PICK at \in Places(h, SlabPages) :
        \E o \in AllocHeader(slab_create(h, at, SlabPages)) :
          k = [heap |-> WithSlab(o.heap, size, at, o.item, Items(at, size), 0), at |-> at]
  BY DEF NewSlabs
<1>1. PICK o \in AllocHeader(slab_create(h, at, SlabPages)) :
        k = [heap |-> WithSlab(o.heap, size, at, o.item, Items(at, size), 0), at |-> at]
  BY <1>0
<1> DEFINE f == slab_create(h, at, SlabPages)
           P == PagesOf(at, SlabPages)
           hd == o.item
           list == Items(at, size)
           n == Count(size) - 1
           g == Linked(WithSlab(o.heap, size, at, hd, list, 0), size, at)
<1>2. at \in SlabPlaces /\ at \in Nat /\ P \cap h.mapped = {} /\ P \subseteq 0 .. HeapPages - 1
  BY SlabSize, PlacesAre, SlabPlace
<1>3. HeapOK(f, Y, R \cup P) /\ Keeps(h, f)
  BY <1>2, CreateHeap
<1>4. ItemTaken(f, o, Y, R \cup P, HeaderSize)
  BY <1>3, AllocHeaderIs
<1> DEFINE e == o.heap
<1>5. HeapOK(e, Y \cup {hd}, R \cup P) /\ Keeps(f, e) /\ hd \notin Y /\ Placed(e, hd, HeaderSize)
  BY <1>4 DEF ItemTaken
<1>6. Lists(list, Cells(at, size)) /\ Len(list) = Count(size) /\ Count(size) \in Nat \ {0}
  BY <1>2, ItemsList, SizeIs
<1> HIDE DEF e, f, list, P, hd
<1>7. SlabAdded(e, g, size, at, hd, list, n)
  <2>1. DOMAIN e = HeapFields /\ DOMAIN e.row = Sizes
    BY <1>5 DEF HeapOK, ShapeOK, RowsOK, HeapFields
  <2>2. g = Linked(WithSlab(e, size, at, hd, list, 0), size, at) /\ Count(size) - 1 - 0 = n
    BY <1>6 DEF e
  <2> HIDE DEF g, n
  <2>3. SlabAdded(e, g, size, at, hd, list, Count(size) - 1 - 0)
    BY <2>1, <2>2, SlabAddedView
  <2>. QED
    BY <2>2, <2>3
<1>8. n \in Nat /\ Len(list) = n + 1
  BY <1>6
<1> HIDE DEF g, n
<1>9. hd \notin Cells(at, size)
  BY <1>2, <1>5, Elsewhere DEF P
<1>10. Cells(at, size) \ {hd} = Cells(at, size) /\ Lists(list, Cells(at, size) \ {hd})
  BY <1>6, <1>9
<1>11. HeapOK(g, (Y \cup {hd}) \ {hd}, (R \cup P) \ P) /\ Keeps(e, g)
  <2> DEFINE Y2 == Y \cup {hd}
             R2 == R \cup P
  <2>1. HeapOK(e, Y2, R2) /\ P \subseteq R2 /\ hd \in Y2 /\ Placed(e, hd, HeaderSize)
    BY <1>5
  <2> HIDE DEF Y2, R2
  <2>2. HeapOK(g, Y2 \ {hd}, R2 \ P) /\ Keeps(e, g)
    BY <1>2, <1>7, <1>8, <1>10, <2>1, AddSlab DEF P
  <2>. QED
    BY <2>2 DEF Y2, R2
<1>12. (Y \cup {hd}) \ {hd} = Y /\ (R \cup P) \ P = R
  <2>1. R \subseteq h.mapped
    BY DEF HeapOK, PagesOK
  <2>. QED
    BY <1>2, <1>5, <2>1
<1>13. HeapOK(g, Y, R) /\ Keeps(h, g)
  BY <1>3, <1>5, <1>11, <1>12, KeepsThen
<1>14. at \in DOMAIN g.slab /\ g.slab[at].size = size /\ g.slab[at].free = Count(size) - 1
  BY <1>7 DEF SlabAdded, n
<1>15. k.at = at /\ Linked(k.heap, size, k.at) = g
  BY <1>1 DEF g, hd, list
<1>. QED
  BY <1>13, <1>14, <1>15

(* kmalloc of an object that has a row fails only where items are slabs. *)
LEMMA AllocItemIs ==
  ASSUME NEW h, NEW Y, NEW R, HeapOK(h, Y, R), NEW size \in Sizes, NEW o \in AllocItem(h, size)
  PROVE  \/ ItemTaken(h, o, Y, R, size)
         \/ size = SlabBytes /\ o.item = Nil /\ HeapOK(o.heap, Y, R) /\ Keeps(h, o.heap)
<1>1. CASE size = HeaderSize
  BY <1>1, AllocHeaderIs DEF AllocItem
<1>2. CASE size # HeaderSize /\ WithItems(h, size) # {}
  <2>1. o = slab_alloc_item(h, FirstWithItems(h, size))
    BY <1>2 DEF AllocItem
  <2>. QED
    BY <1>2, <2>1, TakeFirst
<1>3. CASE size # HeaderSize /\ WithItems(h, size) = {}
  <2>1. PICK k \in NewSlabs(h, size) : o = slab_alloc_item(Linked(k.heap, size, k.at), k.at)
    BY <1>3 DEF AllocItem
  <2> DEFINE g == Linked(k.heap, size, k.at)
             at == k.at
  <2>2. /\ HeapOK(g, Y, R) /\ Keeps(h, g) /\ at \in DOMAIN g.slab /\ g.slab[at].size = size
        /\ g.slab[at].free = Count(size) - 1
    BY <1>3, NewSlabIs
  <2>3. o = slab_alloc_item(g, at)
    BY <2>1
  <2> HIDE DEF g, at
  <2>4. CASE size = SlabBytes
    <3>1. g.slab[at].free = 0
      BY <2>2, <2>4, NamedSizes
    <3>2. o.heap = g /\ o.item = Nil
      BY <2>3, <3>1 DEF slab_alloc_item
    <3>. QED
      BY <2>2, <2>4, <3>2
  <2>5. CASE size # SlabBytes
    <3>1. Count(size) \in Nat /\ Count(size) # 1
      BY <2>5, SizeIs
    <3>2. g.slab[at].free # 0
      BY <2>2, <3>1
    <3>. QED
      BY <2>2, <2>3, <3>2, TakeNew
  <2>. QED
    BY <2>4, <2>5
<1>. QED
  BY <1>1, <1>2, <1>3
-----------------------------------------------------------------------------
(* kmalloc *)
LEMMA RowOfIs ==
  ASSUME NEW size \in Nat, size <= SlabBytes
  PROVE  RowOf(size) \in Sizes /\ size <= RowOf(size)
<1> DEFINE S == {s \in Sizes : s >= size}
<1>1. S \in SUBSET Nat /\ SlabBytes \in S
  BY NamedSizes, SizeIs, SlabSize
<1>2. Min(S) \in S
  BY <1>1, LeastIs
<1>3. RowOf(size) = Min(S)
  BY DEF RowOf
<1> HIDE DEF S
<1>4. RowOf(size) \in S
  BY <1>2, <1>3
<1>. QED
  BY <1>4, SizeIs DEF S

(* A block is large enough for the request. *)
LEMMA PagesNeededIs ==
  ASSUME NEW size \in Nat \ {0}
  PROVE  PagesNeeded(size) \in Nat \ {0} /\ size <= PagesNeeded(size) * PageBytes
<1> DEFINE p == PageBytes
           b == size + p - 1
           q == b \div p
           r == b % p
<1>1. p \in Nat \ {0} /\ b \in Nat /\ b >= p
  BY SlabSize
<1> HIDE DEF b, p
<1>2. q \in Nat /\ r \in 0 .. p - 1 /\ b = q * p + r
  BY <1>1, PageParts
<1>3. PagesNeeded(size) = q
  BY DEF PagesNeeded, b, p
<1> HIDE DEF q, r
<1>4. q # 0
  <2>1. SUFFICES ASSUME q = 0 PROVE FALSE
    OBVIOUS
  <2>2. q * p = 0
    BY <1>1, <2>1
  <2>. QED
    BY <1>1, <1>2, <2>2
<1>5. size <= q * p
  <2> DEFINE m == q * p
  <2>1. m \in Nat /\ b = m + r /\ b = size + p - 1
    BY <1>1, <1>2 DEF b
  <2> HIDE DEF m
  <2>2. size <= m
    BY <1>1, <1>2, <2>1
  <2>. QED
    BY <2>2 DEF m
<1>. QED
  BY <1>2, <1>3, <1>4, <1>5 DEF p

(* A heap that keeps what is in use in its place is sound for the same objects. *)
LEMMA KeptSound ==
  ASSUME NEW h, NEW o, Sound(h, o), NEW g, KeepsUsed(h, g, InUse(h, o)), HeapOK(g, InUse(h, o), PagesOfSpecial(h))
  PROVE  Sound(g, o)
<1>1. g.special = h.special
  BY DEF KeepsUsed
<1>2. Records(g) = Records(h) /\ PagesOfSpecial(g) = PagesOfSpecial(h)
  BY <1>1 DEF Records, PagesOfSpecial
<1>3. InUse(g, o) = InUse(h, o)
  BY <1>2 DEF InUse
<1>4. \A x \in InUse(h, o) : \A s : Placed(h, x, s) => Placed(g, x, s)
  BY DEF KeepsUsed
<1>5. SpecialOK(g)
  BY <1>1, <1>4 DEF Sound, SpecialOK, InUse, Records
<1>6. ObjectsOK(g, o)
  BY <1>1, <1>4 DEF Sound, ObjectsOK, InUse, Small
<1>7. ApartOK(g, o)
  BY <1>2, <1>4 DEF Sound, ApartOK, InUse
<1>. QED
  BY <1>2, <1>3, <1>5, <1>6, <1>7 DEF Sound

(* Where an item of a slab may be. *)
LEMMA PlacedIs ==
  ASSUME NEW h, NEW Y, NEW R, HeapOK(h, Y, R), NEW x, NEW s, Placed(h, x, s)
  PROVE  x \in Nat /\ s \in Sizes /\ x \div PageBytes \in PagesOfSlabs(h)
<1>1. PICK a \in DOMAIN h.slab : h.slab[a].size = s /\ x \in Cells(a, s)
  BY DEF Placed
<1>2. a \in SlabPlaces /\ x \in Nat /\ a <= x /\ x < a + SlabBytes /\ s \in Sizes
  BY <1>1, SlabIs
<1>3. x \div PageBytes \in PagesOf(a, SlabPages)
  BY <1>2, SlabPlace
<1>. QED
  BY <1>2, <1>3 DEF PagesOfSlabs

(* A block is no item of a slab. *)
LEMMA BlockIs ==
  ASSUME NEW h, NEW Y, HeapOK(h, Y, PagesOfSpecial(h)), SpecialOK(h), NEW i \in DOMAIN h.special
  PROVE  LET s == h.special[i]
         IN /\ s.data \in Nat /\ s.pages \in Nat \ {0} /\ s.rec \in Nat
            /\ \E p \in 0 .. HeapPages - 1 : s.data = p * PageBytes
            /\ s.data \div PageBytes \in PagesOf(s.data, s.pages)
            /\ PagesOf(s.data, s.pages) \subseteq PagesOfSpecial(h)
            /\ \A x, t : Placed(h, x, t) => x # s.data
<1> DEFINE s == h.special[i]
<1>1. s \in [data : {p * PageBytes : p \in 0 .. HeapPages - 1}, pages : Nat \ {0}, rec : Nat]
  <2> DEFINE T == [data : {p * PageBytes : p \in 0 .. HeapPages - 1}, pages : Nat \ {0}, rec : Nat]
             q == h.special
  <2>1. q \in Seq(T) /\ i \in DOMAIN q
    BY DEF SpecialOK
  <2> HIDE DEF T, q
  <2>2. q[i] \in T
    BY <2>1
  <2>. QED
    BY <2>2 DEF q, T
<1>2. PICK p \in 0 .. HeapPages - 1 : s.data = p * PageBytes
  BY <1>1
<1>3. s.pages \in Nat \ {0} /\ s.rec \in Nat
  BY <1>1
<1> HIDE DEF s
<1>4. p \in Nat /\ s.data \in Nat /\ PagesOf(s.data, s.pages) = p .. p + s.pages - 1
  <2>1. p \in Nat /\ s.pages \in Nat
    BY <1>3, SlabSize
  <2>. QED
    BY <1>2, <2>1, PagesAre
<1>5. s.data \div PageBytes = p
  <2>1. p * PageBytes + 0 = p * PageBytes /\ 0 \in 0 .. PageBytes - 1
    BY <1>4, SlabSize
  <2>. QED
    BY <1>2, <1>4, <2>1, SlabSize, PageOfPlace
<1>6. p \in PagesOf(s.data, s.pages)
  BY <1>3, <1>4
<1>7. PagesOf(s.data, s.pages) \subseteq PagesOfSpecial(h)
  BY DEF PagesOfSpecial, s
<1>8. \A x, t : Placed(h, x, t) => x # s.data
  BY <1>5, <1>6, <1>7, PlacedIs DEF HeapOK, PagesOK
<1>. QED
  BY <1>2, <1>3, <1>4, <1>5, <1>6, <1>7, <1>8 DEF s

(* A caller's object taken from a slab. *)
LEMMA SmallTaken ==
  ASSUME NEW h, NEW o, Sound(h, o), NEW size \in Requests, size <= SlabBytes,
         NEW u, ItemTaken(h, u, InUse(h, o), PagesOfSpecial(h), RowOf(size))
  PROVE  Sound(u.heap, o \cup {[at |-> u.item, size |-> size]})
<1> DEFINE g == u.heap
           x == u.item
           new == [at |-> x, size |-> size]
           o2 == o \cup {new}
<1>1. /\ HeapOK(g, InUse(h, o) \cup {x}, PagesOfSpecial(h)) /\ Keeps(h, g)
      /\ x \notin InUse(h, o) /\ Placed(g, x, RowOf(size))
  BY DEF ItemTaken
<1>2. x \in Nat /\ size \in Nat
  BY <1>1, PlacedIs, KmallocAssumption
<1> HIDE DEF g, x
<1>3. new.at = x /\ new.size = size /\ new \in [at : Nat, size : Requests]
  BY <1>2
<1> HIDE DEF new
<1>4. g.special = h.special /\ Records(g) = Records(h) /\ PagesOfSpecial(g) = PagesOfSpecial(h)
  BY <1>1 DEF Keeps, Records, PagesOfSpecial
<1>5. Small(o2) = Small(o) \cup {x}
  BY <1>3 DEF Small
<1>6. InUse(g, o2) = InUse(h, o) \cup {x}
  BY <1>4, <1>5 DEF InUse
<1>7. \A y, s : Placed(h, y, s) => Placed(g, y, s)
  BY <1>1, KeepsPlaced
<1>8. SpecialOK(g)
  BY <1>4, <1>7 DEF Sound, SpecialOK
<1>9. HeapOK(g, InUse(g, o2), PagesOfSpecial(g))
  BY <1>1, <1>4, <1>6
<1>10. ApartOK(g, o2)
  BY <1>1, <1>4, <1>5, <1>7 DEF Sound, ApartOK, InUse
<1>11. ObjectsOK(g, o2)
  <2>1. o2 \subseteq [at : Nat, size : Requests]
    BY <1>3 DEF Sound, ObjectsOK
  <2>2. ASSUME NEW y \in o PROVE y.at # x
    <3>1. CASE y.size <= SlabBytes
      BY <1>1, <3>1 DEF InUse, Small
    <3>2. CASE ~(y.size <= SlabBytes)
      <4>1. PICK i \in DOMAIN h.special : h.special[i].data = y.at
        BY <3>2 DEF Sound, ObjectsOK
      <4>2. i \in DOMAIN g.special /\ g.special[i].data = y.at
        BY <1>4, <4>1
      <4>. QED
        BY <1>1, <1>8, <1>9, <4>2, BlockIs
    <3>. QED
      BY <3>1, <3>2
  <2>3. ASSUME NEW y \in o2
        PROVE  IF y.size <= SlabBytes THEN Placed(g, y.at, RowOf(y.size))
               ELSE \E i \in DOMAIN g.special : g.special[i].data = y.at /\ g.special[i].pages = PagesNeeded(y.size)
    <3>1. CASE y = new
      BY <1>1, <1>3, <3>1
    <3>2. CASE y \in o
      BY <1>4, <1>7, <3>2 DEF Sound, ObjectsOK
    <3>. QED
      BY <3>1, <3>2
  <2>4. \A y, z \in o2 : y.at = z.at => y = z
    BY <1>3, <2>2 DEF Sound, ObjectsOK
  <2>. QED
    BY <2>1, <2>3, <2>4 DEF ObjectsOK
<1>12. Sound(g, o2)
  BY <1>8, <1>9, <1>10, <1>11 DEF Sound
<1>. QED
  BY <1>12 DEF g, x, new

(* A sequence with an element put before it. *)
LEMMA PushIs ==
  ASSUME NEW S, NEW q \in Seq(S), NEW e \in S, NEW t, t = <<e>> \o q
  PROVE  /\ t \in Seq(S) /\ 1 \in DOMAIN t /\ t[1] = e
         /\ \A k \in DOMAIN t : k = 1 \/ (k - 1 \in DOMAIN q /\ t[k] = q[k - 1])
         /\ \A k \in DOMAIN q : k + 1 \in DOMAIN t /\ t[k + 1] = q[k]
<1>1. <<e>> \in Seq(S)
  OBVIOUS
<1>2. /\ t \in Seq(S) /\ Len(t) = 1 + Len(q) /\ t[1] = e /\ Len(q) \in Nat /\ DOMAIN t = 1 .. Len(t) /\ DOMAIN q = 1 .. Len(q)
      /\ \A k \in 1 .. Len(q) : t[1 + k] = q[k]
  BY <1>1
<1>3. \A k \in DOMAIN q : k + 1 \in DOMAIN t /\ k + 1 = 1 + k /\ t[k + 1] = q[k]
  BY <1>2
<1>4. ASSUME NEW k \in DOMAIN t, k # 1 PROVE k - 1 \in DOMAIN q /\ t[k] = q[k - 1]
  <2>1. k - 1 \in DOMAIN q /\ 1 + (k - 1) = k
    BY <1>2, <1>4
  <2>. QED
    BY <1>2, <2>1
<1>. QED
  BY <1>2, <1>3, <1>4

(* A caller's block larger than a slab, with the record of it. *)
LEMMA BigTaken ==
  ASSUME NEW h, NEW o, Sound(h, o), NEW size \in Requests, size > SlabBytes, NEW at \in Places(h, PagesNeeded(size)),
         NEW u, ItemTaken(slab_create(h, at, PagesNeeded(size)), u, InUse(h, o),
                          PagesOfSpecial(h) \cup PagesOf(at, PagesNeeded(size)), RecordSize),
         NEW g, g = [u.heap EXCEPT !.special = <<[data |-> at, pages |-> PagesNeeded(size), rec |-> u.item]>> \o @]
  PROVE  Sound(g, o \cup {[at |-> at, size |-> size]})
<1> DEFINE n == PagesNeeded(size)
           P == PagesOf(at, n)
           f == u.heap
           x == u.item
           blk == [data |-> at, pages |-> n, rec |-> x]
           new == [at |-> at, size |-> size]
           o2 == o \cup {new}
           Y == InUse(h, o)
           R == PagesOfSpecial(h)
           T == [data : {p * PageBytes : p \in 0 .. HeapPages - 1}, pages : Nat \ {0}, rec : Nat]
<1>1. n \in Nat \ {0} /\ at \in {p * PageBytes : p \in 0 .. HeapPages - 1} /\ P \cap h.mapped = {}
  BY SlabSize, KmallocAssumption, PagesNeededIs, PlacesAre
<1>2. HeapOK(slab_create(h, at, n), Y, R \cup P) /\ slab_create(h, at, n).special = h.special /\ Keeps(h, slab_create(h, at, n))
  <2>1. HeapOK(h, Y, R) /\ P \subseteq 0 .. HeapPages - 1
    BY <1>1, PlacesAre DEF Sound
  <2>. QED
    BY <1>1, <2>1, CreateHeap
<1>3. /\ HeapOK(f, Y \cup {x}, R \cup P) /\ Keeps(slab_create(h, at, n), f) /\ x \notin Y /\ Placed(f, x, RecordSize)
  BY DEF ItemTaken
<1>4. Keeps(h, f)
  BY <1>2, <1>3, KeepsThen
<1> HIDE DEF n, P, f, x, Y, R
<1>5. x \in Nat /\ blk \in T
  BY <1>1, <1>3, PlacedIs
<1>6. blk.data = at /\ blk.pages = n /\ blk.rec = x
  OBVIOUS
<1>7. DOMAIN f = HeapFields /\ g = [f EXCEPT !.special = <<blk>> \o @]
  BY <1>3 DEF HeapOK, ShapeOK, HeapFields, f, n, x
<1> HIDE DEF blk
<1>8. DOMAIN g = HeapFields /\ g.slab = f.slab /\ g.row = f.row /\ g.mapped = f.mapped /\ g.special = <<blk>> \o f.special
  BY <1>7 DEF HeapFields
<1>9. f.special = h.special /\ h.special \in Seq(T)
  BY <1>4 DEF Keeps, Sound, SpecialOK
<1> DEFINE q == h.special
           t == g.special
<1>10. /\ t \in Seq(T) /\ 1 \in DOMAIN t /\ t[1] = blk
       /\ \A k \in DOMAIN t : k = 1 \/ (k - 1 \in DOMAIN q /\ t[k] = q[k - 1])
       /\ \A k \in DOMAIN q : k + 1 \in DOMAIN t /\ t[k + 1] = q[k]
  <2> HIDE DEF T
  <2>1. q \in Seq(T) /\ t = <<blk>> \o q
    BY <1>8, <1>9
  <2> HIDE DEF q, t
  <2>. QED
    BY <1>5, <2>1, PushIs
<1> HIDE DEF T, q, t
<1>11. Records(g) = Records(h) \cup {x} /\ PagesOfSpecial(g) = R \cup P
  <2>1. Records(g) = {t[i].rec : i \in DOMAIN t} /\ Records(h) = {q[i].rec : i \in DOMAIN q}
    BY DEF Records, t, q
  <2>2. /\ PagesOfSpecial(g) = UNION {PagesOf(t[i].data, t[i].pages) : i \in DOMAIN t}
        /\ R = UNION {PagesOf(q[i].data, q[i].pages) : i \in DOMAIN q}
    BY DEF PagesOfSpecial, t, q, R
  <2>3. \A i \in DOMAIN t : t[i] = blk \/ \E j \in DOMAIN q : t[i] = q[j]
    BY <1>10
  <2>4. (\E i \in DOMAIN t : t[i] = blk) /\ \A j \in DOMAIN q : \E i \in DOMAIN t : t[i] = q[j]
    BY <1>10
  <2>5. Records(g) = Records(h) \cup {x}
    BY <1>6, <2>1, <2>3, <2>4
  <2>6. PagesOfSpecial(g) = R \cup P
    BY <1>6, <2>2, <2>3, <2>4 DEF P
  <2>. QED
    BY <2>5, <2>6
<1>12. new.at = at /\ new.size = size /\ new \in [at : Nat, size : Requests] /\ ~(size <= SlabBytes)
  <2>1. at \in Nat
    BY <1>1, SlabSize, PagesAre
  <2>2. size \in Nat
    BY KmallocAssumption
  <2>. QED
    BY <2>1, <2>2, SlabSize
<1> HIDE DEF new
<1>13. Small(o2) = Small(o) /\ InUse(g, o2) = Y \cup {x}
  BY <1>11, <1>12 DEF Small, InUse, Y
<1>14. /\ HeapOK(g, Y \cup {x}, R \cup P)
       /\ \A y, s : Placed(g, y, s) <=> Placed(f, y, s)
  <2> DEFINE Y2 == Y \cup {x}
             R2 == R \cup P
  <2> HIDE DEF Y2, R2
  <2>1. HeapOK(f, Y2, R2)
    BY <1>3 DEF Y2, R2
  <2>2. g.mapped = R2 \cup PagesOfSlabs(f) /\ R2 \cap PagesOfSlabs(f) = {} /\ R2 \subseteq 0 .. HeapPages - 1
    BY <1>8, <2>1 DEF HeapOK, PagesOK
  <2>3. HeapOK(g, Y2, R2) /\ \A y, s : Placed(g, y, s) <=> Placed(f, y, s)
    BY <1>8, <2>1, <2>2, OtherPages
  <2>. QED
    BY <2>3 DEF Y2, R2
<1>15. HeapOK(g, InUse(g, o2), PagesOfSpecial(g))
  BY <1>11, <1>13, <1>14
<1>16. \A y, s : Placed(h, y, s) => Placed(g, y, s)
  BY <1>4, <1>14, KeepsPlaced
<1>17. P \cap R = {}
  BY <1>1 DEF Sound, HeapOK, PagesOK, R
<1>18. SpecialOK(g)
  <2>1. \A i \in DOMAIN q : Placed(g, q[i].rec, RecordSize) /\ q[i].rec # x /\ PagesOf(q[i].data, q[i].pages) \cap P = {}
    <3>1. \A i \in DOMAIN q : Placed(g, q[i].rec, RecordSize)
      BY <1>16 DEF Sound, SpecialOK, q
    <3>2. \A i \in DOMAIN q : q[i].rec # x
      BY <1>3 DEF Y, InUse, Records, q
    <3>3. \A i \in DOMAIN q : PagesOf(q[i].data, q[i].pages) \cap P = {}
      BY <1>17 DEF R, PagesOfSpecial, q
    <3>. QED
      BY <3>1, <3>2, <3>3
  <2>2. \A i \in DOMAIN t : Placed(g, t[i].rec, RecordSize)
    BY <1>3, <1>6, <1>10, <1>14, <2>1
  <2>3. \A i, j \in DOMAIN q : i # j => q[i].rec # q[j].rec /\ PagesOf(q[i].data, q[i].pages) \cap PagesOf(q[j].data, q[j].pages) = {}
    BY DEF Sound, SpecialOK, q
  <2>4. ASSUME NEW i \in DOMAIN t, NEW j \in DOMAIN t, i # j
        PROVE  t[i].rec # t[j].rec /\ PagesOf(t[i].data, t[i].pages) \cap PagesOf(t[j].data, t[j].pages) = {}
    <3>1. CASE i = 1
      BY <1>6, <1>10, <2>1, <2>4, <3>1 DEF P
    <3>2. CASE j = 1
      BY <1>6, <1>10, <2>1, <2>4, <3>2 DEF P
    <3>3. CASE i # 1 /\ j # 1
      <4>1. i - 1 \in DOMAIN q /\ j - 1 \in DOMAIN q /\ t[i] = q[i - 1] /\ t[j] = q[j - 1]
        BY <1>10, <3>3
      <4>2. i \in Int /\ j \in Int
        BY <1>10, LengthIs
      <4>3. i - 1 # j - 1
        BY <2>4, <4>2
      <4>. QED
        BY <2>3, <4>1, <4>3
    <3>. QED
      BY <3>1, <3>2, <3>3
  <2>. QED
    BY <1>10, <2>2, <2>4 DEF SpecialOK, t, T
<1>19. ApartOK(g, o2)
  <2>1. \A r \in RowHeaders : r # x
    BY <1>3 DEF Y, InUse
  <2>2. x \notin Small(o)
    BY <1>3 DEF Y, InUse
  <2>. QED
    BY <1>11, <1>13, <1>16, <2>1, <2>2 DEF Sound, ApartOK
<1>20. ObjectsOK(g, o2)
  <2>1. o2 \subseteq [at : Nat, size : Requests]
    BY <1>12 DEF Sound, ObjectsOK
  <2>2. ASSUME NEW y \in o PROVE y.at # at
    <3>1. CASE y.size <= SlabBytes
      <4>1. Placed(g, y.at, RowOf(y.size))
        BY <1>16, <3>1 DEF Sound, ObjectsOK
      <4>2. 1 \in DOMAIN g.special /\ g.special[1].data = at
        BY <1>6, <1>10 DEF t
      <4>3. \A z, s : Placed(g, z, s) => z # g.special[1].data
        BY <1>15, <1>18, <4>2, BlockIs
      <4>. QED
        BY <4>1, <4>2, <4>3
    <3>2. CASE ~(y.size <= SlabBytes)
      <4>1. PICK i \in DOMAIN h.special : h.special[i].data = y.at
        BY <3>2 DEF Sound, ObjectsOK
      <4>2. at \div PageBytes \in P
        BY <1>6, <1>10, <1>15, <1>18, BlockIs DEF t, P
      <4>3. y.at \div PageBytes \in R
        BY <4>1, BlockIs DEF Sound, R
      <4>. QED
        BY <1>17, <4>2, <4>3
    <3>. QED
      BY <3>1, <3>2
  <2>3. ASSUME NEW y \in o2
        PROVE  IF y.size <= SlabBytes THEN Placed(g, y.at, RowOf(y.size))
               ELSE \E i \in DOMAIN g.special : g.special[i].data = y.at /\ g.special[i].pages = PagesNeeded(y.size)
    <3>1. CASE y = new
      BY <1>6, <1>10, <1>12, <3>1 DEF t, n
    <3>2. CASE y \in o /\ y.size <= SlabBytes
      BY <1>16, <3>2 DEF Sound, ObjectsOK
    <3>3. CASE y \in o /\ ~(y.size <= SlabBytes)
      <4>1. PICK i \in DOMAIN q : q[i].data = y.at /\ q[i].pages = PagesNeeded(y.size)
        BY <3>3 DEF Sound, ObjectsOK, q
      <4>2. i + 1 \in DOMAIN t /\ t[i + 1] = q[i]
        BY <1>10, <4>1
      <4>. QED
        BY <3>3, <4>1, <4>2 DEF t
    <3>. QED
      BY <3>1, <3>2, <3>3
  <2>4. \A y, z \in o2 : y.at = z.at => y = z
    BY <1>12, <2>2 DEF Sound, ObjectsOK
  <2>. QED
    BY <2>1, <2>3, <2>4 DEF ObjectsOK
<1>21. Sound(g, o2)
  BY <1>15, <1>18, <1>19, <1>20 DEF Sound
<1>. QED
  BY <1>21 DEF new
-----------------------------------------------------------------------------
(* kfree *)
LEMMA PlacedAround ==
  ASSUME NEW h, NEW Y, NEW R, HeapOK(h, Y, R), NEW x, NEW s, Placed(h, x, s)
  PROVE  \E a \in DOMAIN h.slab : SlabsAround(h, x) = {a} /\ x \in Cells(a, h.slab[a].size)
  BY Around DEF Placed

(* kfree of an object from a slab. *)
LEMMA SmallGiven ==
  ASSUME NEW h, NEW o, Sound(h, o), NEW obj \in o, obj.size <= SlabBytes
  PROVE  SlabsAround(h, obj.at) # {} /\ Sound(slab_free_item(h, CHOOSE a \in SlabsAround(h, obj.at) : TRUE, obj.at), o \ {obj})
<1> DEFINE x == obj.at
           Y == InUse(h, o)
           R == PagesOfSpecial(h)
           o2 == o \ {obj}
<1>1. HeapOK(h, Y, R) /\ Placed(h, x, RowOf(obj.size)) /\ x \in Y
  BY DEF Sound, ObjectsOK, InUse, Small
<1>2. PICK a \in DOMAIN h.slab : SlabsAround(h, x) = {a} /\ x \in Cells(a, h.slab[a].size)
  BY <1>1, PlacedAround
<1>3. (CHOOSE b \in SlabsAround(h, x) : TRUE) = a /\ SlabsAround(h, x) # {}
  BY <1>2
<1> DEFINE g == slab_free_item(h, a, x)
<1>4. HeapOK(g, Y \ {x}, R) /\ Keeps(h, g)
  BY <1>1, <1>2, GiveHeap
<1> HIDE DEF g
<1>5. g.special = h.special /\ Records(g) = Records(h) /\ PagesOfSpecial(g) = R
  BY <1>4 DEF Keeps, Records, PagesOfSpecial
<1>6. Small(o2) = Small(o) \ {x}
  BY DEF Small, Sound, ObjectsOK
<1>7. x \notin RowHeaders /\ x \notin Records(h)
  BY DEF Sound, ApartOK, Small
<1>8. InUse(g, o2) = Y \ {x}
  BY <1>5, <1>6, <1>7 DEF InUse
<1>9. \A y, s : Placed(h, y, s) => Placed(g, y, s)
  BY <1>4, KeepsPlaced
<1>10. SpecialOK(g)
  BY <1>5, <1>9 DEF Sound, SpecialOK
<1>11. ObjectsOK(g, o2)
  BY <1>5, <1>9 DEF Sound, ObjectsOK
<1>12. ApartOK(g, o2)
  BY <1>5, <1>6, <1>9 DEF Sound, ApartOK
<1>13. Sound(g, o2)
  BY <1>4, <1>5, <1>8, <1>10, <1>11, <1>12 DEF Sound
<1>. QED
  BY <1>3, <1>13 DEF g

(* A block's address is in no slab; there is a record of it. *)
LEMMA BigIs ==
  ASSUME NEW h, NEW o, Sound(h, o), NEW obj \in o, ~(obj.size <= SlabBytes)
  PROVE  /\ SlabsAround(h, obj.at) = {}
         /\ \E i \in DOMAIN h.special : /\ h.special[i].data = obj.at /\ h.special[i].pages = PagesNeeded(obj.size)
                                        /\ \A j \in DOMAIN h.special : h.special[j].data = obj.at => j = i
<1>1. PICK i \in DOMAIN h.special : h.special[i].data = obj.at /\ h.special[i].pages = PagesNeeded(obj.size)
  BY DEF Sound, ObjectsOK
<1>2. /\ obj.at \in Nat /\ obj.at \div PageBytes \in PagesOfSpecial(h)
      /\ obj.at \div PageBytes \in PagesOf(h.special[i].data, h.special[i].pages)
  BY <1>1, BlockIs DEF Sound
<1>3. ASSUME NEW a \in SlabsAround(h, obj.at) PROVE FALSE
  <2>1. a \in DOMAIN h.slab /\ a \in SlabPlaces /\ a <= obj.at /\ obj.at < a + SlabBytes
    BY DEF Sound, HeapOK, ShapeOK, SlabsAround
  <2>2. obj.at \div PageBytes \in PagesOfSlabs(h)
    BY <1>2, <2>1, SlabPlace DEF PagesOfSlabs
  <2>. QED
    BY <1>2, <2>2 DEF Sound, HeapOK, PagesOK
<1>4. ASSUME NEW j \in DOMAIN h.special, h.special[j].data = obj.at PROVE j = i
  <2>1. obj.at \div PageBytes \in PagesOf(h.special[j].data, h.special[j].pages)
    BY <1>4, BlockIs DEF Sound
  <2>. QED
    BY <1>2, <2>1 DEF Sound, SpecialOK
<1>. QED
  BY <1>1, <1>3, <1>4

WithoutBlock(h, at, n, rest) == [slab_destroy(h, at, n) EXCEPT !.special = rest]

(* slab_destroy of a block. *)
LEMMA DestroyHeap ==
  ASSUME NEW h, NEW Y, NEW R, HeapOK(h, Y, R), NEW at, NEW n, PagesOf(at, n) \subseteq R, NEW rest
  PROVE  LET g == WithoutBlock(h, at, n, rest)
         IN /\ HeapOK(g, Y, R \ PagesOf(at, n)) /\ Headers(g) = Headers(h) /\ g.slab = h.slab /\ g.special = rest
            /\ \A x, s : Placed(g, x, s) <=> Placed(h, x, s)
<1> DEFINE g == WithoutBlock(h, at, n, rest)
           P == PagesOf(at, n)
           S == R \ P
           f == slab_destroy(h, at, n)
<1>1. DOMAIN h = HeapFields /\ h.mapped = R \cup PagesOfSlabs(h) /\ R \cap PagesOfSlabs(h) = {} /\ h.mapped \subseteq 0 .. HeapPages - 1
  BY DEF HeapOK, ShapeOK, PagesOK, HeapFields
<1>2. DOMAIN f = HeapFields /\ f.slab = h.slab /\ f.row = h.row /\ f.mapped = h.mapped \ P
  BY <1>1 DEF slab_destroy, HeapFields
<1> HIDE DEF f, P
<1>3. DOMAIN g = HeapFields /\ g.slab = h.slab /\ g.row = h.row /\ g.mapped = h.mapped \ P /\ g.special = rest
  BY <1>2 DEF HeapFields, f, WithoutBlock
<1> HIDE DEF g
<1>4. g.mapped = S \cup PagesOfSlabs(h) /\ S \cap PagesOfSlabs(h) = {} /\ S \subseteq 0 .. HeapPages - 1
  BY <1>1, <1>3 DEF P
<1> HIDE DEF S
<1>5. HeapOK(g, Y, S) /\ Headers(g) = Headers(h) /\ \A x, s : Placed(g, x, s) <=> Placed(h, x, s)
  BY <1>3, <1>4, OtherPages
<1>. QED
  BY <1>3, <1>5 DEF S, P, g

(* special_delete: the block is unmapped and its record freed. *)
LEMMA BigGiven ==
  ASSUME NEW h, NEW o, Sound(h, o), NEW obj \in o, ~(obj.size <= SlabBytes),
         NEW i \in DOMAIN h.special, h.special[i].data = obj.at, h.special[i].pages = PagesNeeded(obj.size)
  PROVE  Sound(special_delete(h, i), o \ {obj})
<1> DEFINE q == h.special
           s == q[i]
           t == RemoveAt(q, i)
           P == PagesOf(s.data, s.pages)
           f == [slab_destroy(h, s.data, s.pages) EXCEPT !.special = t]
           x == s.rec
           Y == InUse(h, o)
           R == PagesOfSpecial(h)
           o2 == o \ {obj}
           T == [data : {p * PageBytes : p \in 0 .. HeapPages - 1}, pages : Nat \ {0}, rec : Nat]
<1>1. q \in Seq(T) /\ Len(q) \in Nat /\ DOMAIN q = 1 .. Len(q)
  BY LengthIs DEF Sound, SpecialOK
<1>2. t \in Seq(T) /\ DOMAIN t = 1 .. Len(t)
  <2> HIDE DEF T, q
  <2>1. t \in Seq(T)
    BY <1>1, RemovedFrom DEF q
  <2>. QED
    BY <2>1, LengthIs
<1>3. PICK old \in [DOMAIN t -> DOMAIN q] :
        /\ \A k \in DOMAIN t : old[k] # i /\ t[k] = q[old[k]]
        /\ \A k, l \in DOMAIN t : old[k] = old[l] => k = l
        /\ \A j \in DOMAIN q : j # i => \E k \in DOMAIN t : old[k] = j
  <2>1. i \in 1 .. Len(q) /\ t = RemoveAt(q, i)
    BY <1>1
  <2> HIDE DEF T, q, t
  <2>2. \E old \in [1 .. Len(t) -> 1 .. Len(q)] :
          /\ \A k \in 1 .. Len(t) : old[k] # i /\ t[k] = q[old[k]]
          /\ \A k, l \in 1 .. Len(t) : old[k] = old[l] => k = l
          /\ \A j \in 1 .. Len(q) : j # i => \E k \in 1 .. Len(t) : old[k] = j
    BY <1>1, <2>1, RemovedFrom
  <2> DEFINE D == 1 .. Len(t)
             E == 1 .. Len(q)
  <2>3. D = DOMAIN t /\ E = DOMAIN q
    BY <1>1, <1>2
  <2>4. \E old \in [D -> E] :
          /\ \A k \in D : old[k] # i /\ t[k] = q[old[k]]
          /\ \A k, l \in D : old[k] = old[l] => k = l
          /\ \A j \in E : j # i => \E k \in D : old[k] = j
    BY <2>2
  <2> HIDE DEF D, E
  <2>. QED
    BY <2>3, <2>4
<1> HIDE DEF T, t
<1>4. P \subseteq R /\ HeapOK(h, Y, R)
  BY DEF Sound, PagesOfSpecial
<1>5. /\ HeapOK(f, Y, R \ P) /\ f.slab = h.slab /\ f.special = t
      /\ \A z, c : Placed(f, z, c) <=> Placed(h, z, c)
  <2> DEFINE at == s.data
             n == s.pages
  <2>1. f = WithoutBlock(h, at, n, t) /\ P = PagesOf(at, n) /\ PagesOf(at, n) \subseteq R
    BY <1>4 DEF WithoutBlock
  <2> HIDE DEF at, n, f, s, Y, R, P
  <2>2. /\ HeapOK(f, Y, R \ PagesOf(at, n)) /\ f.slab = h.slab /\ f.special = t
        /\ \A z, c : Placed(f, z, c) <=> Placed(h, z, c)
    BY <1>4, <2>1, DestroyHeap
  <2>. QED
    BY <2>1, <2>2
<1>6. Placed(f, x, RecordSize) /\ x \in Y
  BY <1>5 DEF Sound, SpecialOK, InUse, Records
<1>7. special_delete(h, i) = slab_free_item(f, CHOOSE a \in SlabsAround(f, x) : TRUE, x)
  <2>1. slab_destroy(h, s.data, s.pages).special = q
    BY <1>4 DEF slab_destroy, HeapOK, ShapeOK
  <2> HIDE DEF q
  <2>2. f = [slab_destroy(h, s.data, s.pages) EXCEPT !.special = RemoveAt(@, i)]
    BY <2>1 DEF t
  <2>. QED
    BY <2>2 DEF special_delete, q
<1> HIDE DEF f
<1>8. PICK a \in DOMAIN f.slab : SlabsAround(f, x) = {a} /\ x \in Cells(a, f.slab[a].size)
  <2> HIDE DEF s, Y, R, q
  <2>. QED
    BY <1>5, <1>6, PlacedAround
<1> DEFINE g == slab_free_item(f, a, x)
<1>9. special_delete(h, i) = g
  <2>1. (CHOOSE b \in SlabsAround(f, x) : TRUE) = a
    BY <1>8
  <2>. QED
    BY <1>7, <2>1
<1>10. HeapOK(g, Y \ {x}, R \ P) /\ Keeps(f, g)
  <2> DEFINE S == R \ P
  <2> HIDE DEF s, Y, q, S
  <2>1. HeapOK(f, Y, S)
    BY <1>5 DEF S
  <2>2. HeapOK(g, Y \ {x}, S) /\ Keeps(f, g)
    BY <1>6, <1>8, <2>1, GiveHeap
  <2>. QED
    BY <2>2 DEF S
<1> HIDE DEF g
<1>11. g.special = t /\ \A z, c : Placed(h, z, c) => Placed(g, z, c)
  BY <1>5, <1>10, KeepsPlaced DEF Keeps
<1>12. /\ \A j, k \in DOMAIN q : j # k => q[j].rec # q[k].rec /\ PagesOf(q[j].data, q[j].pages) \cap PagesOf(q[k].data, q[k].pages) = {}
       /\ \A j \in DOMAIN q : Placed(h, q[j].rec, RecordSize)
  BY DEF Sound, SpecialOK
<1> HIDE DEF q
<1>13. (\A k \in DOMAIN t : \E j \in DOMAIN q : j # i /\ t[k] = q[j]) /\ \A j \in DOMAIN q : j # i => \E k \in DOMAIN t : t[k] = q[j]
  BY <1>3
<1>14. Records(g) = Records(h) \ {x} /\ PagesOfSpecial(g) = R \ P
  <2>1. Records(g) = {t[k].rec : k \in DOMAIN t} /\ Records(h) = {q[k].rec : k \in DOMAIN q}
    BY <1>11 DEF Records, q
  <2>2. /\ PagesOfSpecial(g) = UNION {PagesOf(t[k].data, t[k].pages) : k \in DOMAIN t}
        /\ R = UNION {PagesOf(q[k].data, q[k].pages) : k \in DOMAIN q}
    BY <1>11 DEF PagesOfSpecial, q
  <2>3. i \in DOMAIN q
    BY DEF q
  <2>4. Records(g) = Records(h) \ {x}
    BY <1>12, <1>13, <2>1, <2>3
  <2>5. PagesOfSpecial(g) = R \ P
    <3> DEFINE Pages(r) == PagesOf(r.data, r.pages)
    <3>1. /\ PagesOfSpecial(g) = UNION {Pages(t[k]) : k \in DOMAIN t} /\ R = UNION {Pages(q[k]) : k \in DOMAIN q}
          /\ P = Pages(q[i]) /\ \A j \in DOMAIN q : j # i => Pages(q[j]) \cap Pages(q[i]) = {}
      BY <1>12, <2>2, <2>3
    <3> HIDE DEF Pages, R, P
    <3>2. ASSUME NEW p PROVE p \in PagesOfSpecial(g) <=> p \in R /\ p \notin P
      <4>1. p \in PagesOfSpecial(g) <=> \E k \in DOMAIN t : p \in Pages(t[k])
        BY <3>1
      <4>2. p \in R <=> \E k \in DOMAIN q : p \in Pages(q[k])
        BY <3>1
      <4>3. \A j \in DOMAIN q : j # i /\ p \in Pages(q[j]) => p \notin P
        BY <3>1
      <4>. QED
        BY <1>13, <2>3, <3>1, <4>1, <4>2, <4>3
    <3>. QED
      BY <3>2
  <2>. QED
    BY <2>4, <2>5
<1>15. Small(o2) = Small(o)
  BY DEF Small
<1>16. x \notin RowHeaders /\ x \notin Small(o)
  BY DEF Sound, ApartOK, Records, q
<1>17. InUse(g, o2) = Y \ {x}
  BY <1>14, <1>15, <1>16 DEF InUse
<1>18. SpecialOK(g)
  <2>1. \A k \in DOMAIN t : Placed(g, t[k].rec, RecordSize)
    BY <1>3, <1>11, <1>12
  <2>2. ASSUME NEW k \in DOMAIN t, NEW l \in DOMAIN t, k # l
        PROVE  t[k].rec # t[l].rec /\ PagesOf(t[k].data, t[k].pages) \cap PagesOf(t[l].data, t[l].pages) = {}
    <3>1. old[k] # old[l] /\ old[k] \in DOMAIN q /\ old[l] \in DOMAIN q /\ t[k] = q[old[k]] /\ t[l] = q[old[l]]
      BY <1>3, <2>2
    <3>. QED
      BY <1>12, <3>1
  <2>. QED
    BY <1>2, <1>11, <2>1, <2>2 DEF SpecialOK, T
<1>19. ApartOK(g, o2)
  BY <1>11, <1>14, <1>15 DEF Sound, ApartOK
<1>20. ObjectsOK(g, o2)
  <2>1. ASSUME NEW y \in o2, ~(y.size <= SlabBytes)
        PROVE  \E k \in DOMAIN t : t[k].data = y.at /\ t[k].pages = PagesNeeded(y.size)
    <3>1. PICK j \in DOMAIN q : q[j].data = y.at /\ q[j].pages = PagesNeeded(y.size)
      BY <2>1 DEF Sound, ObjectsOK, q
    <3>2. j # i
      BY <3>1 DEF Sound, ObjectsOK, q
    <3>3. PICK k \in DOMAIN t : t[k] = q[j]
      BY <1>13, <3>1, <3>2
    <3>. QED
      BY <3>1, <3>3
  <2>2. ASSUME NEW y \in o2
        PROVE  IF y.size <= SlabBytes THEN Placed(g, y.at, RowOf(y.size))
               ELSE \E k \in DOMAIN g.special : g.special[k].data = y.at /\ g.special[k].pages = PagesNeeded(y.size)
    <3>1. CASE y.size <= SlabBytes
      BY <1>11, <3>1 DEF Sound, ObjectsOK
    <3>2. CASE ~(y.size <= SlabBytes)
      BY <1>11, <2>1, <3>2
    <3>. QED
      BY <3>1, <3>2
  <2>3. o2 \subseteq [at : Nat, size : Requests] /\ \A y, z \in o2 : y.at = z.at => y = z
    BY DEF Sound, ObjectsOK
  <2>. QED
    BY <2>2, <2>3 DEF ObjectsOK
<1>21. HeapOK(g, InUse(g, o2), PagesOfSpecial(g))
  BY <1>10, <1>14, <1>17
<1>. QED
  BY <1>9, <1>18, <1>19, <1>20, <1>21 DEF Sound
-----------------------------------------------------------------------------
(* kmalloc_slab_delete *)
LEMMA CellsAre ==
  ASSUME NEW a \in Nat, NEW s \in Sizes
  PROVE  IsFiniteSet(Cells(a, s)) /\ Cardinality(Cells(a, s)) = Count(s) /\ a \in Cells(a, s)
<1>1. Lists(Items(a, s), Cells(a, s)) /\ Len(Items(a, s)) = Count(s)
  BY ItemsList
<1>2. a \in Cells(a, s)
  <2>1. Items(a, s) # <<>> /\ Head(Items(a, s)) = a
    BY ItemsList
  <2>. QED
    BY <1>1, <2>1, ListTail
<1>. QED
  BY <1>1, <1>2, ListCount

(* A slab's count is that of all its items when none is in use, no sooner. *)
LEMMA FullIs ==
  ASSUME NEW h, NEW Y, NEW R, HeapOK(h, Y, R), NEW a \in DOMAIN h.slab
  PROVE  h.slab[a].free = h.slab[a].total <=> Cells(a, h.slab[a].size) \cap (Y \cup Headers(h)) = {}
<1> DEFINE s == h.slab[a]
           C == Cells(a, s.size)
           X == Y \cup Headers(h)
<1>1. SlabOK(s, a, X) /\ a \in Nat
  BY SlabIs DEF HeapOK, ListsOK
<1>2. /\ s.size \in Sizes /\ s.total = Count(s.size) - 1 /\ s.free \in Nat /\ Lists(s.avail, C \ X) /\ Len(s.avail) = s.free + 1
  BY <1>1 DEF SlabOK
<1> HIDE DEF s
<1>3. IsFiniteSet(C) /\ Cardinality(C) = Count(s.size) /\ Count(s.size) \in Nat
  BY <1>1, <1>2, CellsAre, SizeIs
<1>4. Cardinality(C \ X) = s.free + 1
  BY <1>2, ListCount
<1> HIDE DEF C, X
<1>5. C \ X \subseteq C /\ (Cardinality(C \ X) = Cardinality(C) => C \ X = C)
  BY <1>3, FS_Subset
<1>6. s.free = s.total <=> Cardinality(C \ X) = Cardinality(C)
  BY <1>2, <1>3, <1>4
<1>7. C \ X = C <=> C \cap X = {}
  OBVIOUS
<1>. QED
  BY <1>5, <1>6, <1>7 DEF s, C, X

SlabRemoved(h, g, at, place) ==
  LET size == h.slab[at].size
  IN  /\ DOMAIN g = HeapFields /\ g.special = h.special /\ g.mapped = h.mapped \ PagesOf(at, SlabPages)
      /\ DOMAIN g.slab = DOMAIN h.slab \ {at} /\ \A b \in DOMAIN g.slab : g.slab[b] = h.slab[b]
      /\ DOMAIN g.row = Sizes /\ g.row[size] = RemoveAt(h.row[size], place)
      /\ \A t \in Sizes : t # size => g.row[t] = h.row[t]

WithoutSlab(h, at, place) ==
  [slab_destroy(h, at, SlabPages) EXCEPT !.slab = [a \in DOMAIN @ \ {at} |-> @[a]],
                                         !.row[h.slab[at].size] = RemoveAt(@, place)]

(* What kmalloc_slab_delete changes before it frees the header. *)
LEMMA SlabRemovedView ==
  ASSUME NEW h, DOMAIN h = HeapFields, DOMAIN h.row = Sizes, NEW at \in DOMAIN h.slab, h.slab[at].size \in Sizes, NEW place
  PROVE  SlabRemoved(h, WithoutSlab(h, at, place), at, place)
<1> DEFINE f == slab_destroy(h, at, SlabPages)
           size == h.slab[at].size
           slabs == [a \in DOMAIN h.slab \ {at} |-> h.slab[a]]
           rows == [h.row EXCEPT ![size] = RemoveAt(@, place)]
           e == [f EXCEPT !.slab = slabs]
           g == [e EXCEPT !.row = rows]
<1>1. DOMAIN f = HeapFields /\ f.slab = h.slab /\ f.row = h.row /\ f.special = h.special /\ f.mapped = h.mapped \ PagesOf(at, SlabPages)
  BY DEF slab_destroy, HeapFields
<1> HIDE DEF f
<1>2. DOMAIN slabs = DOMAIN h.slab \ {at} /\ \A b \in DOMAIN slabs : slabs[b] = h.slab[b]
  OBVIOUS
<1>3. DOMAIN rows = Sizes /\ rows[size] = RemoveAt(h.row[size], place) /\ \A t \in Sizes : t # size => rows[t] = h.row[t]
  OBVIOUS
<1>4. WithoutSlab(h, at, place) = g
  BY <1>1 DEF WithoutSlab, f, HeapFields
<1> HIDE DEF slabs, rows
<1>5. DOMAIN e = HeapFields /\ e.slab = slabs /\ e.special = f.special /\ e.mapped = f.mapped
  BY <1>1 DEF HeapFields
<1> HIDE DEF e
<1>6. DOMAIN g = HeapFields /\ g.slab = slabs /\ g.row = rows /\ g.special = f.special /\ g.mapped = f.mapped
  BY <1>5 DEF HeapFields
<1> HIDE DEF g
<1>7. SlabRemoved(h, g, at, place)
  BY <1>1, <1>2, <1>3, <1>6 DEF SlabRemoved
<1>. QED
  BY <1>4, <1>7

(* A slab with nothing in use can go; its header is then like any item in use. *)
LEMMA RemoveSlab ==
  ASSUME NEW h, NEW Y, NEW R, HeapOK(h, Y, R), NEW at \in DOMAIN h.slab,
         Cells(at, h.slab[at].size) \cap (Y \cup Headers(h)) = {},
         NEW place \in DOMAIN h.row[h.slab[at].size], h.row[h.slab[at].size][place] = at,
         NEW g, SlabRemoved(h, g, at, place)
  PROVE  LET hd == h.slab[at].header
         IN /\ HeapOK(g, Y \cup {hd}, R) /\ hd \notin Y /\ Placed(g, hd, HeaderSize)
            /\ KeepsUsed(h, g, Y)
<1> DEFINE D == DOMAIN h.slab
           P == PagesOf(at, SlabPages)
           size == h.slab[at].size
           hd == h.slab[at].header
           Z == Y \cup {hd}
           X == Y \cup Headers(h)
<1>1. size \in Sizes /\ at \in Nat
  BY SlabIs
<1>2. hd \in Headers(h) /\ hd \notin Y
  BY DEF Headers, HeapOK, ItemsOK
<1>3. DOMAIN g.slab = D \ {at} /\ \A b \in DOMAIN g.slab : g.slab[b] = h.slab[b]
  BY DEF SlabRemoved
<1>4. \A x \in X : \A s : Placed(h, x, s) => Placed(g, x, s)
  <2>1. SUFFICES ASSUME NEW x \in X, NEW s, Placed(h, x, s) PROVE Placed(g, x, s)
    OBVIOUS
  <2>2. PICK b \in D : h.slab[b].size = s /\ x \in Cells(b, s)
    BY <2>1 DEF Placed
  <2>3. b # at
    BY <2>2
  <2>. QED
    BY <1>3, <2>2, <2>3 DEF Placed
<1>5. Headers(g) = Headers(h) \ {hd}
  BY <1>3 DEF Headers, HeapOK, HeadersOK
<1>6. Z \cup Headers(g) = X
  BY <1>2, <1>5
<1>7. Placed(g, hd, HeaderSize)
  BY <1>2, <1>4 DEF HeapOK, HeadersOK
<1>8. ShapeOK(g)
  BY <1>3 DEF HeapOK, ShapeOK, SlabRemoved, HeapFields
<1>9. ListsOK(g, Z)
  <2> HIDE DEF Z, X
  <2>1. \A b \in D : SlabOK(h.slab[b], b, X)
    BY DEF HeapOK, ListsOK, X
  <2>. QED
    BY <1>3, <1>6, <2>1 DEF ListsOK
<1>10. HeadersOK(g)
  <2>1. \A b \in DOMAIN g.slab : Placed(g, g.slab[b].header, HeaderSize) /\ (g.slab[b].size = HeaderSize => g.slab[b].header = b)
    BY <1>3, <1>4 DEF HeapOK, HeadersOK, Headers
  <2>2. \A a, b \in DOMAIN g.slab : g.slab[a].header = g.slab[b].header => a = b
    BY <1>3 DEF HeapOK, HeadersOK
  <2>. QED
    BY <2>1, <2>2 DEF HeadersOK
<1>11. ItemsOK(g, Z)
  <2>1. \A y \in Z : y \notin Headers(g)
    BY <1>5 DEF HeapOK, ItemsOK
  <2>2. \A y \in Y : \E s \in Sizes : Placed(g, y, s)
    BY <1>4 DEF HeapOK, ItemsOK
  <2>. QED
    BY <1>7, <2>1, <2>2, NamedSizes DEF ItemsOK
<1>12. PagesOK(g, R)
  <2>1. \A a, b \in DOMAIN g.slab : a # b => PagesOf(a, SlabPages) \cap PagesOf(b, SlabPages) = {}
    BY <1>3 DEF HeapOK, PagesOK
  <2>2. PagesOfSlabs(g) = PagesOfSlabs(h) \ P
    <3> DEFINE Pages(a) == PagesOf(a, SlabPages)
    <3>1. /\ PagesOfSlabs(g) = UNION {Pages(a) : a \in D \ {at}} /\ PagesOfSlabs(h) = UNION {Pages(a) : a \in D}
          /\ P = Pages(at) /\ \A a \in D : a # at => Pages(a) \cap Pages(at) = {}
      BY <1>3 DEF PagesOfSlabs, HeapOK, PagesOK
    <3> HIDE DEF Pages, P
    <3>2. ASSUME NEW p PROVE p \in PagesOfSlabs(g) <=> p \in PagesOfSlabs(h) /\ p \notin P
      <4>1. (p \in PagesOfSlabs(g) <=> \E a \in D \ {at} : p \in Pages(a)) /\ (p \in PagesOfSlabs(h) <=> \E a \in D : p \in Pages(a))
        BY <3>1
      <4>2. \A a \in D : a # at /\ p \in Pages(a) => p \notin P
        BY <3>1
      <4>. QED
        BY <3>1, <4>1, <4>2
    <3>. QED
      BY <3>2
  <2>3. P \subseteq PagesOfSlabs(h)
    BY DEF PagesOfSlabs
  <2>4. h.mapped = R \cup PagesOfSlabs(h) /\ R \cap PagesOfSlabs(h) = {} /\ h.mapped \subseteq 0 .. HeapPages - 1 /\ g.mapped = h.mapped \ P
    BY DEF HeapOK, PagesOK, SlabRemoved
  <2> HIDE DEF P
  <2>5. g.mapped = R \cup PagesOfSlabs(g) /\ R \cap PagesOfSlabs(g) = {} /\ g.mapped \subseteq 0 .. HeapPages - 1
    BY <2>2, <2>3, <2>4
  <2>. QED
    BY <2>1, <2>5 DEF PagesOK
<1>13. RowsOK(g)
  <2>1. InRow(g, size) = InRow(h, size) \ {at} /\ \A t : t # size => InRow(g, t) = InRow(h, t)
    BY <1>3 DEF InRow
  <2>2. Lists(h.row[size], InRow(h, size))
    BY <1>1 DEF HeapOK, RowsOK
  <2>3. Lists(RemoveAt(h.row[size], place), InRow(h, size) \ {at})
    <3> DEFINE s == h.row[size]
               S == InRow(h, size)
    <3>1. Lists(s, S) /\ s[place] = at /\ place \in DOMAIN s
      BY <2>2
    <3> HIDE DEF s, S, size
    <3>2. place \in 1 .. Len(s)
      BY <3>1, LengthIs DEF Lists
    <3>3. Lists(RemoveAt(s, place), S \ {at})
      BY <3>1, <3>2, ListRemove
    <3>. QED
      BY <3>3 DEF s, S
  <2>4. ASSUME NEW t \in Sizes PROVE Lists(g.row[t], InRow(g, t))
    <3>1. CASE t = size
      BY <2>1, <2>3, <3>1 DEF SlabRemoved
    <3>2. CASE t # size
      BY <2>1, <3>2 DEF SlabRemoved, HeapOK, RowsOK
    <3>. QED
      BY <3>1, <3>2
  <2>. QED
    BY <2>4 DEF RowsOK, SlabRemoved
<1>14. KeepsUsed(h, g, Y)
  BY <1>4 DEF KeepsUsed, SlabRemoved
<1>. QED
  BY <1>2, <1>7, <1>8, <1>9, <1>10, <1>11, <1>12, <1>13, <1>14 DEF HeapOK

(* kmalloc_slab_delete of a slab with its full count. *)
LEMMA SlabDeleted ==
  ASSUME NEW h, NEW Y, NEW R, HeapOK(h, Y, R), NEW at \in DOMAIN h.slab, h.slab[at].free = h.slab[at].total
  PROVE  LET g == kmalloc_slab_delete(h, at)
         IN HeapOK(g, Y, R) /\ KeepsUsed(h, g, Y) /\ DOMAIN g.slab = DOMAIN h.slab \ {at}
<1> DEFINE s == h.slab[at]
           row == h.row[s.size]
           place == CHOOSE i \in DOMAIN row : row[i] = at
           f == WithoutSlab(h, at, place)
           hd == s.header
           Z == Y \cup {hd}
<1>1. s.size \in Sizes /\ Cells(at, s.size) \cap (Y \cup Headers(h)) = {}
  BY SlabIs, FullIs
<1>2. place \in DOMAIN row /\ row[place] = at
  <2>1. Lists(row, InRow(h, s.size)) /\ at \in InRow(h, s.size)
    BY <1>1 DEF HeapOK, RowsOK, InRow
  <2> HIDE DEF row, s
  <2>2. \E i \in DOMAIN row : row[i] = at
    BY <2>1, LengthIs DEF Lists, Elements
  <2>. QED
    BY <2>2
<1>3. DOMAIN h = HeapFields /\ DOMAIN h.row = Sizes
  BY DEF HeapOK, ShapeOK, RowsOK, HeapFields
<1> HIDE DEF place
<1>4. SlabRemoved(h, f, at, place)
  BY <1>1, <1>3, SlabRemovedView
<1>5. kmalloc_slab_delete(h, at) = slab_free_item(f, CHOOSE a \in SlabsAround(f, hd) : TRUE, hd)
  BY DEF kmalloc_slab_delete, WithoutSlab, place
<1> HIDE DEF f
<1>6. HeapOK(f, Z, R) /\ hd \notin Y /\ Placed(f, hd, HeaderSize) /\ KeepsUsed(h, f, Y)
  BY <1>1, <1>2, <1>4, RemoveSlab
<1>7. hd \in Z /\ Z \ {hd} = Y
  BY <1>6
<1> HIDE DEF Z, hd
<1>8. PICK a \in DOMAIN f.slab : SlabsAround(f, hd) = {a} /\ hd \in Cells(a, f.slab[a].size)
  BY <1>6, PlacedAround
<1> DEFINE g == slab_free_item(f, a, hd)
<1>9. (CHOOSE b \in SlabsAround(f, hd) : TRUE) = a
  BY <1>8
<1>10. HeapOK(g, Z \ {hd}, R) /\ Keeps(f, g) /\ DOMAIN g.slab = DOMAIN f.slab
  BY <1>6, <1>7, <1>8, GiveHeap
<1> HIDE DEF g
<1>11. kmalloc_slab_delete(h, at) = g
  BY <1>5, <1>9 DEF g
<1>12. KeepsUsed(h, g, Y)
  BY <1>6, <1>10, KeepsPlaced DEF KeepsUsed, Keeps
<1>13. DOMAIN g.slab = DOMAIN h.slab \ {at}
  BY <1>4, <1>10 DEF SlabRemoved
<1>. QED
  BY <1>7, <1>10, <1>11, <1>12, <1>13
-----------------------------------------------------------------------------
(* kmalloc_free_some_pages: what it leaves has no slab it could delete.    *)
NoneFull(h) == \A s \in Sizes : Full(h, s) = {}

(* One deletion of the trimming, if there is one left to do. *)
LEMMA DeletedIs ==
  ASSUME NEW h, NEW Y, NEW R, HeapOK(h, Y, R)
  PROVE  LET g == Deleted(h)
         IN /\ HeapOK(g, Y, R) /\ KeepsUsed(h, g, Y)
            /\ \/ NoneFull(h) /\ g = h
               \/ \E at \in DOMAIN h.slab : DOMAIN g.slab = DOMAIN h.slab \ {at}
<1>1. CASE NoneFull(h)
  BY <1>1 DEF Deleted, NoneFull, KeepsUsed
<1>2. CASE ~NoneFull(h)
  <2> DEFINE S == {s \in Sizes : Full(h, s) # {}}
             size == Min(S)
             i == Min(Full(h, size))
             at == h.row[size][i]
  <2>1. S \in SUBSET Nat /\ S # {}
    BY <1>2, SizeIs DEF NoneFull
  <2>2. size \in S
    BY <2>1, LeastIs
  <2>3. size \in Sizes /\ Full(h, size) # {}
    BY <2>2
  <2>4. FirstFull(h) = at
    BY DEF FirstFull
  <2> HIDE DEF S, size
  <2>5. Full(h, size) \in SUBSET Nat
    BY <2>3, RowSlab DEF Full
  <2>6. i \in Full(h, size)
    BY <2>3, <2>5, LeastIs
  <2> HIDE DEF i
  <2>7. at \in DOMAIN h.slab /\ h.slab[at].free = h.slab[at].total
    BY <2>3, <2>6, RowSlab DEF Full
  <2> HIDE DEF at
  <2> DEFINE g == kmalloc_slab_delete(h, at)
  <2>8. HeapOK(g, Y, R) /\ KeepsUsed(h, g, Y) /\ DOMAIN g.slab = DOMAIN h.slab \ {at}
    BY <2>7, SlabDeleted
  <2>9. Deleted(h) = g
    BY <1>2, <2>4 DEF Deleted, NoneFull
  <2> HIDE DEF g
  <2>. QED
    BY <2>7, <2>8, <2>9
<1>. QED
  BY <1>1, <1>2

(* The heap after each of n turns *)
Turns(h, n, f) == f = [k \in 0 .. n |-> IF k = 0 THEN h ELSE Deleted(f[k - 1])]

(* The turns of the trimming, one by one. *)
LEMMA TurnsAre ==
  ASSUME NEW h, NEW n \in Nat, NEW f, Turns(h, n, f)
  PROVE  DOMAIN f = 0 .. n /\ f[0] = h /\ \A k \in 1 .. n : f[k] = Deleted(f[k - 1])
<1>1. DOMAIN f = 0 .. n
  BY DEF Turns
<1>2. \A k \in 0 .. n : f[k] = IF k = 0 THEN h ELSE Deleted(f[k - 1])
  BY DEF Turns
<1>. QED
  BY <1>1, <1>2

(* There are such turns: no least number of them fails. *)
LEMMA TurnsExist == ASSUME NEW h, NEW n \in Nat PROVE \E f : Turns(h, n, f)
<1> DEFINE S == {m \in Nat : ~\E f : Turns(h, m, f)}
<1>1. S = {}
  <2>1. SUFFICES ASSUME S # {} PROVE FALSE
    OBVIOUS
  <2>2. PICK m \in S : \A j \in S : m <= j
    BY <2>1, LeastIs
  <2>3. m # 0
    <3> DEFINE f == [k \in 0 .. 0 |-> h]
    <3>1. Turns(h, 0, f)
      <4>1. \A k \in 0 .. 0 : k = 0
        OBVIOUS
      <4>. QED
        BY <4>1 DEF Turns
    <3>. QED
      BY <2>2, <3>1
  <2>4. m \in Nat /\ m - 1 \in Nat /\ ~(m <= m - 1)
    BY <2>2, <2>3
  <2>5. PICK f : Turns(h, m - 1, f)
    BY <2>2, <2>4
  <2> DEFINE e == [k \in 0 .. m |-> IF k = m THEN Deleted(f[m - 1]) ELSE f[k]]
  <2>6. DOMAIN f = 0 .. m - 1 /\ f[0] = h /\ \A k \in 1 .. m - 1 : f[k] = Deleted(f[k - 1])
    BY <2>4, <2>5, TurnsAre
  <2>7. DOMAIN e = 0 .. m /\ (\A k \in 0 .. m - 1 : e[k] = f[k]) /\ e[m] = Deleted(f[m - 1])
    BY <2>4
  <2>8. e = [k \in 0 .. m |-> e[k]]
    OBVIOUS
  <2> HIDE DEF e
  <2>9. ASSUME NEW k \in 0 .. m PROVE e[k] = IF k = 0 THEN h ELSE Deleted(e[k - 1])
    <3>1. CASE k = 0
      BY <2>4, <2>6, <2>7, <3>1
    <3>2. CASE k = m
      <4>1. m - 1 \in 0 .. m - 1
        BY <2>4
      <4>. QED
        BY <2>3, <2>7, <3>2, <4>1
    <3>3. CASE k # 0 /\ k # m
      <4>1. k \in 1 .. m - 1 /\ k \in 0 .. m - 1 /\ k - 1 \in 0 .. m - 1
        BY <2>4, <3>3
      <4>. QED
        BY <2>6, <2>7, <3>3, <4>1
    <3>. QED
      BY <3>1, <3>2, <3>3
  <2>10. Turns(h, m, e)
    BY <2>8, <2>9 DEF Turns
  <2>. QED
    BY <2>2, <2>10
<1>. QED
  BY <1>1

(* A heap has finitely many slabs. *)
LEMMA SlabsFinite ==
  ASSUME NEW h, NEW Y, NEW R, HeapOK(h, Y, R)
  PROVE  IsFiniteSet(DOMAIN h.slab) /\ Cardinality(DOMAIN h.slab) \in Nat
<1> DEFINE m == HeapPages * PageBytes
<1>1. m \in Nat
  BY SlabSize
<1>2. SlabPlaces \subseteq 0 .. m
  <2>1. SUFFICES ASSUME NEW p \in 0 .. HeapPages - SlabPages PROVE p * PageBytes \in 0 .. m
    BY DEF SlabPlaces
  <2>2. p \in Nat /\ p <= HeapPages
    BY SlabSize
  <2>3. p * PageBytes \in Nat /\ p * PageBytes <= HeapPages * PageBytes
    BY <2>2, SlabSize, ProductUp
  <2>. QED
    BY <1>1, <2>3
<1> HIDE DEF m
<1>3. IsFiniteSet(0 .. m)
  BY <1>1, FS_Interval
<1>4. DOMAIN h.slab \subseteq 0 .. m
  BY <1>2 DEF HeapOK, ShapeOK
<1>. QED
  BY <1>3, <1>4, FS_Subset, FS_CardinalityType

(* As many turns as there are slabs leave none with its full count. *)
LEMMA TrimmedIs ==
  ASSUME NEW h, NEW Y, NEW R, HeapOK(h, Y, R)
  PROVE  HeapOK(Trimmed(h), Y, R) /\ KeepsUsed(h, Trimmed(h), Y) /\ NoneFull(Trimmed(h))
<1> DEFINE n == Cardinality(DOMAIN h.slab)
           f == CHOOSE g : Turns(h, n, g)
           Left(k) == Cardinality(DOMAIN f[k].slab)
           J(k) == HeapOK(f[k], Y, R) /\ KeepsUsed(h, f[k], Y) /\ (NoneFull(f[k]) \/ Left(k) + k <= n)
           S == {k \in 0 .. n : ~J(k)}
<1>1. n \in Nat
  BY SlabsFinite
<1>2. Trimmed(h) = f[n]
  BY DEF Trimmed, Turns
<1>3. Turns(h, n, f)
  BY <1>1, TurnsExist
<1> HIDE DEF n, f
<1>4. f[0] = h /\ \A k \in 1 .. n : f[k] = Deleted(f[k - 1])
  BY <1>1, <1>3, TurnsAre
<1>5. J(0)
  BY <1>1, <1>4 DEF KeepsUsed, n
<1>6. ASSUME NEW k \in 1 .. n, J(k - 1) PROVE J(k)
  <2> DEFINE e == f[k - 1]
             g == f[k]
  <2>1. g = Deleted(e) /\ HeapOK(e, Y, R)
    BY <1>4, <1>6
  <2>2. /\ HeapOK(g, Y, R) /\ KeepsUsed(e, g, Y)
        /\ \/ NoneFull(e) /\ g = e
           \/ \E at \in DOMAIN e.slab : DOMAIN g.slab = DOMAIN e.slab \ {at}
    BY <2>1, DeletedIs
  <2>3. KeepsUsed(h, e, Y) /\ (NoneFull(e) \/ Left(k - 1) + (k - 1) <= n)
    BY <1>6
  <2>4. KeepsUsed(h, g, Y)
    BY <2>2, <2>3 DEF KeepsUsed
  <2>5. CASE NoneFull(e)
    <3>1. g = e
      BY <2>1, <2>5 DEF Deleted, NoneFull
    <3>. QED
      BY <2>2, <2>4, <2>5, <3>1
  <2>6. CASE ~NoneFull(e)
    <3>1. PICK at \in DOMAIN e.slab : DOMAIN g.slab = DOMAIN e.slab \ {at}
      BY <2>2, <2>6
    <3>2. Cardinality(DOMAIN g.slab) = Cardinality(DOMAIN e.slab) - 1 /\ Cardinality(DOMAIN e.slab) \in Nat
      <4> DEFINE D == DOMAIN e.slab
      <4>1. IsFiniteSet(D) /\ Cardinality(D) \in Nat /\ at \in D
        BY <2>1, SlabsFinite
      <4>2. Cardinality(D \ {at}) = Cardinality(D) - 1
        <5> HIDE DEF D
        <5>. QED
          BY <4>1, FS_RemoveElement
      <4>. QED
        BY <3>1, <4>1, <4>2
    <3>3. Left(k) + k <= n
      <4> DEFINE c == Cardinality(DOMAIN e.slab)
                 d == Cardinality(DOMAIN g.slab)
      <4>1. c + (k - 1) <= n /\ d = c - 1 /\ c \in Nat
        BY <2>3, <2>6, <3>2
      <4> HIDE DEF c, d
      <4>2. d + k <= n
        BY <1>1, <4>1
      <4>. QED
        BY <4>2 DEF d
    <3>. QED
      BY <2>2, <2>4, <3>3
  <2>. QED
    BY <2>5, <2>6
<1> HIDE DEF J
<1>7. S = {}
  <2>1. SUFFICES ASSUME S # {} PROVE FALSE
    OBVIOUS
  <2>2. PICK m \in S : \A j \in S : m <= j
    <3>1. S \in SUBSET Nat
      BY <1>1
    <3>. QED
      BY <2>1, <3>1, LeastIs
  <2>3. m \in 1 .. n /\ m - 1 \in 0 .. n /\ ~(m <= m - 1)
    BY <1>1, <1>5, <2>2
  <2>4. J(m - 1)
    BY <2>2, <2>3
  <2>. QED
    BY <1>6, <2>2, <2>3, <2>4
<1>8. J(n)
  BY <1>1, <1>7
<1> DEFINE g == f[n]
<1>9. HeapOK(g, Y, R) /\ KeepsUsed(h, g, Y) /\ (NoneFull(g) \/ Left(n) + n <= n)
  BY <1>8 DEF J
<1>10. ASSUME ~NoneFull(g) PROVE FALSE
  <2>1. IsFiniteSet(DOMAIN g.slab) /\ Cardinality(DOMAIN g.slab) \in Nat
    BY <1>9, SlabsFinite
  <2>2. Cardinality(DOMAIN g.slab) = 0
    BY <1>1, <1>9, <1>10, <2>1
  <2>3. DOMAIN g.slab = {}
    BY <2>1, <2>2, FS_EmptySet
  <2> HIDE DEF g
  <2>4. \A s \in Sizes : Full(g, s) = {}
    BY <1>9, <2>3, RowSlab DEF Full
  <2>. QED
    BY <1>10, <2>4 DEF NoneFull
<1>. QED
  BY <1>2, <1>9, <1>10
-----------------------------------------------------------------------------
(* kmalloc_init: a slab of headers, whose first items are the row headers. *)
LEMMA FirstList ==
  LET n == Cardinality(Sizes)
      tail == Tail(Items(0, HeaderSize))
      list == SubSeq(tail, n + 1, Len(tail))
  IN  /\ Lists(list, Cells(0, HeaderSize) \ (RowHeaders \cup {0})) /\ Len(list) = Count(HeaderSize) - 1 - n
      /\ RowHeaders \subseteq Cells(0, HeaderSize) /\ 0 \notin RowHeaders
<1> DEFINE n == Cardinality(Sizes)
           s == HeaderSize
           c == Count(s)
           items == Items(0, s)
           tail == Tail(items)
           list == SubSeq(tail, n + 1, Len(tail))
<1>1. n \in Nat \ {0} /\ c \in Nat /\ n + 2 <= c /\ s \in Nat \ {0}
  BY NamedSizes, SizeIs
<1>2. items = [k \in 1 .. c |-> 0 + (k - 1) * s]
  BY DEF Items, Count
<1>3. RowHeaders = {s * k : k \in 1 .. n} /\ Cells(0, s) = {0 + k * s : k \in 0 .. c - 1}
  BY DEF RowHeaders, Cells
<1> HIDE DEF n, c, s
<1>4. /\ items \in Seq(Nat) /\ Len(items) = c
      /\ \A k \in 1 .. c : items[k] = 0 + (k - 1) * s
  <2>1. \A k \in 1 .. c : 0 + (k - 1) * s \in Nat
    BY <1>1
  <2> HIDE DEF items
  <2>. QED
    BY <1>1, <1>2, <2>1
<1> HIDE DEF items
<1>5. /\ tail \in Seq(Nat) /\ Len(tail) = c - 1
      /\ \A k \in 1 .. c - 1 : tail[k] = items[k + 1]
  BY <1>1, <1>4
<1> HIDE DEF tail
<1>6. /\ list \in Seq(Nat) /\ Len(list) = c - 1 - n
      /\ \A k \in 1 .. c - 1 - n : list[k] = tail[n + k]
  BY <1>1, <1>5
<1> HIDE DEF list
<1>7. ASSUME NEW k \in 1 .. c - 1 - n PROVE list[k] = (n + k) * s /\ n + k \in 0 .. c - 1 /\ n + k \notin 0 .. n
  <2>1. n + k \in 1 .. c - 1 /\ (n + k) + 1 \in 1 .. c /\ ((n + k) + 1) - 1 = n + k /\ n + k \notin 0 .. n
    BY <1>1
  <2>2. list[k] = 0 + (n + k) * s
    BY <1>4, <1>5, <1>6, <2>1
  <2>3. (n + k) * s \in Nat
    BY <1>1, <2>1
  <2>. QED
    BY <2>1, <2>2, <2>3
<1>8. \A k, l \in Nat : k * s = l * s => k = l
  BY <1>1
<1>9. \A k \in Nat : s * k = k * s /\ 0 + k * s = k * s /\ k * s \in Nat
  BY <1>1
<1>10. 0 * s = 0
  BY <1>1
<1>11. \A k \in Nat : k * s \in RowHeaders \cup {0} <=> k \in 0 .. n
  <2>1. SUFFICES ASSUME NEW k \in Nat PROVE k * s \in RowHeaders \cup {0} <=> k \in 0 .. n
    OBVIOUS
  <2>2. k * s = 0 <=> k = 0
    BY <1>8, <1>10
  <2>3. k * s \in RowHeaders <=> \E j \in 1 .. n : k * s = j * s
    BY <1>1, <1>3, <1>9
  <2>4. (\E j \in 1 .. n : k * s = j * s) <=> k \in 1 .. n
    BY <1>1, <1>8
  <2>. QED
    BY <1>1, <2>2, <2>3, <2>4
<1> DEFINE S == Cells(0, s) \ (RowHeaders \cup {0})
<1>12. ASSUME NEW k \in 1 .. c - 1 - n PROVE list[k] \in S
  <2>1. n + k \in Nat /\ n + k \in 0 .. c - 1
    BY <1>1, <1>7
  <2>2. (n + k) * s \in Cells(0, s)
    BY <1>3, <1>9, <2>1
  <2>. QED
    BY <1>7, <1>11, <2>1, <2>2
<1>13. ASSUME NEW x \in S PROVE x \in Elements(list)
  <2>1. PICK k \in 0 .. c - 1 : x = 0 + k * s
    BY <1>3
  <2>2. k \in Nat /\ k \notin 0 .. n /\ x = k * s
    BY <1>1, <1>9, <1>11, <2>1
  <2>3. k - n \in 1 .. c - 1 - n /\ n + (k - n) = k
    BY <1>1, <2>1, <2>2
  <2>4. list[k - n] = x
    BY <1>7, <2>2, <2>3
  <2>. QED
    BY <1>6, <2>3, <2>4, ElementOf
<1>14. Once(list)
  <2>1. SUFFICES ASSUME NEW k \in 1 .. Len(list), NEW l \in 1 .. Len(list), list[k] = list[l] PROVE k = l
    BY DEF Once
  <2>2. (n + k) * s = (n + l) * s /\ n + k \in Nat /\ n + l \in Nat
    BY <1>1, <1>6, <1>7, <2>1
  <2>3. n + k = n + l
    BY <1>8, <2>2
  <2>. QED
    BY <1>1, <1>6, <2>3
<1> HIDE DEF S
<1>15. Lists(list, S)
  <2>1. list \in Seq(S)
    BY <1>6, <1>12, InSeq
  <2>2. Elements(list) = S
    BY <1>6, <1>12, <1>13 DEF Elements
  <2>. QED
    BY <1>14, <2>1, <2>2 DEF Lists
<1>16. 0 \notin RowHeaders /\ RowHeaders \subseteq Cells(0, s)
  <2>1. ASSUME NEW k \in 1 .. n PROVE s * k # 0 /\ s * k \in Cells(0, s)
    <3>1. k \in 0 .. c - 1 /\ k \in Nat /\ k # 0
      BY <1>1
    <3>2. k * s # 0
      BY <1>8, <1>10, <3>1
    <3>. QED
      BY <1>3, <1>9, <3>1, <3>2
  <2>. QED
    BY <1>3, <2>1
<1>. QED
  BY <1>6, <1>15, <1>16 DEF list, tail, items, s, c, n, S

(* Nothing mapped, no slab. *)
LEMMA EmptyHeap ==
  HeapOK([slab |-> [a \in {} |-> Nil], row |-> [s \in Sizes |-> <<>>], special |-> <<>>, mapped |-> {}], {}, {})
<1> DEFINE h == [slab |-> [a \in {} |-> Nil], row |-> [s \in Sizes |-> <<>>], special |-> <<>>, mapped |-> {}]
<1>1. DOMAIN h = HeapFields /\ DOMAIN h.slab = {} /\ h.row = [s \in Sizes |-> <<>>] /\ h.mapped = {}
  BY DEF HeapFields
<1> HIDE DEF h
<1>2. ShapeOK(h) /\ ListsOK(h, {}) /\ HeadersOK(h) /\ ItemsOK(h, {})
  BY <1>1 DEF ShapeOK, ListsOK, HeadersOK, ItemsOK, HeapFields
<1>3. PagesOfSlabs(h) = {} /\ \A s : InRow(h, s) = {}
  BY <1>1 DEF PagesOfSlabs, InRow
<1>4. PagesOK(h, {})
  BY <1>1, <1>3 DEF PagesOK
<1>5. Lists(<<>>, {})
  BY DEF Lists, Elements, Once
<1>6. RowsOK(h)
  BY <1>1, <1>3, <1>5 DEF RowsOK
<1>. QED
  BY <1>2, <1>4, <1>6 DEF HeapOK, h

(* kmalloc_init. *)
LEMMA InitSound == Init => IInv
<1> SUFFICES ASSUME Init PROVE IInv
  OBVIOUS
<1> DEFINE n == Cardinality(Sizes)
           none == [slab |-> [a \in {} |-> Nil], row |-> [s \in Sizes |-> <<>>], special |-> <<>>, mapped |-> {}]
           first == Linked(NewHeaderSlab(none, 0), HeaderSize, 0)
           av == Tail(Items(0, HeaderSize))
           list == SubSeq(av, n + 1, Len(av))
           m == Count(HeaderSize) - 2 - n
<1>1. /\ heap = [first EXCEPT !.slab[0].free = @ - n, !.slab[0].avail = SubSeq(@, n + 1, Len(@))]
      /\ objs = {} /\ fault = FALSE
  BY DEF Init
<1>2. 0 \in SlabPlaces /\ PagesOf(0, SlabPages) \cap none.mapped = {}
  <2>1. 0 \in 0 .. HeapPages - SlabPages /\ 0 * PageBytes = 0
    BY SlabSize
  <2>. QED
    BY <2>1 DEF SlabPlaces
<1>3. HeapOK(none, {}, {})
  BY EmptyHeap
<1>4. slab_create(none, 0, SlabPages).slab = none.slab /\ slab_create(none, 0, SlabPages).special = <<>> /\ none.slab = [a \in {} |-> Nil]
  BY DEF slab_create
<1> HIDE DEF none
<1>5. /\ HeapOK(first, {}, {})
      /\ SlabAdded(slab_create(none, 0, SlabPages), first, HeaderSize, 0, 0, av, Count(HeaderSize) - 2)
  BY <1>2, <1>3, HeaderSlabIs
<1> HIDE DEF first
<1>6. /\ DOMAIN first = HeapFields /\ DOMAIN first.slab = {0} /\ DOMAIN first.slab[0] = SlabFields
      /\ first.slab[0].size = HeaderSize /\ first.slab[0].header = 0 /\ first.slab[0].avail = av
      /\ first.slab[0].free = Count(HeaderSize) - 2 /\ first.special = <<>>
  BY <1>4, <1>5 DEF SlabAdded
<1>7. Headers(first) = {0} /\ \A x \in Cells(0, HeaderSize) : Placed(first, x, HeaderSize)
  BY <1>6 DEF Headers, Placed
<1>8. /\ Lists(list, Cells(0, HeaderSize) \ (RowHeaders \cup {0})) /\ Len(list) = Count(HeaderSize) - 1 - n
      /\ RowHeaders \subseteq Cells(0, HeaderSize) /\ 0 \notin RowHeaders
  BY FirstList
<1>9. m \in Nat /\ Count(HeaderSize) - 1 - n = m + 1
  BY NamedSizes, SizeIs
<1> HIDE DEF av
<1>10. heap = [first EXCEPT !.slab[0].free = m, !.slab[0].avail = list]
  BY <1>1, <1>6 DEF HeapFields, SlabFields
<1> HIDE DEF list, m
<1>11. OneListChanged(first, heap, 0, list, m)
  BY <1>6, <1>10, ListView
<1>12. ListFor(first, {}, RowHeaders, 0, list, m)
  BY <1>6, <1>7, <1>8, <1>9, NamedSizes DEF ListFor
<1>13. HeapOK(heap, RowHeaders, {}) /\ Keeps(first, heap)
  BY <1>5, <1>6, <1>11, <1>12, ListChanged
<1>14. heap.special = <<>> /\ \A r \in RowHeaders : Placed(heap, r, HeaderSize)
  BY <1>6, <1>7, <1>8, <1>13, KeepsPlaced DEF Keeps
<1>15. Records(heap) = {} /\ PagesOfSpecial(heap) = {} /\ Small(objs) = {}
  BY <1>1, <1>14 DEF Records, PagesOfSpecial, Small
<1>16. InUse(heap, objs) = RowHeaders
  BY <1>15 DEF InUse
<1>17. SpecialOK(heap)
  BY <1>14 DEF SpecialOK
<1>18. ObjectsOK(heap, objs)
  BY <1>1 DEF ObjectsOK
<1>19. ApartOK(heap, objs)
  BY <1>14, <1>15 DEF ApartOK
<1>. QED
  BY <1>1, <1>13, <1>15, <1>16, <1>17, <1>18, <1>19 DEF IInv, Sound
-----------------------------------------------------------------------------
(* Every step leaves the heap sound. *)
LEMMA KmallocStep ==
  ASSUME IInv, NEW size \in Requests, kmalloc(size)
  PROVE  IInv'
<1>1. PICK u \in Alloc(heap, size) :
        heap' = u.heap /\ objs' = IF u.item = Nil THEN objs ELSE objs \cup {[at |-> u.item, size |-> size]}
  BY DEF kmalloc
<1>2. fault' = fault /\ fault \in BOOLEAN /\ Sound(heap, objs) /\ size \in Nat
  BY KmallocAssumption DEF kmalloc, IInv
<1> DEFINE Y == InUse(heap, objs)
           R == PagesOfSpecial(heap)
<1>3. HeapOK(heap, Y, R)
  BY <1>2 DEF Sound
<1> HIDE DEF Y, R
<1>4. CASE size <= SlabBytes
  <2>1. RowOf(size) \in Sizes /\ ~(size > SlabBytes)
    BY <1>2, <1>4, SlabSize, RowOfIs
  <2>2. u \in AllocItem(heap, RowOf(size))
    BY <2>1 DEF Alloc
  <2>3. CASE ItemTaken(heap, u, Y, R, RowOf(size))
    <3>1. HeapOK(u.heap, Y \cup {u.item}, R) /\ Placed(u.heap, u.item, RowOf(size))
      BY <2>3 DEF ItemTaken
    <3>2. u.item \in Nat
      <4> DEFINE Z == Y \cup {u.item}
      <4> HIDE DEF Z
      <4>1. HeapOK(u.heap, Z, R)
        BY <3>1 DEF Z
      <4>. QED
        BY <3>1, <4>1, PlacedIs
    <3>3. u.item # Nil
      BY <3>2 DEF Nil
    <3>4. Sound(u.heap, objs \cup {[at |-> u.item, size |-> size]})
      BY <1>2, <1>4, <2>3, SmallTaken DEF Y, R
    <3>. QED
      BY <1>1, <1>2, <3>3, <3>4 DEF IInv
  <2>4. CASE u.item = Nil /\ HeapOK(u.heap, Y, R) /\ Keeps(heap, u.heap)
    <3>1. KeepsUsed(heap, u.heap, Y)
      BY <2>4, KeepsPlaced DEF KeepsUsed, Keeps
    <3>2. Sound(u.heap, objs)
      BY <1>2, <2>4, <3>1, KeptSound DEF Y, R
    <3>. QED
      BY <1>1, <1>2, <2>4, <3>2 DEF IInv
  <2>. QED
    BY <1>3, <2>1, <2>2, <2>3, <2>4, AllocItemIs
<1>5. CASE ~(size <= SlabBytes)
  <2> DEFINE n == PagesNeeded(size)
  <2>1. size > SlabBytes /\ n \in Nat \ {0}
    BY <1>2, <1>5, SlabSize, PagesNeededIs
  <2>2. Alloc(heap, size) = AllocSpecial(heap, size)
    BY <2>1 DEF Alloc
  <2>3. PICK at \in Places(heap, n) :
          \E o \in AllocItem(slab_create(heap, at, n), RecordSize) :
             u = [heap |-> [o.heap EXCEPT !.special = <<[data |-> at, pages |-> n, rec |-> o.item]>> \o @], item |-> at]
    BY <2>2 DEF AllocSpecial
  <2>4. PICK o \in AllocItem(slab_create(heap, at, n), RecordSize) :
             u = [heap |-> [o.heap EXCEPT !.special = <<[data |-> at, pages |-> n, rec |-> o.item]>> \o @], item |-> at]
    BY <2>3
  <2> HIDE DEF n
  <2> DEFINE f == slab_create(heap, at, n)
             S == R \cup PagesOf(at, n)
  <2>5. HeapOK(f, Y, S) /\ at \in Nat
    <3>1. PagesOf(at, n) \cap heap.mapped = {} /\ PagesOf(at, n) \subseteq 0 .. HeapPages - 1 /\ at \in Nat
      <4>1. PagesOf(at, n) \cap heap.mapped = {} /\ PagesOf(at, n) \subseteq 0 .. HeapPages - 1
            /\ at \in {p * PageBytes : p \in 0 .. HeapPages - 1}
        BY <2>1, PlacesAre
      <4>2. at \in Nat
        BY <4>1, SlabSize, PagesAre
      <4>. QED
        BY <4>1, <4>2
    <3>2. HeapOK(f, Y, S)
      BY <1>3, <3>1, CreateHeap
    <3>. QED
      BY <3>1, <3>2
  <2> HIDE DEF S, f
  <2>6. ItemTaken(f, o, Y, S, RecordSize)
    <3>1. RecordSize # SlabBytes /\ RecordSize \in Sizes
      BY KmallocAssumption
    <3>. QED
      BY <2>5, <3>1, AllocItemIs DEF f
  <2>7. Sound(u.heap, objs \cup {[at |-> at, size |-> size]})
    BY <1>2, <2>1, <2>4, <2>6, BigTaken DEF f, S, n, Y, R
  <2>8. u.item = at /\ at # Nil
    BY <2>4, <2>5 DEF Nil
  <2>. QED
    BY <1>1, <1>2, <2>7, <2>8 DEF IInv
<1>. QED
  BY <1>4, <1>5

(* kfree of what a caller holds never panics and keeps the heap sound. *)
LEMMA KfreeStep ==
  ASSUME IInv, NEW obj \in objs, kfree(obj)
  PROVE  IInv'
<1> DEFINE around == SlabsAround(heap, obj.at)
           special == {i \in DOMAIN heap.special : heap.special[i].data = obj.at}
<1>1. /\ objs' = objs \ {obj} /\ Sound(heap, objs) /\ fault \in BOOLEAN
      /\ \/ around # {} /\ heap' = slab_free_item(heap, CHOOSE at \in around : TRUE, obj.at) /\ fault' = fault
         \/ around = {} /\ special # {} /\ fault' = fault
            /\ heap' = special_delete(heap, CHOOSE i \in special : \A j \in special : i <= j)
         \/ around = {} /\ special = {}
  BY DEF kfree, IInv
<1>2. CASE obj.size <= SlabBytes
  <2>1. around # {} /\ Sound(slab_free_item(heap, CHOOSE at \in around : TRUE, obj.at), objs \ {obj})
    BY <1>1, <1>2, SmallGiven
  <2>2. heap' = slab_free_item(heap, CHOOSE at \in around : TRUE, obj.at) /\ fault' = fault
    BY <1>1, <2>1
  <2>. QED
    BY <1>1, <2>1, <2>2 DEF IInv
<1>3. CASE ~(obj.size <= SlabBytes)
  <2>1. around = {}
    BY <1>1, <1>3, BigIs
  <2>2. PICK i \in DOMAIN heap.special :
          /\ heap.special[i].data = obj.at /\ heap.special[i].pages = PagesNeeded(obj.size)
          /\ \A j \in DOMAIN heap.special : heap.special[j].data = obj.at => j = i
    BY <1>1, <1>3, BigIs
  <2>3. special = {i} /\ i \in Nat
    <3>1. i \in Nat
      BY <1>1, LengthIs DEF Sound, SpecialOK
    <3>. QED
      BY <2>2, <3>1
  <2>4. (CHOOSE k \in special : \A j \in special : k <= j) = i
    BY <2>3
  <2>5. heap' = special_delete(heap, i) /\ fault' = fault
    BY <1>1, <2>1, <2>3, <2>4
  <2>6. Sound(special_delete(heap, i), objs \ {obj})
    BY <1>1, <1>3, <2>2, BigGiven
  <2>. QED
    BY <1>1, <2>5, <2>6 DEF IInv
<1>. QED
  BY <1>2, <1>3

(* kmalloc_free_some_pages. *)
LEMMA TrimStep ==
  ASSUME IInv, kmalloc_free_some_pages
  PROVE  IInv' /\ NoneFull(heap')
<1>1. heap' = Trimmed(heap) /\ objs' = objs /\ fault' = fault /\ Sound(heap, objs) /\ fault \in BOOLEAN
  BY DEF kmalloc_free_some_pages, IInv
<1> DEFINE Y == InUse(heap, objs)
           R == PagesOfSpecial(heap)
<1>2. HeapOK(heap, Y, R)
  BY <1>1 DEF Sound
<1>3. HeapOK(Trimmed(heap), Y, R) /\ KeepsUsed(heap, Trimmed(heap), Y) /\ NoneFull(Trimmed(heap))
  BY <1>2, TrimmedIs
<1>4. Sound(Trimmed(heap), objs)
  BY <1>1, <1>3, KeptSound
<1>. QED
  BY <1>1, <1>3, <1>4 DEF IInv

(* The inductive invariant: the heap is in order after every call. *)
THEOREM HeapInvariance == Spec => []IInv
<1>1. Init => IInv
  BY InitSound
<1>2. IInv /\ [Next]_vars => IInv'
  <2>1. SUFFICES ASSUME IInv, [Next]_vars PROVE IInv'
    OBVIOUS
  <2>2. ASSUME NEW size \in Requests, kmalloc(size) PROVE IInv'
    BY <2>1, <2>2, KmallocStep
  <2>3. ASSUME NEW size \in Requests, OutOfMemory(size) PROVE IInv'
    BY <2>1, <2>3 DEF OutOfMemory, IInv
  <2>4. ASSUME NEW obj \in objs, kfree(obj) PROVE IInv'
    BY <2>1, <2>4, KfreeStep
  <2>5. CASE kmalloc_free_some_pages
    BY <2>1, <2>5, TrimStep
  <2>6. CASE UNCHANGED vars
    BY <2>1, <2>6 DEF vars, IInv
  <2>. QED
    BY <2>1, <2>2, <2>3, <2>4, <2>5, <2>6 DEF Next
<1>. QED
  BY <1>1, <1>2, PTL DEF Spec
-----------------------------------------------------------------------------
(* The pieces of the heap: each is in an item of a slab, or is a block.    *)
InCell(u, a) == a \in DOMAIN heap.slab /\ u.at \in Cells(a, heap.slab[a].size) /\ u.size <= heap.slab[a].size
IsBlock(u, i) == /\ i \in DOMAIN heap.special /\ u.at = heap.special[i].data
                 /\ u.size <= heap.special[i].pages * PageBytes

(* An item on a list is not in use. *)
LEMMA FreeIs ==
  ASSUME IInv, NEW u \in FreeItems
  PROVE  \E a \in DOMAIN heap.slab : /\ u = [at |-> u.at, size |-> heap.slab[a].size, use |-> "free"]
                                     /\ u.at \in Cells(a, heap.slab[a].size)
                                     /\ u.at \notin InUse(heap, objs) \cup Headers(heap)
<1> DEFINE X == InUse(heap, objs) \cup Headers(heap)
<1>1. PICK a \in DOMAIN heap.slab : u \in {[at |-> heap.slab[a].avail[i], size |-> heap.slab[a].size, use |-> "free"] :
                                             i \in DOMAIN heap.slab[a].avail}
  BY DEF FreeItems
<1> DEFINE s == heap.slab[a].avail
           S == Cells(a, heap.slab[a].size) \ X
<1>2. PICK i \in DOMAIN s : u = [at |-> s[i], size |-> heap.slab[a].size, use |-> "free"]
  BY <1>1
<1>3. Lists(s, S)
  BY DEF IInv, Sound, HeapOK, ListsOK, SlabOK
<1> HIDE DEF s, S
<1>4. s[i] \in S
  BY <1>3 DEF Lists
<1>. QED
  BY <1>2, <1>4 DEF S

(* A piece lies in an item of a slab or in a block. *)
LEMMA PieceIs ==
  ASSUME IInv, NEW u \in Used \cup FreeItems
  PROVE  /\ u.at \in Nat /\ u.size \in Nat
         /\ (\E a : InCell(u, a)) \/ (\E i : IsBlock(u, i))
<1>1. /\ HeapOK(heap, InUse(heap, objs), PagesOfSpecial(heap)) /\ SpecialOK(heap)
      /\ ObjectsOK(heap, objs) /\ ApartOK(heap, objs) /\ HeadersOK(heap)
  BY DEF IInv, Sound, HeapOK
<1>2. HeaderSize \in Nat /\ RecordSize \in Nat
  BY NamedSizes, SizeIs
<1>3. ASSUME NEW s \in Sizes, Placed(heap, u.at, s), u.size \in Nat, u.size <= s
      PROVE  u.at \in Nat /\ \E a : InCell(u, a)
  BY <1>1, <1>3, PlacedIs DEF Placed, InCell
<1>4. CASE \E o \in objs : u = [at |-> o.at, size |-> o.size, use |-> "object"]
  <2>1. PICK o \in objs : u = [at |-> o.at, size |-> o.size, use |-> "object"]
    BY <1>4
  <2>2. u.at = o.at /\ u.size = o.size /\ o.size \in Nat
    BY <1>1, <2>1, KmallocAssumption DEF ObjectsOK
  <2>3. CASE o.size <= SlabBytes
    <3>1. RowOf(o.size) \in Sizes /\ u.size <= RowOf(o.size) /\ Placed(heap, u.at, RowOf(o.size))
      BY <1>1, <2>2, <2>3, RowOfIs DEF ObjectsOK
    <3>. QED
      BY <1>3, <2>2, <3>1
  <2>4. CASE ~(o.size <= SlabBytes)
    <3>1. PICK i \in DOMAIN heap.special : heap.special[i].data = o.at /\ heap.special[i].pages = PagesNeeded(o.size)
      BY <1>1, <2>4 DEF ObjectsOK
    <3>2. o.size # 0
      BY <2>4, SlabSize
    <3>3. u.size <= heap.special[i].pages * PageBytes
      BY <2>2, <3>1, <3>2, PagesNeededIs
    <3>4. u.at \in Nat
      BY <1>1, <2>2 DEF ObjectsOK
    <3>. QED
      BY <2>2, <3>1, <3>3, <3>4 DEF IsBlock
  <2>. QED
    BY <2>3, <2>4
<1>5. CASE \E a \in DOMAIN heap.slab : u = [at |-> heap.slab[a].header, size |-> HeaderSize, use |-> "header"]
  <2>1. Placed(heap, u.at, HeaderSize) /\ u.size = HeaderSize
    BY <1>1, <1>5 DEF HeadersOK
  <2>. QED
    BY <1>2, <1>3, <2>1, NamedSizes
<1>6. CASE \E r \in RowHeaders : u = [at |-> r, size |-> HeaderSize, use |-> "row"]
  <2>1. Placed(heap, u.at, HeaderSize) /\ u.size = HeaderSize
    BY <1>1, <1>6 DEF ApartOK
  <2>. QED
    BY <1>2, <1>3, <2>1, NamedSizes
<1>7. CASE \E i \in DOMAIN heap.special : u = [at |-> heap.special[i].rec, size |-> RecordSize, use |-> "record"]
  <2>1. Placed(heap, u.at, RecordSize) /\ u.size = RecordSize
    BY <1>1, <1>7 DEF SpecialOK
  <2>. QED
    BY <1>2, <1>3, <2>1, NamedSizes
<1>8. CASE u \in FreeItems
  <2>1. PICK a \in DOMAIN heap.slab : u = [at |-> u.at, size |-> heap.slab[a].size, use |-> "free"]
                                      /\ u.at \in Cells(a, heap.slab[a].size)
    BY <1>8, FreeIs
  <2>2. u.size = heap.slab[a].size /\ heap.slab[a].size \in Sizes
    BY <1>1, <2>1, SlabIs
  <2>3. u.size \in Nat /\ u.size <= heap.slab[a].size
    BY <2>2, SizeIs
  <2>4. Placed(heap, u.at, heap.slab[a].size)
    BY <2>1 DEF Placed
  <2>. QED
    BY <1>3, <2>2, <2>3, <2>4
<1>. QED
  BY <1>4, <1>5, <1>6, <1>7, <1>8 DEF Used

(* What is in use, and the free items, begin at different addresses. *)
LEMMA PieceOnce ==
  ASSUME IInv, NEW u \in Used \cup FreeItems, NEW v \in Used \cup FreeItems, u.at = v.at
  PROVE  u = v
<1>1. /\ HeapOK(heap, InUse(heap, objs), PagesOfSpecial(heap)) /\ SpecialOK(heap) /\ HeadersOK(heap)
      /\ ItemsOK(heap, InUse(heap, objs)) /\ ObjectsOK(heap, objs) /\ ApartOK(heap, objs)
  BY DEF IInv, Sound, HeapOK
<1> DEFINE Big == {o.at : o \in {x \in objs : ~(x.size <= SlabBytes)}}
           Free == {x.at : x \in FreeItems}
           Row == RowHeaders
           Rec == Records(heap)
           Head1 == Headers(heap)
           Sm == Small(objs)
<1>2. \A x \in Sm \cup Head1 \cup Row \cup Rec \cup Free : \E s : Placed(heap, x, s)
  <2>1. \A x \in Sm \cup Row \cup Rec : \E s : Placed(heap, x, s)
    BY <1>1 DEF ItemsOK, InUse
  <2>2. \A x \in Head1 : \E s : Placed(heap, x, s)
    BY <1>1 DEF HeadersOK, Headers
  <2>3. \A x \in Free : \E s : Placed(heap, x, s)
    BY FreeIs DEF Placed
  <2>. QED
    BY <2>1, <2>2, <2>3
<1>3. \A x \in Big : \A s : ~Placed(heap, x, s)
  <2>1. SUFFICES ASSUME NEW o \in objs, ~(o.size <= SlabBytes), NEW s, Placed(heap, o.at, s) PROVE FALSE
    OBVIOUS
  <2>2. PICK i \in DOMAIN heap.special : heap.special[i].data = o.at
    BY <1>1, <2>1 DEF ObjectsOK
  <2>. QED
    BY <1>1, <2>1, <2>2, BlockIs
<1>4. /\ Sm \cap Head1 = {} /\ Row \cap Head1 = {} /\ Rec \cap Head1 = {}
      /\ Row \cap Rec = {} /\ Row \cap Sm = {} /\ Rec \cap Sm = {}
  BY <1>1 DEF ItemsOK, InUse, ApartOK
<1>5. Free \cap (Sm \cup Row \cup Rec \cup Head1) = {}
  BY FreeIs DEF InUse
<1>6. Big \cap (Sm \cup Head1 \cup Row \cup Rec \cup Free) = {}
  BY <1>2, <1>3
<1>7. ASSUME NEW w \in Used \cup FreeItems
      PROVE  \/ w.use = "object" /\ w.at \in Sm \cup Big /\ \E o \in objs : w = [at |-> o.at, size |-> o.size, use |-> "object"]
             \/ w.at \in Head1 /\ w = [at |-> w.at, size |-> HeaderSize, use |-> "header"]
             \/ w.at \in Row /\ w = [at |-> w.at, size |-> HeaderSize, use |-> "row"]
             \/ w.at \in Rec /\ w = [at |-> w.at, size |-> RecordSize, use |-> "record"]
             \/ w.at \in Free /\ w \in FreeItems
  <2>1. CASE \E o \in objs : w = [at |-> o.at, size |-> o.size, use |-> "object"]
    BY <2>1 DEF Small
  <2>2. CASE \E a \in DOMAIN heap.slab : w = [at |-> heap.slab[a].header, size |-> HeaderSize, use |-> "header"]
    BY <2>2 DEF Headers
  <2>3. CASE \E r \in RowHeaders : w = [at |-> r, size |-> HeaderSize, use |-> "row"]
    BY <2>3
  <2>4. CASE \E i \in DOMAIN heap.special : w = [at |-> heap.special[i].rec, size |-> RecordSize, use |-> "record"]
    BY <2>4 DEF Records
  <2>5. CASE w \in FreeItems
    BY <2>5
  <2>. QED
    BY <2>1, <2>2, <2>3, <2>4, <2>5 DEF Used
<1> DEFINE x == u.at
<1> HIDE DEF Big, Free, Row, Rec, Head1, Sm
<1>8. CASE x \in Sm \cup Big
  <2>1. x \notin Head1 /\ x \notin Row /\ x \notin Rec /\ x \notin Free
    BY <1>4, <1>5, <1>6, <1>8
  <2>2. PICK o \in objs : u = [at |-> o.at, size |-> o.size, use |-> "object"]
    BY <1>7, <2>1
  <2>3. PICK p \in objs : v = [at |-> p.at, size |-> p.size, use |-> "object"]
    BY <1>7, <2>1
  <2>4. o.at = p.at
    BY <2>2, <2>3
  <2>. QED
    BY <1>1, <2>2, <2>3, <2>4 DEF ObjectsOK
<1>9. CASE x \in Head1
  <2>1. x \notin Sm \cup Big /\ x \notin Row /\ x \notin Rec /\ x \notin Free
    BY <1>4, <1>5, <1>6, <1>9
  <2>. QED
    BY <1>7, <2>1
<1>10. CASE x \in Row
  <2>1. x \notin Sm \cup Big /\ x \notin Head1 /\ x \notin Rec /\ x \notin Free
    BY <1>4, <1>5, <1>6, <1>10
  <2>. QED
    BY <1>7, <2>1
<1>11. CASE x \in Rec
  <2>1. x \notin Sm \cup Big /\ x \notin Row /\ x \notin Head1 /\ x \notin Free
    BY <1>4, <1>5, <1>6, <1>11
  <2>. QED
    BY <1>7, <2>1
<1>12. CASE x \in Free
  <2>1. x \notin Sm \cup Big /\ x \notin Row /\ x \notin Head1 /\ x \notin Rec
    BY <1>4, <1>5, <1>6, <1>12
  <2>2. u \in FreeItems /\ v \in FreeItems
    BY <1>7, <2>1
  <2>3. PICK a \in DOMAIN heap.slab : u = [at |-> u.at, size |-> heap.slab[a].size, use |-> "free"]
                                      /\ u.at \in Cells(a, heap.slab[a].size)
    BY <2>2, FreeIs
  <2>4. PICK b \in DOMAIN heap.slab : v = [at |-> v.at, size |-> heap.slab[b].size, use |-> "free"]
                                      /\ v.at \in Cells(b, heap.slab[b].size)
    BY <2>2, FreeIs
  <2>5. a = b
    BY <1>1, <2>3, <2>4, OtherCells
  <2>. QED
    BY <2>3, <2>4, <2>5
<1>. QED
  BY <1>7, <1>8, <1>9, <1>10, <1>11, <1>12

(* The pages of a piece's bytes *)
LEMMA CellBytes ==
  ASSUME IInv, NEW u \in Used \cup FreeItems, NEW a, InCell(u, a), NEW b \in Bytes(u)
  PROVE  /\ b \in Nat /\ a \in DOMAIN heap.slab /\ a <= b /\ b < a + SlabBytes
         /\ b \div PageBytes \in PagesOfSlabs(heap)
<1>1. u.at \in Nat /\ u.size \in Nat
  BY PieceIs
<1> DEFINE s == heap.slab[a].size
           at == u.at
           n == u.size
<1>2. a \in DOMAIN heap.slab /\ at \in Cells(a, s) /\ n <= s
  BY DEF InCell
<1>3. a \in SlabPlaces /\ a \in Nat /\ s \in Sizes
  BY <1>2, SlabIs DEF IInv, Sound
<1>4. b \in at .. at + n - 1
  BY DEF Bytes
<1> HIDE DEF s, at, n
<1>5. a <= at /\ at + s <= a + SlabBytes /\ s \in Nat /\ SlabBytes \in Nat
  BY <1>2, <1>3, CellInside, SizeIs, SlabSize
<1>6. b \in Nat /\ a <= b /\ b < a + SlabBytes
  BY <1>1, <1>2, <1>3, <1>4, <1>5 DEF at, n
<1>7. b \div PageBytes \in PagesOf(a, SlabPages)
  BY <1>3, <1>6, SlabPlace
<1>. QED
  BY <1>2, <1>6, <1>7 DEF PagesOfSlabs

(* The pages of the bytes of a piece in a block. *)
LEMMA BlockBytes ==
  ASSUME IInv, NEW u \in Used \cup FreeItems, NEW i, IsBlock(u, i), NEW b \in Bytes(u)
  PROVE  /\ i \in DOMAIN heap.special
         /\ b \div PageBytes \in PagesOf(heap.special[i].data, heap.special[i].pages)
         /\ b \div PageBytes \in PagesOfSpecial(heap)
<1> DEFINE s == heap.special[i]
           at == u.at
           n == u.size
<1>1. at \in Nat /\ n \in Nat /\ i \in DOMAIN heap.special /\ at = s.data /\ n <= s.pages * PageBytes
  BY PieceIs DEF IsBlock
<1>2. /\ s.pages \in Nat \ {0} /\ (\E p \in 0 .. HeapPages - 1 : s.data = p * PageBytes)
      /\ PagesOf(s.data, s.pages) \subseteq PagesOfSpecial(heap)
  BY <1>1, BlockIs DEF IInv, Sound
<1>3. PICK p \in 0 .. HeapPages - 1 : s.data = p * PageBytes
  BY <1>2
<1>4. b \in at .. at + n - 1
  BY DEF Bytes
<1> HIDE DEF s, at, n
<1> DEFINE m == s.pages * PageBytes
<1>5. m \in Nat /\ n <= m
  BY <1>1, <1>2, SlabSize
<1> HIDE DEF m
<1>6. b \in Nat /\ at <= b /\ b < at + m
  BY <1>1, <1>4, <1>5
<1>7. p \in Nat
  BY SlabSize
<1>8. b \div PageBytes \in PagesOf(p * PageBytes, s.pages)
  BY <1>1, <1>2, <1>3, <1>6, <1>7, BytesInPages DEF m
<1>. QED
  BY <1>1, <1>2, <1>3, <1>8 DEF s

(* Two pieces in one slab are in different items; other pieces are in different pages. *)
LEMMA InvNoOverlap == IInv => NoOverlap
<1> SUFFICES ASSUME IInv, NEW u \in Used \cup FreeItems, NEW v \in Used \cup FreeItems, u # v,
                    NEW b \in Bytes(u), b \in Bytes(v)
             PROVE  FALSE
  BY DEF NoOverlap
<1>1. u.at # v.at
  BY PieceOnce
<1>2. PagesOfSpecial(heap) \cap PagesOfSlabs(heap) = {}
  BY DEF IInv, Sound, HeapOK, PagesOK
<1>3. CASE (\E a : InCell(u, a)) /\ \E a : InCell(v, a)
  <2>1. PICK a : InCell(u, a)
    BY <1>3
  <2>2. PICK c : InCell(v, c)
    BY <1>3
  <2>3. a \in DOMAIN heap.slab /\ c \in DOMAIN heap.slab /\ b \in Nat /\ a <= b /\ b < a + SlabBytes /\ c <= b /\ b < c + SlabBytes
    BY <2>1, <2>2, CellBytes
  <2>4. a = c
    BY <2>3, OneSlab DEF IInv, Sound
  <2> DEFINE s == heap.slab[a].size
             x == u.at
             y == v.at
  <2>5. x \in Cells(a, s) /\ y \in Cells(a, s) /\ u.size <= s /\ v.size <= s /\ x # y
    BY <1>1, <2>1, <2>2, <2>4 DEF InCell
  <2>6. s \in Sizes /\ a \in Nat
    BY <2>3, SlabIs DEF IInv, Sound
  <2>7. x \in Nat /\ y \in Nat /\ u.size \in Nat /\ v.size \in Nat
    BY PieceIs
  <2>8. b \in x .. x + u.size - 1 /\ b \in y .. y + v.size - 1
    BY DEF Bytes
  <2> HIDE DEF s, x, y
  <2>9. (x + s <= y \/ y + s <= x) /\ s \in Nat
    BY <2>5, <2>6, CellsApart, SizeIs
  <2> DEFINE n == u.size
             m == v.size
  <2>10. n <= s /\ m <= s /\ n \in Nat /\ m \in Nat /\ b \in x .. x + n - 1 /\ b \in y .. y + m - 1
    BY <2>5, <2>7, <2>8
  <2> HIDE DEF n, m
  <2>. QED
    BY <2>7, <2>9, <2>10
<1>4. CASE (\E i : IsBlock(u, i)) /\ \E i : IsBlock(v, i)
  <2>1. PICK i : IsBlock(u, i)
    BY <1>4
  <2>2. PICK j : IsBlock(v, j)
    BY <1>4
  <2>3. i # j
    BY <1>1, <2>1, <2>2 DEF IsBlock
  <2> DEFINE q == b \div PageBytes
             P == PagesOf(heap.special[i].data, heap.special[i].pages)
             R == PagesOf(heap.special[j].data, heap.special[j].pages)
  <2>4. i \in DOMAIN heap.special /\ j \in DOMAIN heap.special /\ q \in P /\ q \in R
    BY <2>1, <2>2, BlockBytes
  <2>5. P \cap R = {}
    BY <2>3, <2>4 DEF IInv, Sound, SpecialOK
  <2> HIDE DEF q, P, R
  <2>. QED
    BY <2>4, <2>5
<1>5. CASE (\E a : InCell(u, a)) /\ \E i : IsBlock(v, i)
  BY <1>2, <1>5, CellBytes, BlockBytes
<1>6. CASE (\E i : IsBlock(u, i)) /\ \E a : InCell(v, a)
  BY <1>2, <1>6, CellBytes, BlockBytes
<1>. QED
  BY <1>3, <1>4, <1>5, <1>6, PieceIs

(* The mapped pages are those of slabs and blocks. *)
LEMMA InvAllMapped == IInv => AllMapped
<1> SUFFICES ASSUME IInv, NEW u \in Used \cup FreeItems, NEW b \in Bytes(u) PROVE b \div PageBytes \in heap.mapped
  BY DEF AllMapped
<1>1. b \div PageBytes \in PagesOfSlabs(heap) \cup PagesOfSpecial(heap)
  BY PieceIs, CellBytes, BlockBytes
<1>. QED
  BY <1>1 DEF IInv, Sound, HeapOK, PagesOK

(* What is in use is one of the pieces Used names *)
LEMMA UsedAt ==
  ASSUME NEW x \in InUse(heap, objs) \cup Headers(heap)
  PROVE  \E u \in Used : u.at = x
<1>1. CASE x \in RowHeaders
  <2>1. [at |-> x, size |-> HeaderSize, use |-> "row"] \in Used
    BY <1>1 DEF Used
  <2>. QED
    BY <2>1
<1>2. CASE x \in Records(heap)
  <2>1. [at |-> x, size |-> RecordSize, use |-> "record"] \in Used
    BY <1>2 DEF Used, Records
  <2>. QED
    BY <2>1
<1>3. CASE x \in Small(objs)
  <2>1. PICK o \in objs : o.at = x
    BY <1>3 DEF Small
  <2>2. [at |-> o.at, size |-> o.size, use |-> "object"] \in Used
    BY DEF Used
  <2>. QED
    BY <2>1, <2>2
<1>4. CASE x \in Headers(heap)
  <2>1. [at |-> x, size |-> HeaderSize, use |-> "header"] \in Used
    BY <1>4 DEF Used, Headers
  <2>. QED
    BY <2>1
<1>. QED
  BY <1>1, <1>2, <1>3, <1>4 DEF InUse

(* An item of a slab that is not in use is on its list. *)
LEMMA InvNoLeak == IInv => NoLeak
<1> SUFFICES ASSUME IInv PROVE NoLeak
  OBVIOUS
<1>1. ASSUME NEW a \in DOMAIN heap.slab
      PROVE  \E i \in DOMAIN heap.row[heap.slab[a].size] : heap.row[heap.slab[a].size][i] = a
  <2> DEFINE size == heap.slab[a].size
             row == heap.row[size]
  <2>1. size \in Sizes /\ a \in InRow(heap, size)
    BY SlabIs DEF IInv, Sound, InRow
  <2>2. Lists(row, InRow(heap, size))
    BY <2>1 DEF IInv, Sound, HeapOK, RowsOK
  <2> HIDE DEF row, size
  <2>3. \E i \in DOMAIN row : row[i] = a
    BY <2>1, <2>2, LengthIs DEF Lists, Elements
  <2>. QED
    BY <2>3 DEF row, size
<1>2. heap.mapped = PagesOfSlabs(heap) \cup PagesOfSpecial(heap)
  BY DEF IInv, Sound, HeapOK, PagesOK
<1>3. ASSUME NEW a \in DOMAIN heap.slab, NEW item \in ToSet(Items(a, heap.slab[a].size))
      PROVE  \E u \in Used \cup FreeItems : u.at = item
  <2> DEFINE size == heap.slab[a].size
             s == heap.slab[a].avail
             X == InUse(heap, objs) \cup Headers(heap)
  <2>1. size \in Sizes /\ a \in Nat
    BY SlabIs DEF IInv, Sound
  <2>2. item \in Cells(a, size)
    <3> DEFINE t == Items(a, size)
    <3>1. Lists(t, Cells(a, size)) /\ \E i \in DOMAIN t : item = t[i]
      BY <2>1, ItemsList DEF ToSet
    <3> HIDE DEF t, size
    <3>. QED
      BY <3>1, LengthIs, ElementOf DEF Lists
  <2>3. CASE item \in X
    BY <2>3, UsedAt
  <2>4. CASE item \notin X
    <3>1. Lists(s, Cells(a, size) \ X)
      BY DEF IInv, Sound, HeapOK, ListsOK, SlabOK
    <3>2. \E i \in DOMAIN s : s[i] = item
      <4> HIDE DEF s, X, size
      <4>. QED
        BY <2>2, <2>4, <3>1, LengthIs DEF Lists, Elements
    <3>3. PICK i \in DOMAIN s : s[i] = item
      BY <3>2
    <3>4. [at |-> s[i], size |-> size, use |-> "free"] \in FreeItems
      BY DEF FreeItems
    <3>. QED
      BY <3>3, <3>4
  <2>. QED
    BY <2>3, <2>4
<1>. QED
  BY <1>1, <1>2, <1>3 DEF NoLeak, PagesOfSlabs, PagesOfSpecial

(* The invariant's parts give the types. *)
LEMMA InvTypeOK == IInv => TypeOK
<1> SUFFICES ASSUME IInv PROVE TypeOK
  OBVIOUS
<1> DEFINE Y == InUse(heap, objs)
           R == PagesOfSpecial(heap)
           A == Addresses
<1>1. /\ HeapOK(heap, Y, R) /\ SpecialOK(heap) /\ ObjectsOK(heap, objs)
      /\ HeadersOK(heap) /\ ListsOK(heap, Y) /\ RowsOK(heap) /\ PagesOK(heap, R)
  BY DEF IInv, Sound, HeapOK
<1>2. ASSUME NEW x, NEW s, Placed(heap, x, s) PROVE x \in A
  <2>1. PICK a \in DOMAIN heap.slab : heap.slab[a].size = s /\ x \in Cells(a, s)
    BY <1>2 DEF Placed
  <2>2. a \in SlabPlaces /\ x \in Nat /\ a <= x /\ x < a + SlabBytes
    BY <1>1, <2>1, SlabIs
  <2>3. PICK p \in 0 .. HeapPages - SlabPages : a = p * PageBytes
    BY <2>2 DEF SlabPlaces
  <2>4. p \in Nat /\ p + SlabPages \in Nat /\ p + SlabPages <= HeapPages
    BY <2>3, SlabSize
  <2>5. (p + SlabPages) * PageBytes = a + SlabBytes
    <3>1. (p + SlabPages) * PageBytes = p * PageBytes + SlabPages * PageBytes
      BY <2>4, SlabSize
    <3>. QED
      BY <2>3, <3>1, SlabSize
  <2>6. (p + SlabPages) * PageBytes <= HeapPages * PageBytes /\ HeapPages * PageBytes \in Nat
    BY <2>4, SlabSize, ProductUp
  <2> DEFINE m == HeapPages * PageBytes
  <2>7. a + SlabBytes <= m /\ m \in Nat
    BY <2>5, <2>6
  <2> HIDE DEF m
  <2>8. a \in Nat
    BY <2>2, SlabPlace
  <2>9. x \in 0 .. m - 1
    BY <2>2, <2>7, <2>8, SlabSize
  <2>. QED
    BY <2>9 DEF Addresses, m
<1>3. ASSUME NEW p \in 0 .. HeapPages - 1 PROVE p * PageBytes \in A
  <2>1. p \in Nat /\ p + 1 \in Nat /\ p + 1 <= HeapPages
    BY SlabSize
  <2>2. (p + 1) * PageBytes <= HeapPages * PageBytes /\ (p + 1) * PageBytes = p * PageBytes + PageBytes
        /\ HeapPages * PageBytes \in Nat /\ p * PageBytes \in Nat
    BY <2>1, SlabSize, ProductUp
  <2> DEFINE m == HeapPages * PageBytes
             x == p * PageBytes
  <2>3. x + PageBytes <= m /\ m \in Nat /\ x \in Nat
    BY <2>2
  <2> HIDE DEF m, x
  <2>4. x \in 0 .. m - 1
    BY <2>3, SlabSize
  <2>. QED
    BY <2>4 DEF Addresses, m, x
<1> HIDE DEF A
<1>4. DOMAIN heap.slab \subseteq A
  <2>1. SUFFICES ASSUME NEW a \in DOMAIN heap.slab PROVE a \in A
    OBVIOUS
  <2>2. a \in Cells(a, heap.slab[a].size)
    BY <1>1, SlabIs, CellsAre
  <2>. QED
    BY <1>2, <2>2 DEF Placed
<1>5. ASSUME NEW a \in DOMAIN heap.slab
      PROVE  /\ heap.slab[a].size \in Sizes /\ heap.slab[a].header \in A
             /\ heap.slab[a].total \in Nat /\ heap.slab[a].avail \in Seq(A)
             /\ heap.slab[a].free \in 0 .. heap.slab[a].total /\ heap.slab[a].free <= Len(heap.slab[a].avail)
  <2> DEFINE s == heap.slab[a]
             C == Cells(a, s.size)
             X == Y \cup Headers(heap)
  <2>1. /\ s.size \in Sizes /\ s.total = Count(s.size) - 1 /\ s.free \in Nat /\ Lists(s.avail, C \ X) /\ Len(s.avail) = s.free + 1
    BY <1>1 DEF ListsOK, SlabOK
  <2>2. s.header \in A
    BY <1>1, <1>2 DEF HeadersOK
  <2>3. \A x \in C : x \in A
    BY <1>2 DEF Placed
  <2>4. a \in Nat
    BY <1>1, SlabIs
  <2> HIDE DEF s
  <2>5. IsFiniteSet(C) /\ Cardinality(C) = Count(s.size) /\ Count(s.size) \in Nat \ {0}
    BY <2>1, <2>4, CellsAre, SizeIs
  <2> HIDE DEF C, X
  <2>6. Cardinality(C \ X) = Len(s.avail) /\ Cardinality(C \ X) <= Cardinality(C)
    BY <2>1, <2>5, ListCount, FS_Subset
  <2>7. s.avail \in Seq(A)
    <3> DEFINE t == s.avail
    <3>1. t \in Seq(C \ X) /\ \A k \in 1 .. Len(t) : t[k] \in C \ X
      BY <2>1 DEF Lists
    <3> HIDE DEF t
    <3>2. t \in Seq(A)
      BY <2>3, <3>1, InSeq
    <3>. QED
      BY <3>2 DEF t
  <2>8. s.total \in Nat /\ s.free \in 0 .. s.total /\ s.free <= Len(s.avail)
    BY <2>1, <2>5, <2>6
  <2>. QED
    BY <2>1, <2>2, <2>7, <2>8 DEF s
<1>6. ASSUME NEW size \in Sizes PROVE heap.row[size] \in Seq(DOMAIN heap.slab)
  <2> DEFINE t == heap.row[size]
             D == DOMAIN heap.slab
  <2>1. t \in Seq(InRow(heap, size)) /\ InRow(heap, size) \subseteq D
    BY <1>1 DEF RowsOK, Lists, InRow
  <2> HIDE DEF t, D
  <2>2. \A k \in 1 .. Len(t) : t[k] \in D
    BY <2>1
  <2>3. t \in Seq(D)
    BY <2>1, <2>2, InSeq
  <2>. QED
    BY <2>3 DEF t, D
<1>7. heap.special \in Seq([data : A, pages : Nat, rec : A])
  <2> DEFINE t == heap.special
             T == [data : {p * PageBytes : p \in 0 .. HeapPages - 1}, pages : Nat \ {0}, rec : Nat]
             U == [data : A, pages : Nat, rec : A]
  <2>1. t \in Seq(T) /\ \A i \in DOMAIN t : t[i].rec \in A
    BY <1>1, <1>2 DEF SpecialOK
  <2>2. \A r \in T : r.rec \in A => r \in U
    BY <1>3
  <2> HIDE DEF t, T, U
  <2>3. \A k \in 1 .. Len(t) : t[k] \in U
    BY <2>1, <2>2
  <2>4. t \in Seq(U)
    BY <2>1, <2>3, InSeq
  <2>. QED
    BY <2>4 DEF t, U
<1>8. objs \subseteq [at : A, size : Requests]
  <2>1. SUFFICES ASSUME NEW o \in objs PROVE o.at \in A
    BY <1>1 DEF ObjectsOK
  <2>2. CASE o.size <= SlabBytes
    BY <1>1, <1>2, <2>2 DEF ObjectsOK
  <2>3. CASE ~(o.size <= SlabBytes)
    <3>1. PICK i \in DOMAIN heap.special : heap.special[i].data = o.at
      BY <1>1, <2>3 DEF ObjectsOK
    <3>. QED
      BY <1>1, <1>3, <3>1, BlockIs
  <2>. QED
    BY <2>2, <2>3
<1>9. heap.mapped \subseteq 0 .. HeapPages - 1 /\ fault \in BOOLEAN
  BY <1>1 DEF PagesOK, IInv
<1>. QED
  BY <1>4, <1>5, <1>6, <1>7, <1>8, <1>9 DEF TypeOK, A

(* Whatever is allocated and freed, no slab's count promises more items   *)
(* than its list has, and rows and records name slabs and pages of the     *)
(* kernel heap: slab_alloc_item never follows a NULL.                      *)
THEOREM TypeCorrect == Spec => []TypeOK
  BY HeapInvariance, InvTypeOK, PTL

(* kmalloc never hands out what a caller, or the allocator itself, still   *)
(* uses: no two pieces in use, and no item on a list, overlap.             *)
THEOREM UseIsExclusive == Spec => []NoOverlap
  BY HeapInvariance, InvNoOverlap, PTL

(* Neither kfree nor trimming unmaps a page that something in use, or an   *)
(* item on a list, lies in.                                                *)
THEOREM UseIsMapped == Spec => []AllMapped
  BY HeapInvariance, InvAllMapped, PTL

(* kfree and trimming lose nothing: every mapped page is a slab's or a     *)
(* block's, and every item of a slab is in use or on its list.             *)
THEOREM NothingIsLost == Spec => []NoLeak
  BY HeapInvariance, InvNoLeak, PTL

(* No slab has its full count *)
AllTrimmed == NoneFull(heap)

(* A slab that does not have its full count has an item in use. *)
LEMMA InvSlabsInUse == IInv /\ AllTrimmed => SlabsInUse
<1>1. SUFFICES ASSUME IInv, NoneFull(heap), NEW a \in DOMAIN heap.slab
               PROVE  \E o \in Used : o.at \in a .. a + SlabBytes - 1
  BY DEF AllTrimmed, SlabsInUse
<1> DEFINE size == heap.slab[a].size
           row == heap.row[size]
           X == InUse(heap, objs) \cup Headers(heap)
<1>2. size \in Sizes /\ a \in Nat /\ \A x \in Cells(a, size) : x \in Nat /\ a <= x /\ x < a + SlabBytes
  BY <1>1, SlabIs DEF IInv, Sound
<1>3. PICK i \in DOMAIN row : row[i] = a
  BY <1>1, InvNoLeak DEF NoLeak
<1>4. heap.slab[a].free # heap.slab[a].total
  BY <1>1, <1>2, <1>3 DEF NoneFull, Full
<1>5. Cells(a, size) \cap X # {}
  BY <1>1, <1>4, FullIs DEF IInv, Sound
<1>6. PICK x \in Cells(a, size) : x \in X
  BY <1>5
<1>7. x \in a .. a + SlabBytes - 1
  BY <1>2, SlabSize
<1>8. \E o \in Used : o.at = x
  BY <1>6, UsedAt
<1>. QED
  BY <1>7, <1>8

(* A slab that kmalloc_free_some_pages leaves behind has something in use, *)
(* or is of the row that holds headers.                                    *)
THEOREM TrimIsThorough == Spec => TrimReleases
<1>1. IInv /\ [Next]_vars => [kmalloc_free_some_pages => AllTrimmed']_vars
  BY TrimStep DEF AllTrimmed
<1>. QED
  BY <1>1, InvSlabsInUse, HeapInvariance, PTL DEF Spec, TrimReleases
=============================================================================
