---------------------------- MODULE ClientProofs ----------------------------
(***************************************************************************)
(* The Cloudflare client: what a walk over the pages of a collection       *)
(* returns, and what a window's calls can take out of the reserve or run   *)
(* into a block with.  Proofs for every number of callers, quotas and      *)
(* attempts, every capacity and reserve, and every size of page.           *)
(***************************************************************************)
EXTENDS ApiBudget, Pagination, FiniteSetTheorems, SequenceTheorems, TLAPS

-----------------------------------------------------------------------------
(* The pages of a collection.                                              *)

\* While a walk that no deletion met is under way, the pages read are full,
\* the collection is at least as long as what they hold, and an entry that
\* now stands in their place either came in between or was returned.
WalkInv ==
  walk = "walking" =>
    /\ page \in 1..MaxPages
    /\ Len(out) = (page - 1) * PerPage
    /\ ~removed =>
         /\ steady \subseteq ToSet(collection)
         /\ Len(out) <= Len(collection)
         /\ \A i \in 1..Len(out) : collection[i] \in steady => collection[i] \in ToSet(out)
         /\ ~inserted => out = SubSeq(collection, 1, Len(out))

PagesInv ==
  /\ collection \in Seq(Items) /\ out \in Seq(Items)
  /\ WalkInv /\ WalkReturnsSteady

LEMMA SmallerOfTwo ==
  ASSUME NEW a \in Nat, NEW b \in Nat
  PROVE  Min({a, b}) = IF a <= b THEN a ELSE b
<1> DEFINE S == {a, b}
           least == IF a <= b THEN a ELSE b
<1>1. least \in S /\ \A y \in S : least <= y
  OBVIOUS
<1>2. Min(S) = CHOOSE x \in S : \A y \in S : x <= y
  BY DEF Min
<1>3. Min(S) \in S /\ \A y \in S : Min(S) <= y
  <2>1. \E x \in S : \A y \in S : x <= y
    BY <1>1
  <2> HIDE DEF S
  <2> QED
    BY <1>2, <2>1
<1> QED
  BY <1>1, <1>3

\* A page is full, or holds the entries that are left.
LEMMA PageShape ==
  ASSUME collection \in Seq(Items), NEW p \in Nat \ {0}
  PROVE  /\ PageOf(p) \in Seq(Items)
         /\ Len(PageOf(p)) <= PerPage
         /\ (p - 1) * PerPage <= Len(collection) =>
              (p - 1) * PerPage + Len(PageOf(p)) <= Len(collection)
         /\ Len(PageOf(p)) < PerPage => (p - 1) * PerPage + Len(PageOf(p)) >= Len(collection)
         /\ \A i \in 1..Len(PageOf(p)) : PageOf(p)[i] = collection[(p - 1) * PerPage + i]
<1> DEFINE start == (p - 1) * PerPage
           end == p * PerPage
<1>1. PerPage \in Nat /\ PerPage > 0 /\ Len(collection) \in Nat
  BY PageAssumption
<1>2. start \in Nat /\ end \in Nat /\ end = start + PerPage
  BY <1>1
<1> DEFINE last == Min({end, Len(collection)})
<1>3. PageOf(p) = SubSeq(collection, start + 1, last)
  BY DEF PageOf
<1> HIDE DEF start, end
<1>4. last = IF end <= Len(collection) THEN end ELSE Len(collection)
  BY <1>1, <1>2, SmallerOfTwo
<1> HIDE DEF last
<1>5. last \in Nat /\ last <= Len(collection)
  BY <1>1, <1>2, <1>4
<1>6. \A i \in (start + 1)..last : collection[i] \in Items
  BY <1>2, <1>5, ElementOfSeq
<1>7. /\ PageOf(p) \in Seq(Items)
      /\ Len(PageOf(p)) = IF start + 1 <= last THEN last - (start + 1) + 1 ELSE 0
      /\ \A i \in 1..(last - (start + 1) + 1) : PageOf(p)[i] = collection[start + 1 + i - 1]
  BY <1>2, <1>3, <1>5, <1>6, SubSeqProperties
<1>8. Len(PageOf(p)) \in Nat /\ Len(PageOf(p)) = IF start < last THEN last - start ELSE 0
  BY <1>2, <1>5, <1>7
<1>9. \A i \in 1..Len(PageOf(p)) : PageOf(p)[i] = collection[start + i]
  BY <1>2, <1>5, <1>7, <1>8
<1>10. /\ Len(PageOf(p)) <= PerPage
       /\ start <= Len(collection) => start + Len(PageOf(p)) <= Len(collection)
       /\ Len(PageOf(p)) < PerPage => start + Len(PageOf(p)) >= Len(collection)
  BY <1>1, <1>2, <1>4, <1>8
<1> QED
  BY <1>7, <1>9, <1>10 DEF start

\* An entry put in moves those behind it one further.
LEMMA Insertion ==
  ASSUME NEW s \in Seq(Items), NEW i \in 1..(Len(s) + 1), NEW x \in Items
  PROVE  /\ InsertAt(s, i, x) \in Seq(Items)
         /\ Len(InsertAt(s, i, x)) = Len(s) + 1
         /\ \A k \in 1..(Len(s) + 1) :
              InsertAt(s, i, x)[k] = IF k < i THEN s[k] ELSE IF k = i THEN x ELSE s[k - 1]
<1> DEFINE head == SubSeq(s, 1, i - 1)
           tail == SubSeq(s, i, Len(s))
           front == head \o <<x>>
<1>1. Len(s) \in Nat /\ \A k \in 1..Len(s) : s[k] \in Items
  BY ElementOfSeq
<1>2. /\ head \in Seq(Items) /\ Len(head) = i - 1
      /\ \A k \in 1..(i - 1) : head[k] = s[k]
  <2>1. /\ head \in Seq(Items)
        /\ Len(head) = IF 1 <= i - 1 THEN i - 1 - 1 + 1 ELSE 0
        /\ \A k \in 1..(i - 1 - 1 + 1) : head[k] = s[1 + k - 1]
    BY <1>1, SubSeqProperties
  <2> HIDE DEF head
  <2> QED
    BY <1>1, <2>1
<1>3. /\ tail \in Seq(Items) /\ Len(tail) = Len(s) - i + 1
      /\ \A k \in 1..(Len(s) - i + 1) : tail[k] = s[i + k - 1]
  <2>1. /\ tail \in Seq(Items)
        /\ Len(tail) = IF i <= Len(s) THEN Len(s) - i + 1 ELSE 0
        /\ \A k \in 1..(Len(s) - i + 1) : tail[k] = s[i + k - 1]
    BY <1>1, SubSeqProperties
  <2> HIDE DEF tail
  <2> QED
    BY <1>1, <2>1
<1>4. <<x>> \in Seq(Items) /\ Len(<<x>>) = 1 /\ <<x>>[1] = x
  OBVIOUS
<1> HIDE DEF head, tail
<1>5. /\ front \in Seq(Items) /\ Len(front) = i
      /\ \A k \in 1..i : front[k] = IF k < i THEN s[k] ELSE x
  <2>1. /\ front \in Seq(Items) /\ Len(front) = Len(head) + 1
        /\ \A k \in 1..(Len(head) + 1) :
             front[k] = IF k <= Len(head) THEN head[k] ELSE <<x>>[k - Len(head)]
    BY <1>2, <1>4, ConcatProperties
  <2> HIDE DEF front
  <2>2. ASSUME NEW k \in 1..i
        PROVE  front[k] = IF k < i THEN s[k] ELSE x
    <3>1. CASE k < i
      BY <1>2, <2>1, <3>1
    <3>2. CASE k = i
      BY <1>2, <1>4, <2>1, <3>2
    <3> QED
      BY <3>1, <3>2
  <2> QED
    BY <1>2, <2>1, <2>2
<1> HIDE DEF front
<1>6. /\ front \o tail \in Seq(Items) /\ Len(front \o tail) = i + Len(tail)
      /\ \A k \in 1..(i + Len(tail)) :
           (front \o tail)[k] = IF k <= i THEN front[k] ELSE tail[k - i]
  BY <1>3, <1>5, ConcatProperties
<1>7. InsertAt(s, i, x) = front \o tail
  BY DEF InsertAt, front, head, tail
<1>8. ASSUME NEW k \in 1..(Len(s) + 1)
      PROVE  InsertAt(s, i, x)[k] = IF k < i THEN s[k] ELSE IF k = i THEN x ELSE s[k - 1]
  <2>1. CASE k <= i
    BY <1>3, <1>5, <1>6, <1>7, <2>1
  <2>2. CASE k > i
    <3>1. InsertAt(s, i, x)[k] = tail[k - i]
      BY <1>1, <1>3, <1>6, <1>7, <2>2
    <3>2. k - i \in 1..(Len(s) - i + 1) /\ i + (k - i) - 1 = k - 1
      BY <1>1, <2>2
    <3> QED
      BY <1>3, <2>2, <3>1, <3>2
  <2> QED
    BY <2>1, <2>2
<1> QED
  BY <1>1, <1>3, <1>6, <1>7, <1>8

LEMMA Deletion ==
  ASSUME NEW s \in Seq(Items), NEW i \in DOMAIN s
  PROVE  RemoveAt(s, i) \in Seq(Items)
<1>1. Len(s) \in Nat /\ i \in 1..Len(s) /\ \A k \in 1..Len(s) : s[k] \in Items
  BY ElementOfSeq
<1>2. SubSeq(s, 1, i - 1) \in Seq(Items)
  BY <1>1, SubSeqProperties
<1>3. SubSeq(s, i + 1, Len(s)) \in Seq(Items)
  BY <1>1, SubSeqProperties
<1> QED
  BY <1>2, <1>3, ConcatProperties DEF RemoveAt

LEMMA ItemsAsSequence ==
  /\ SetToSeq(Items) \in Seq(Items)
  /\ Cardinality(Items) \in Nat /\ Len(SetToSeq(Items)) = Cardinality(Items)
<1> DEFINE n == Cardinality(Items)
<1>1. n \in Nat /\ ExistsBijection(1..n, Items)
  BY PageAssumption, FS_CardinalityType
<1>2. \E f \in [1..n -> Items] : IsInjective(f)
  BY <1>1 DEF ExistsBijection, Bijection, Injection, IsInjective
<1>3. SetToSeq(Items) \in [1..n -> Items]
  BY <1>2 DEF SetToSeq
<1> QED
  BY <1>1, <1>3

LEMMA PagesStart == PageInit => PagesInv
<1> SUFFICES ASSUME PageInit PROVE PagesInv
  OBVIOUS
<1>1. PICK n \in 0..Cardinality(Items) : collection = SubSeq(SetToSeq(Items), 1, n)
  BY DEF PageInit
<1>2. collection \in Seq(Items)
  <2>1. \A k \in 1..n : SetToSeq(Items)[k] \in Items
    BY <1>1, ItemsAsSequence, ElementOfSeq
  <2> QED
    BY <1>1, <2>1, ItemsAsSequence, SubSeqProperties
<1>3. out = <<>> /\ walk = "idle"
  BY DEF PageInit
<1> QED
  BY <1>2, <1>3, EmptySeq DEF PagesInv, WalkInv, WalkReturnsSteady

\* Entries that come in push others back, never forward past the pages read.
LEMMA PagesAdded == PagesInv /\ EntryAdded => PagesInv'
<1> SUFFICES ASSUME PagesInv, EntryAdded PROVE PagesInv'
  OBVIOUS
<1>1. PICK x \in Items \ ToSet(collection), i \in 1..(Len(collection) + 1) :
        collection' = InsertAt(collection, i, x)
  BY DEF EntryAdded
<1>2. /\ UNCHANGED <<page, out, walk, steady, removed>> /\ inserted' = TRUE
  BY DEF EntryAdded, Shift
<1>3. collection \in Seq(Items) /\ out \in Seq(Items)
  BY DEF PagesInv
<1>4. /\ collection' \in Seq(Items) /\ Len(collection') = Len(collection) + 1
      /\ \A k \in 1..(Len(collection) + 1) :
           collection'[k] = IF k < i THEN collection[k]
                            ELSE IF k = i THEN x ELSE collection[k - 1]
  <2> DEFINE s == InsertAt(collection, i, x)
  <2>1. x \in Items
    BY <1>1
  <2>2. /\ s \in Seq(Items) /\ Len(s) = Len(collection) + 1
        /\ \A k \in 1..(Len(collection) + 1) :
             s[k] = IF k < i THEN collection[k]
                    ELSE IF k = i THEN x ELSE collection[k - 1]
    BY <1>3, <2>1, Insertion
  <2>3. collection' = s
    BY <1>1
  <2> HIDE DEF s
  <2> QED
    BY <2>2, <2>3
<1>5. Len(collection) \in Nat /\ Len(out) \in Nat /\ DOMAIN collection = 1..Len(collection)
      /\ DOMAIN collection' = 1..(Len(collection) + 1)
  BY <1>3, <1>4, LenProperties
<1>6. WalkInv'
  <2> SUFFICES ASSUME walk = "walking", ~removed
               PROVE  /\ steady \subseteq ToSet(collection')
                      /\ Len(out) <= Len(collection')
                      /\ \A k \in 1..Len(out) :
                           collection'[k] \in steady => collection'[k] \in ToSet(out)
    BY <1>2 DEF PagesInv, WalkInv
  <2>1. /\ steady \subseteq ToSet(collection)
        /\ Len(out) <= Len(collection)
        /\ \A k \in 1..Len(out) : collection[k] \in steady => collection[k] \in ToSet(out)
    BY DEF PagesInv, WalkInv
  <2>2. ToSet(collection) \subseteq ToSet(collection')
    <3> SUFFICES ASSUME NEW k \in 1..Len(collection)
                 PROVE  collection[k] \in ToSet(collection')
      BY <1>5 DEF ToSet
    <3>1. CASE k < i
      <4>1. k \in 1..(Len(collection) + 1) /\ collection'[k] = collection[k]
        BY <1>4, <1>5, <3>1
      <4> QED
        BY <1>5, <4>1 DEF ToSet
    <3>2. CASE k >= i
      <4>1. k + 1 \in 1..(Len(collection) + 1) /\ collection'[k + 1] = collection[k]
        BY <1>4, <1>5, <3>2
      <4> QED
        BY <1>5, <4>1 DEF ToSet
    <3> QED
      BY <1>5, <3>1, <3>2
  <2>3. ASSUME NEW k \in 1..Len(out), collection'[k] \in steady
        PROVE  collection'[k] \in ToSet(out)
    <3>1. k \in 1..(Len(collection) + 1)
      BY <1>5, <2>1
    <3>2. CASE k < i
      BY <1>4, <2>1, <2>3, <3>1, <3>2
    <3>3. CASE k = i
      BY <1>1, <1>4, <2>1, <2>3, <3>1, <3>3
    <3>4. CASE k > i
      <4>1. collection'[k] = collection[k - 1] /\ k - 1 \in 1..Len(out)
        BY <1>4, <1>5, <3>1, <3>4
      <4> QED
        BY <2>1, <2>3, <4>1
    <3> QED
      BY <1>5, <3>2, <3>3, <3>4
  <2> QED
    BY <1>4, <1>5, <2>1, <2>2, <2>3
<1>7. WalkReturnsSteady'
  BY <1>2 DEF PagesInv, WalkReturnsSteady
<1> QED
  BY <1>2, <1>3, <1>4, <1>6, <1>7 DEF PagesInv

LEMMA PagesDeleted == PagesInv /\ EntryDeleted => PagesInv'
<1> SUFFICES ASSUME PagesInv, EntryDeleted PROVE PagesInv'
  OBVIOUS
<1>1. removed' = TRUE /\ UNCHANGED <<page, out, walk>>
  BY DEF EntryDeleted, Shift
<1>2. collection' \in Seq(Items) /\ out \in Seq(Items)
  BY Deletion DEF PagesInv, EntryDeleted
<1> QED
  BY <1>1, <1>2 DEF PagesInv, WalkInv, WalkReturnsSteady

LEMMA PagesBegin == PagesInv /\ BeginWalk => PagesInv'
<1> SUFFICES ASSUME PagesInv, BeginWalk PROVE PagesInv'
  OBVIOUS
<1>1. /\ walk' = "walking" /\ page' = 1 /\ out' = <<>>
      /\ steady' = ToSet(collection) /\ UNCHANGED collection
  BY DEF BeginWalk
<1>2. collection \in Seq(Items) /\ <<>> \in Seq(Items) /\ Len(<<>>) = 0
  BY EmptySeq DEF PagesInv
<1>3. Len(collection) \in Nat /\ MaxPages >= 1 /\ MaxPages \in Nat /\ (1 - 1) * PerPage = 0
  BY <1>2, LenProperties, PageAssumption
<1>4. SubSeq(collection, 1, 0) = <<>>
  BY SubSeqEmpty
<1>5. WalkInv'
  BY <1>1, <1>2, <1>3, <1>4 DEF WalkInv
<1> QED
  BY <1>1, <1>2, <1>5 DEF PagesInv, WalkReturnsSteady

\* A page read goes on from where the last one ended; the last page reaches
\* the end of the collection.
LEMMA PagesFetch == PagesInv /\ FetchPage => PagesInv'
<1> SUFFICES ASSUME PagesInv, FetchPage PROVE PagesInv'
  OBVIOUS
<1> DEFINE items == PageOf(page)
           n == Len(out)
           k == Len(items)
           m == n + k
<1>1. /\ walk = "walking" /\ out' = out \o items
      /\ UNCHANGED <<collection, counted, steady, inserted, removed>>
      /\ IF Complete(items) \/ page = MaxPages
         THEN walk' = "done" /\ page' = 0
         ELSE page' = page + 1 /\ UNCHANGED walk
  BY DEF FetchPage
<1>2. /\ collection \in Seq(Items) /\ out \in Seq(Items)
      /\ page \in 1..MaxPages /\ n = (page - 1) * PerPage
  BY <1>1 DEF PagesInv, WalkInv
<1>3. /\ PerPage \in Nat /\ PerPage > 0 /\ MaxPages \in Nat
      /\ Len(collection) \in Nat /\ n \in Nat /\ DOMAIN collection = 1..Len(collection)
  BY <1>2, PageAssumption, LenProperties
<1>4. /\ items \in Seq(Items) /\ k <= PerPage
      /\ n <= Len(collection) => m <= Len(collection)
      /\ k < PerPage => m >= Len(collection)
      /\ \A i \in 1..k : items[i] = collection[n + i]
  BY <1>2, <1>3, PageShape
<1>5. k \in Nat /\ m \in Nat /\ m = n + k
  BY <1>3, <1>4, LenProperties
<1>6. DOMAIN items = 1..k /\ DOMAIN out = 1..n
  BY <1>2, <1>4, LenProperties
<1>7. /\ out' \in Seq(Items) /\ Len(out') = m
      /\ \A i \in 1..m : out'[i] = IF i <= n THEN out[i] ELSE items[i - n]
  BY <1>1, <1>2, <1>4, ConcatProperties
<1>8. /\ Complete(items) => k < PerPage \/ m >= Len(collection)
      /\ k < PerPage => Complete(items)
  BY DEF Complete
<1>9. Len(out) = n
  OBVIOUS
<1> HIDE DEF items, n, k, m
<1>10. DOMAIN out' = 1..m
  BY <1>7, LenProperties
<1>11. ToSet(out) \subseteq ToSet(out')
  <2> SUFFICES ASSUME NEW i \in 1..n PROVE out[i] \in ToSet(out')
    BY <1>6 DEF ToSet
  <2>1. i \in 1..m /\ out'[i] = out[i]
    BY <1>3, <1>5, <1>7
  <2> QED
    BY <1>10, <2>1 DEF ToSet
<1>12. ASSUME ~removed
      PROVE  /\ steady \subseteq ToSet(collection)
             /\ m <= Len(collection)
             /\ \A i \in 1..m : collection[i] \in steady => collection[i] \in ToSet(out')
             /\ ~inserted => out' = SubSeq(collection, 1, m)
  <2>1. /\ steady \subseteq ToSet(collection) /\ n <= Len(collection)
        /\ \A i \in 1..n : collection[i] \in steady => collection[i] \in ToSet(out)
        /\ ~inserted => out = SubSeq(collection, 1, n)
    BY <1>1, <1>9, <1>12 DEF PagesInv, WalkInv
  <2>2. ASSUME NEW i \in 1..m, collection[i] \in steady
        PROVE  collection[i] \in ToSet(out')
    <3>1. CASE i <= n
      BY <1>3, <1>11, <2>1, <2>2, <3>1
    <3>2. CASE i > n
      <4>1. i - n \in 1..k /\ n + (i - n) = i
        BY <1>3, <1>5, <3>2
      <4>2. out'[i] = items[i - n] /\ items[i - n] = collection[i]
        <5>1. items[i - n] = collection[n + (i - n)]
          BY <1>4, <4>1
        <5>2. out'[i] = items[i - n]
          BY <1>3, <1>5, <1>7, <3>2
        <5> QED
          BY <4>1, <5>1, <5>2
      <4> QED
        BY <1>10, <4>2 DEF ToSet
    <3> QED
      BY <1>3, <1>5, <3>1, <3>2
  <2>3. ASSUME ~inserted
        PROVE  out' = SubSeq(collection, 1, m)
    <3> DEFINE whole == SubSeq(collection, 1, m)
    <3>1. m <= Len(collection) /\ m \in Nat
      BY <1>3, <1>4, <1>5, <2>1
    <3>2. /\ whole \in Seq(Items) /\ Len(whole) = m
          /\ \A i \in 1..m : whole[i] = collection[i]
      <4>1. \A i \in 1..m : collection[i] \in Items
        BY <1>2, <1>3, <3>1, ElementOfSeq
      <4>2. /\ whole \in Seq(Items)
            /\ Len(whole) = IF 1 <= m THEN m - 1 + 1 ELSE 0
            /\ \A i \in 1..(m - 1 + 1) : whole[i] = collection[1 + i - 1]
        BY <3>1, <4>1, SubSeqProperties
      <4> HIDE DEF whole
      <4> QED
        BY <3>1, <4>2
    <3>3. \A i \in 1..n : out[i] = collection[i]
      <4>1. \A i \in 1..n : collection[i] \in Items
        BY <1>2, <1>3, <2>1, ElementOfSeq
      <4>2. \A i \in 1..(n - 1 + 1) : SubSeq(collection, 1, n)[i] = collection[1 + i - 1]
        BY <1>3, <4>1, SubSeqProperties
      <4> QED
        BY <1>3, <2>1, <2>3, <4>2
    <3> HIDE DEF whole
    <3>4. \A i \in 1..m : out'[i] = whole[i]
      <4> SUFFICES ASSUME NEW i \in 1..m PROVE out'[i] = whole[i]
        OBVIOUS
      <4>1. CASE i <= n
        BY <1>3, <1>7, <3>2, <3>3, <4>1
      <4>2. CASE i > n
        <5>1. i - n \in 1..k /\ n + (i - n) = i
          BY <1>3, <1>5, <4>2
        <5>2. out'[i] = items[i - n] /\ items[i - n] = collection[i]
          <6>1. items[i - n] = collection[n + (i - n)]
            BY <1>4, <5>1
          <6>2. out'[i] = items[i - n]
            BY <1>3, <1>5, <1>7, <4>2
          <6> QED
            BY <5>1, <6>1, <6>2
        <5> QED
          BY <3>2, <5>2
      <4> QED
        BY <1>3, <1>5, <4>1, <4>2
    <3>5. out' = whole
      BY <1>7, <3>2, <3>4, SeqEqual
    <3> QED
      BY <3>5 DEF whole
  <2> QED
    BY <1>4, <2>1, <2>2, <2>3
<1>13. WalkInv'
  <2> SUFFICES ASSUME walk' = "walking" PROVE WalkInv'
    BY DEF WalkInv
  <2>1. ~Complete(items) /\ page # MaxPages /\ page' = page + 1
    BY <1>1
  <2>2. k = PerPage
    <3>1. ~(k < PerPage) /\ k <= PerPage
      BY <1>4, <1>8, <2>1
    <3> QED
      BY <1>3, <1>5, <3>1
  <2>3. page' \in 1..MaxPages
    BY <1>2, <1>3, <2>1
  <2>4. Len(out') = (page' - 1) * PerPage
    <3>1. (page' - 1) * PerPage = (page - 1) * PerPage + PerPage
      BY <1>2, <1>3, <2>1
    <3> QED
      BY <1>2, <1>5, <1>7, <2>2, <3>1
  <2> QED
    BY <1>1, <1>7, <1>12, <2>3, <2>4 DEF WalkInv
<1>14. WalkReturnsSteady'
  <2> SUFFICES ASSUME walk' = "done", Len(out') < MaxPages * PerPage, ~removed
               PROVE  steady \subseteq ToSet(out') /\ (~inserted => out' = collection)
    BY <1>1 DEF WalkReturnsSteady
  <2>1. Complete(items) \/ page = MaxPages
    BY <1>1
  <2>2. m >= Len(collection)
    <3>1. CASE Complete(items)
      BY <1>4, <1>8, <3>1
    <3>2. CASE page = MaxPages
      <4>1. MaxPages * PerPage = (MaxPages - 1) * PerPage + PerPage
        BY <1>3
      <4>2. (MaxPages - 1) * PerPage = n
        BY <1>2, <3>2
      <4>3. m < n + PerPage
        BY <1>7, <4>1, <4>2
      <4> QED
        BY <1>3, <1>4, <1>5, <4>3
    <3> QED
      BY <2>1, <3>1, <3>2
  <2>3. m = Len(collection)
    <3>1. m <= Len(collection)
      BY <1>12
    <3>2. m \in Nat
      BY <1>5
    <3>3. Len(collection) \in Nat
      BY <1>3
    <3> QED
      BY <2>2, <3>1, <3>2, <3>3
  <2>4. steady \subseteq ToSet(out')
    <3> SUFFICES ASSUME NEW x \in steady PROVE x \in ToSet(out')
      OBVIOUS
    <3>1. PICK i \in 1..Len(collection) : x = collection[i]
      BY <1>3, <1>12 DEF ToSet
    <3> QED
      BY <1>12, <2>3, <3>1
  <2>5. ~inserted => out' = collection
    BY <1>2, <1>12, <2>3, SubSeqFull
  <2> QED
    BY <2>4, <2>5
<1> QED
  BY <1>1, <1>2, <1>7, <1>13, <1>14 DEF PagesInv

LEMMA PagesFail == PagesInv /\ FetchFails => PagesInv'
<1> SUFFICES ASSUME PagesInv, FetchFails PROVE PagesInv'
  OBVIOUS
<1>1. walk' = "failed" /\ out' = <<>> /\ UNCHANGED collection
  BY DEF FetchFails
<1> QED
  BY <1>1, EmptySeq DEF PagesInv, WalkInv, WalkReturnsSteady

\* A walk that is done before the limit of pages returns every entry that was
\* there all the time, and the collection itself if nothing came or went
\* (listAll), whatever comes in between two pages and whether or not the
\* endpoint reports a total count.
THEOREM WalkIsComplete == PageSpec => []WalkReturnsSteady
<1>1. PageInit => PagesInv
  BY PagesStart
<1>2. PagesInv /\ [PageNext]_pageVars => PagesInv'
  <2>1. ASSUME PagesInv, UNCHANGED pageVars PROVE PagesInv'
    BY <2>1 DEF PagesInv, WalkInv, WalkReturnsSteady, pageVars
  <2> QED
    BY <2>1, PagesAdded, PagesDeleted, PagesBegin, PagesFetch, PagesFail DEF PageNext
<1>3. PagesInv => WalkReturnsSteady
  BY DEF PagesInv
<1> QED
  BY <1>1, <1>2, <1>3, PTL DEF PageSpec

-----------------------------------------------------------------------------
(* The budget guard: what every variable holds.                            *)

\* Besides the declared kinds: a window ends after the present, at most one
\* length later, and a call under way has made an attempt.
BudgetTypes ==
  /\ TypeOK
  /\ left \in [Quotas -> Nat]
  /\ \A q \in Quotas : clock < resets[q] /\ resets[q] <= clock + Window
  /\ \A c \in Callers : pc[c] # "idle" => call[c].attempt >= 1

LEMMA BudgetConstants ==
  /\ \A q \in Quotas : Capacity[q] \in Nat /\ Reserve[q] \in Nat
  /\ MaxAttempts \in Nat /\ MaxAttempts >= 1 /\ Window \in Nat /\ Window >= 1
  /\ MaxMishaps \in Nat /\ MaxOthers \in Nat /\ MaxClock \in Nat
BY BudgetAssumption

LEMMA NoCallIsACall == NoCall \in [quota: Quotas, attempt: 0..MaxAttempts]
<1>1. (CHOOSE q \in Quotas : TRUE) \in Quotas
  BY BudgetAssumption
<1> QED
  BY <1>1, BudgetConstants DEF NoCall

LEMMA BudgetTypesStart == Init => BudgetTypes
<1> SUFFICES ASSUME Init PROVE BudgetTypes
  OBVIOUS
<1>1. /\ clock = 0 /\ mishaps = 0 /\ others = 0
      /\ resets \in [Quotas -> 1..Window]
      /\ rate = [q \in Quotas |-> Unknown]
      /\ pc = [c \in Callers |-> "idle"]
      /\ call = [c \in Callers |-> NoCall]
      /\ reply = [c \in Callers |-> NoReply]
      /\ overdrawn = [q \in Quotas |-> 0] /\ refused = [q \in Quotas |-> 0]
      /\ blockedUntil = [q \in Quotas |-> 0]
  BY DEF Init
<1>2. left \in [Quotas -> UNION {0..Capacity[q] : q \in Quotas}]
      /\ \A q \in Quotas : left[q] <= Capacity[q]
  BY DEF Init
<1>3. left \in [Quotas -> Nat] /\ \A q \in Quotas : left[q] \in 0..Capacity[q]
  <2>1. UNION {0..Capacity[q] : q \in Quotas} \subseteq Nat
    BY BudgetConstants
  <2>2. left \in [Quotas -> Nat]
    BY <1>2, <2>1
  <2> QED
    BY <1>2, <2>2, BudgetConstants
<1>4. resets \in [Quotas -> 1..MaxClock + Window]
  BY <1>1, BudgetConstants
<1>5. Unknown \in Rate /\ NoReply \in Reply
  BY DEF Unknown, Rate, NoReply, Reply
<1>6. TypeOK
  BY <1>1, <1>3, <1>4, <1>5, NoCallIsACall, BudgetConstants DEF TypeOK
<1> QED
  BY <1>1, <1>3, <1>6, BudgetConstants DEF BudgetTypes

LEMMA BudgetTypesTick == BudgetTypes /\ Tick => BudgetTypes'
<1> SUFFICES ASSUME BudgetTypes, Tick PROVE BudgetTypes'
  OBVIOUS
<1> DEFINE over == {q \in Quotas : resets[q] <= clock + 1}
<1>1. /\ clock < MaxClock /\ clock' = clock + 1
      /\ left' = [q \in Quotas |-> IF q \in over THEN Capacity[q] ELSE left[q]]
      /\ resets' = [q \in Quotas |-> IF q \in over THEN clock + 1 + Window ELSE resets[q]]
      /\ overdrawn' = [q \in Quotas |-> IF q \in over THEN 0 ELSE overdrawn[q]]
      /\ refused' = [q \in Quotas |-> IF q \in over THEN 0 ELSE refused[q]]
      /\ UNCHANGED <<mishaps, others, rate, pc, call, reply, blockedUntil>>
  BY DEF Tick
<1>2. clock \in 0..MaxClock /\ \A q \in Quotas : left[q] \in 0..Capacity[q]
  BY DEF BudgetTypes, TypeOK
<1>3. /\ resets \in [Quotas -> 1..MaxClock + Window]
      /\ overdrawn \in [Quotas -> Nat] /\ refused \in [Quotas -> Nat]
  BY DEF BudgetTypes, TypeOK
<1>4. \A q \in Quotas : resets[q] <= clock + Window
  BY DEF BudgetTypes
<1>5. /\ clock' \in 0..MaxClock
      /\ \A q \in Quotas : left'[q] \in 0..Capacity[q]
      /\ left' \in [Quotas -> Nat]
  BY <1>1, <1>2, BudgetConstants
<1>6. resets' \in [Quotas -> 1..MaxClock + Window]
  BY <1>1, <1>2, <1>3, BudgetConstants
<1>7. overdrawn' \in [Quotas -> Nat] /\ refused' \in [Quotas -> Nat]
  BY <1>1, <1>3
<1>8. \A q \in Quotas : clock' < resets'[q] /\ resets'[q] <= clock' + Window
  <2> SUFFICES ASSUME NEW q \in Quotas
               PROVE  clock' < resets'[q] /\ resets'[q] <= clock' + Window
    OBVIOUS
  <2>1. CASE q \in over
    BY <1>1, <1>2, <2>1, BudgetConstants
  <2>2. CASE q \notin over
    BY <1>1, <1>2, <1>3, <1>4, <2>2, BudgetConstants
  <2> QED
    BY <2>1, <2>2
<1>9. TypeOK'
  BY <1>1, <1>5, <1>6, <1>7 DEF BudgetTypes, TypeOK
<1> QED
  BY <1>1, <1>5, <1>8, <1>9 DEF BudgetTypes

LEMMA BudgetTypesOther ==
  ASSUME BudgetTypes, NEW q \in Quotas, OtherUser(q)
  PROVE  BudgetTypes'
<1>1. /\ others < MaxOthers /\ left[q] > 0 /\ others' = others + 1
      /\ left' = [left EXCEPT ![q] = @ - 1]
      /\ UNCHANGED <<clock, mishaps, resets, overdrawn, refused, rate, pc, call, reply, blockedUntil>>
  BY DEF OtherUser
<1>2. others \in 0..MaxOthers /\ left \in [Quotas -> Nat]
      /\ \A r \in Quotas : left[r] \in 0..Capacity[r]
  BY DEF BudgetTypes, TypeOK
<1>3. others' \in 0..MaxOthers
  BY <1>1, <1>2, BudgetConstants
<1>4. left' \in [Quotas -> Nat] /\ \A r \in Quotas : left'[r] \in 0..Capacity[r]
  BY <1>1, <1>2, BudgetConstants
<1>5. TypeOK'
  BY <1>1, <1>3, <1>4 DEF BudgetTypes, TypeOK
<1> QED
  BY <1>1, <1>4, <1>5 DEF BudgetTypes

LEMMA BudgetTypesCheck ==
  ASSUME BudgetTypes, NEW c \in Callers, NEW q \in Quotas, Check(c, q)
  PROVE  BudgetTypes'
<1>1. /\ pc[c] = "idle"
      /\ pc' = [pc EXCEPT ![c] = "send"]
      /\ call' = [call EXCEPT ![c] = [quota |-> q, attempt |-> 1]]
      /\ UNCHANGED <<clock, mishaps, others, left, resets, overdrawn, refused, rate, reply, blockedUntil>>
  BY DEF Check, service
<1>2. /\ pc \in [Callers -> {"idle", "send", "answer"}]
      /\ call \in [Callers -> [quota: Quotas, attempt: 0..MaxAttempts]]
      /\ \A d \in Callers : pc[d] # "answer" => reply[d] = NoReply
      /\ \A d \in Callers : pc[d] # "idle" => call[d].attempt >= 1
  BY DEF BudgetTypes, TypeOK
<1>3. /\ pc' \in [Callers -> {"idle", "send", "answer"}]
      /\ call' \in [Callers -> [quota: Quotas, attempt: 0..MaxAttempts]]
  BY <1>1, <1>2, BudgetConstants
<1>4. \A d \in Callers : pc'[d] # "answer" => reply'[d] = NoReply
  BY <1>1, <1>2
<1>5. \A d \in Callers : pc'[d] # "idle" => call'[d].attempt >= 1
  BY <1>1, <1>2
<1>6. TypeOK'
  BY <1>1, <1>3, <1>4 DEF BudgetTypes, TypeOK
<1> QED
  BY <1>1, <1>5, <1>6 DEF BudgetTypes

\* What a call does after an attempt.
LEMMA BudgetTypesContinue ==
  ASSUME BudgetTypes, NEW c \in Callers, pc[c] # "idle",
         (\E status : Continue(c, status)) \/ End(c),
         reply' = [reply EXCEPT ![c] = NoReply]
  PROVE  /\ pc' \in [Callers -> {"idle", "send", "answer"}]
         /\ call' \in [Callers -> [quota: Quotas, attempt: 0..MaxAttempts]]
         /\ reply' \in [Callers -> Reply]
         /\ \A d \in Callers : pc'[d] # "answer" => reply'[d] = NoReply
         /\ \A d \in Callers : pc'[d] # "idle" => call'[d].attempt >= 1
<1>1. /\ pc \in [Callers -> {"idle", "send", "answer"}]
      /\ call \in [Callers -> [quota: Quotas, attempt: 0..MaxAttempts]]
      /\ reply \in [Callers -> Reply]
      /\ \A d \in Callers : pc[d] # "answer" => reply[d] = NoReply
      /\ \A d \in Callers : pc[d] # "idle" => call[d].attempt >= 1
  BY DEF BudgetTypes, TypeOK
<1>2. reply' \in [Callers -> Reply]
  <2>1. NoReply \in Reply
    BY DEF NoReply, Reply
  <2> QED
    BY <1>1, <2>1
<1>3. CASE End(c)
  <2>1. pc' = [pc EXCEPT ![c] = "idle"] /\ call' = [call EXCEPT ![c] = NoCall]
    BY <1>3 DEF End
  <2> QED
    BY <1>1, <1>2, <2>1, NoCallIsACall
<1>4. CASE /\ call[c].attempt < MaxAttempts
           /\ pc' = [pc EXCEPT ![c] = "send"]
           /\ call' = [call EXCEPT ![c].attempt = @ + 1]
  <2>1. /\ call[c] \in [quota: Quotas, attempt: 0..MaxAttempts]
        /\ call' = [call EXCEPT ![c] = [call[c] EXCEPT !.attempt = @ + 1]]
    BY <1>1, <1>4
  <2>2. [call[c] EXCEPT !.attempt = @ + 1] \in [quota: Quotas, attempt: 0..MaxAttempts]
    BY <1>4, <2>1, BudgetConstants
  <2>3. [call[c] EXCEPT !.attempt = @ + 1].attempt >= 1
    BY <2>1
  <2> QED
    BY <1>1, <1>2, <1>4, <2>1, <2>2, <2>3
<1> QED
  BY <1>3, <1>4 DEF Continue

\* Of the two policies the quota's own is the tighter one.
LEMMA TightestIsTheQuota ==
  ASSUME NEW q \in Quotas, left'[q] \in 0..Capacity[q]
  PROVE  Tightest(Header(q)) = [remaining |-> left'[q], resetIn |-> resets'[q] - clock]
<1> DEFINE policies == Header(q)
           before(i, j) == policies[i].remaining < policies[j].remaining
                             \/ (policies[i].remaining = policies[j].remaining /\ i <= j)
           first == CHOOSE i \in DOMAIN policies : \A j \in DOMAIN policies : before(i, j)
<1>1. /\ DOMAIN policies = {1, 2}
      /\ policies[1].remaining = Capacity[q] + 1
      /\ policies[2] = [remaining |-> left'[q], resetIn |-> resets'[q] - clock]
      /\ policies[2].remaining = left'[q]
  BY DEF Header
<1>2. Tightest(Header(q)) = policies[first]
  BY DEF Tightest
<1>3. left'[q] \in Nat /\ left'[q] < Capacity[q] + 1 /\ Capacity[q] \in Nat
  BY BudgetConstants
<1> HIDE DEF policies
<1>4. \A j \in {1, 2} : before(2, j)
  BY <1>1, <1>3
<1>5. ~before(1, 2)
  BY <1>1, <1>3
<1> HIDE DEF before
<1>6. first \in {1, 2} /\ \A j \in {1, 2} : before(first, j)
  BY <1>1, <1>4
<1>7. first = 2
  BY <1>5, <1>6
<1> QED
  BY <1>1, <1>2, <1>7

\* A request sent: what is left of its quota, when the window ends, and what
\* the answer will say.
LEMMA RequestSent ==
  ASSUME BudgetTypes, NEW c \in Callers, Send(c)
  PROVE  LET q == call[c].quota IN
         /\ q \in Quotas /\ pc[c] = "send" /\ pc' = [pc EXCEPT ![c] = "answer"]
         /\ left' = [left EXCEPT ![q] = IF left[q] = 0 THEN 0 ELSE left[q] - 1]
         /\ resets' = [resets EXCEPT ![q] =
              IF left[q] = 0 /\ refused[q] = 0 THEN clock + Window ELSE resets[q]]
         /\ overdrawn' = [overdrawn EXCEPT ![q] = IF left[q] \in 1..Reserve[q] THEN @ + 1 ELSE @]
         /\ refused' = [refused EXCEPT ![q] = IF left[q] = 0 THEN @ + 1 ELSE @]
         /\ \E status \in {"final", "error", "blocked"}, headers \in BOOLEAN :
              /\ status = "blocked" <=> left[q] = 0
              /\ reply' = [reply EXCEPT ![c] =
                   [status |-> status, headers |-> headers,
                    remaining |-> IF headers THEN left'[q] ELSE 0,
                    resetIn |-> IF headers THEN resets'[q] - clock ELSE 0]]
              /\ IF headers \/ status = "blocked"
                 THEN UNCHANGED mishaps
                 ELSE mishaps < MaxMishaps /\ mishaps' = mishaps + 1
         /\ UNCHANGED <<clock, others, rate, call, blockedUntil>>
<1> DEFINE q == call[c].quota
<1>1. /\ call \in [Callers -> [quota: Quotas, attempt: 0..MaxAttempts]]
      /\ left \in [Quotas -> Nat] /\ \A r \in Quotas : left[r] \in 0..Capacity[r]
  BY DEF BudgetTypes, TypeOK
<1>2. q \in Quotas
  BY <1>1
<1>3. /\ pc[c] = "send" /\ pc' = [pc EXCEPT ![c] = "answer"]
      /\ UNCHANGED <<clock, others, rate, call, blockedUntil>>
  BY DEF Send
<1>4. Answers(q)
  BY DEF Send
<1>5. PICK status \in IF left[q] = 0 THEN {"blocked"} ELSE {"final", "error"}, headers \in BOOLEAN :
        /\ reply' = [reply EXCEPT ![c] = Answer(q, status, headers)]
        /\ IF headers \/ status = "blocked"
           THEN UNCHANGED mishaps
           ELSE mishaps < MaxMishaps /\ mishaps' = mishaps + 1
  BY DEF Send
<1> HIDE DEF q
<1>6. left' = [left EXCEPT ![q] = IF left[q] = 0 THEN 0 ELSE left[q] - 1]
  BY <1>4 DEF Answers
<1>7. resets' = [resets EXCEPT ![q] =
        IF left[q] = 0 /\ refused[q] = 0 THEN clock + Window ELSE resets[q]]
  BY <1>4 DEF Answers
<1>8. /\ overdrawn' = [overdrawn EXCEPT ![q] = IF left[q] \in 1..Reserve[q] THEN @ + 1 ELSE @]
      /\ refused' = [refused EXCEPT ![q] = IF left[q] = 0 THEN @ + 1 ELSE @]
  BY <1>4 DEF Answers
<1>9. left'[q] \in 0..Capacity[q]
  BY <1>1, <1>2, <1>6, BudgetConstants
<1>10. Answer(q, status, headers) =
         [status |-> status, headers |-> headers,
          remaining |-> IF headers THEN left'[q] ELSE 0,
          resetIn |-> IF headers THEN resets'[q] - clock ELSE 0]
  <2>1. CASE headers
    <3>1. Tightest(Header(q)) = [remaining |-> left'[q], resetIn |-> resets'[q] - clock]
      BY <1>2, <1>9, TightestIsTheQuota
    <3> DEFINE quota == IF headers THEN Tightest(Header(q)) ELSE [remaining |-> 0, resetIn |-> 0]
    <3>2. quota = [remaining |-> left'[q], resetIn |-> resets'[q] - clock]
      BY <2>1, <3>1
    <3>3. Answer(q, status, headers) =
            [status |-> status, headers |-> headers,
             remaining |-> quota.remaining, resetIn |-> quota.resetIn]
      BY DEF Answer
    <3> HIDE DEF quota
    <3>4. quota.remaining = left'[q] /\ quota.resetIn = resets'[q] - clock
      BY <3>2
    <3> QED
      BY <2>1, <3>3, <3>4
  <2>2. CASE ~headers
    BY <2>2 DEF Answer
  <2> QED
    BY <2>1, <2>2
<1>11. status \in {"final", "error", "blocked"} /\ (status = "blocked" <=> left[q] = 0)
  BY <1>5
<1> QED
  BY <1>2, <1>3, <1>5, <1>6, <1>7, <1>8, <1>10, <1>11 DEF q

LEMMA BudgetTypesSend ==
  ASSUME BudgetTypes, NEW c \in Callers, Send(c)
  PROVE  BudgetTypes'
<1> DEFINE q == call[c].quota
<1>1. /\ q \in Quotas /\ pc[c] = "send" /\ pc' = [pc EXCEPT ![c] = "answer"]
      /\ left' = [left EXCEPT ![q] = IF left[q] = 0 THEN 0 ELSE left[q] - 1]
      /\ resets' = [resets EXCEPT ![q] =
           IF left[q] = 0 /\ refused[q] = 0 THEN clock + Window ELSE resets[q]]
      /\ overdrawn' = [overdrawn EXCEPT ![q] = IF left[q] \in 1..Reserve[q] THEN @ + 1 ELSE @]
      /\ refused' = [refused EXCEPT ![q] = IF left[q] = 0 THEN @ + 1 ELSE @]
      /\ UNCHANGED <<clock, others, rate, call, blockedUntil>>
  BY RequestSent
<1>2. PICK status \in {"final", "error", "blocked"}, headers \in BOOLEAN :
        /\ reply' = [reply EXCEPT ![c] =
             [status |-> status, headers |-> headers,
              remaining |-> IF headers THEN left'[q] ELSE 0,
              resetIn |-> IF headers THEN resets'[q] - clock ELSE 0]]
        /\ IF headers \/ status = "blocked"
           THEN UNCHANGED mishaps
           ELSE mishaps < MaxMishaps /\ mishaps' = mishaps + 1
  BY RequestSent
<1> HIDE DEF q
<1>3. /\ clock \in 0..MaxClock /\ mishaps \in 0..MaxMishaps
      /\ left \in [Quotas -> Nat] /\ \A r \in Quotas : left[r] \in 0..Capacity[r]
      /\ resets \in [Quotas -> 1..MaxClock + Window]
      /\ overdrawn \in [Quotas -> Nat] /\ refused \in [Quotas -> Nat]
      /\ pc \in [Callers -> {"idle", "send", "answer"}]
      /\ reply \in [Callers -> Reply]
      /\ \A d \in Callers : pc[d] # "answer" => reply[d] = NoReply
  BY DEF BudgetTypes, TypeOK
<1>4. /\ \A r \in Quotas : clock < resets[r] /\ resets[r] <= clock + Window
      /\ \A d \in Callers : pc[d] # "idle" => call[d].attempt >= 1
  BY DEF BudgetTypes
<1>5. mishaps' \in 0..MaxMishaps
  BY <1>2, <1>3, BudgetConstants
<1>6. left' \in [Quotas -> Nat] /\ \A r \in Quotas : left'[r] \in 0..Capacity[r]
  BY <1>1, <1>3, BudgetConstants
<1>7. /\ resets' \in [Quotas -> 1..MaxClock + Window]
      /\ \A r \in Quotas : clock < resets'[r] /\ resets'[r] <= clock + Window
  <2>1. CASE left[q] = 0 /\ refused[q] = 0
    BY <1>1, <1>3, <1>4, <2>1, BudgetConstants
  <2>2. CASE ~(left[q] = 0 /\ refused[q] = 0)
    <3>1. resets' = resets
      BY <1>1, <1>3, <2>2
    <3> QED
      BY <1>3, <1>4, <3>1
  <2> QED
    BY <2>1, <2>2
<1>8. overdrawn' \in [Quotas -> Nat] /\ refused' \in [Quotas -> Nat]
  BY <1>1, <1>3
<1>9. reply' \in [Callers -> Reply]
  <2>1. left'[q] \in Nat /\ resets'[q] - clock \in Nat
    BY <1>1, <1>3, <1>6, <1>7, BudgetConstants
  <2>2. [status |-> status, headers |-> headers,
         remaining |-> IF headers THEN left'[q] ELSE 0,
         resetIn |-> IF headers THEN resets'[q] - clock ELSE 0] \in Reply
    BY <2>1 DEF Reply
  <2> QED
    BY <1>2, <1>3, <2>2
<1>10. /\ pc' \in [Callers -> {"idle", "send", "answer"}]
       /\ \A d \in Callers : pc'[d] # "answer" => reply'[d] = NoReply
       /\ \A d \in Callers : pc'[d] # "idle" => call[d].attempt >= 1
  BY <1>1, <1>2, <1>3, <1>4
<1>11. TypeOK'
  BY <1>1, <1>5, <1>6, <1>7, <1>8, <1>9, <1>10 DEF BudgetTypes, TypeOK
<1> QED
  BY <1>1, <1>6, <1>7, <1>10, <1>11 DEF BudgetTypes

\* What is recorded of an answer.
LEMMA RecordedShape ==
  ASSUME NEW old, NEW answer
  PROVE  /\ answer.status = "blocked" =>
              Recorded(old, answer) =
                [known |-> TRUE, remaining |-> 0,
                 resetAt |-> clock + IF answer.headers THEN answer.resetIn ELSE Window]
         /\ answer.status # "blocked" /\ answer.headers =>
              Recorded(old, answer) =
                [known |-> TRUE, remaining |-> answer.remaining, resetAt |-> clock + answer.resetIn]
         /\ answer.status # "blocked" /\ ~answer.headers => Recorded(old, answer) = old
BY DEF Recorded

LEMMA BudgetTypesReceive ==
  ASSUME BudgetTypes, NEW c \in Callers, Receive(c)
  PROVE  BudgetTypes'
<1> DEFINE q == call[c].quota
<1>1. /\ pc[c] = "answer"
      /\ rate' = [rate EXCEPT ![q] = Recorded(@, reply[c])]
      /\ blockedUntil' = [blockedUntil EXCEPT ![q] =
           IF reply[c].status = "blocked" THEN rate'[q].resetAt ELSE @]
      /\ reply' = [reply EXCEPT ![c] = NoReply]
      /\ Continue(c, reply[c].status)
      /\ UNCHANGED <<clock, mishaps, others, left, resets, overdrawn, refused>>
  BY DEF Receive, Drawn, service
<1>2. /\ clock \in Nat /\ reply[c] \in Reply /\ rate \in [Quotas -> Rate]
      /\ q \in Quotas /\ blockedUntil \in [Quotas -> Nat]
  BY DEF BudgetTypes, TypeOK
<1>3. Recorded(rate[q], reply[c]) \in Rate
  <2>1. rate[q] \in Rate
    BY <1>2
  <2>2. /\ reply[c].headers \in BOOLEAN
        /\ reply[c].remaining \in Nat /\ reply[c].resetIn \in Nat
    BY <1>2 DEF Reply
  <2>3. CASE reply[c].status = "blocked"
    <3>1. Recorded(rate[q], reply[c]) =
            [known |-> TRUE, remaining |-> 0,
             resetAt |-> clock + IF reply[c].headers THEN reply[c].resetIn ELSE Window]
      BY <2>3, RecordedShape
    <3>2. (clock + IF reply[c].headers THEN reply[c].resetIn ELSE Window) \in Nat
      BY <1>2, <2>2, BudgetConstants
    <3> QED
      BY <3>1, <3>2 DEF Rate
  <2>4. CASE reply[c].status # "blocked" /\ reply[c].headers
    <3>1. Recorded(rate[q], reply[c]) =
            [known |-> TRUE, remaining |-> reply[c].remaining, resetAt |-> clock + reply[c].resetIn]
      BY <2>4, RecordedShape
    <3> QED
      BY <1>2, <2>2, <3>1 DEF Rate
  <2>5. CASE reply[c].status # "blocked" /\ ~reply[c].headers
    BY <2>1, <2>5, RecordedShape
  <2> QED
    BY <2>3, <2>4, <2>5
<1>4. rate' \in [Quotas -> Rate]
  BY <1>1, <1>2, <1>3
<1>5. blockedUntil' \in [Quotas -> Nat]
  BY <1>1, <1>2, <1>4 DEF Rate
<1>6. /\ pc' \in [Callers -> {"idle", "send", "answer"}]
      /\ call' \in [Callers -> [quota: Quotas, attempt: 0..MaxAttempts]]
      /\ reply' \in [Callers -> Reply]
      /\ \A d \in Callers : pc'[d] # "answer" => reply'[d] = NoReply
      /\ \A d \in Callers : pc'[d] # "idle" => call'[d].attempt >= 1
  BY <1>1, BudgetTypesContinue
<1>7. TypeOK'
  BY <1>1, <1>4, <1>5, <1>6 DEF BudgetTypes, TypeOK
<1> QED
  BY <1>1, <1>6, <1>7 DEF BudgetTypes

LEMMA BudgetTypesLose ==
  ASSUME BudgetTypes, NEW c \in Callers, Lose(c)
  PROVE  BudgetTypes'
<1>1. /\ pc[c] = "answer" /\ mishaps < MaxMishaps /\ mishaps' = mishaps + 1
      /\ reply' = [reply EXCEPT ![c] = NoReply]
      /\ Continue(c, "lost") \/ End(c)
      /\ UNCHANGED <<clock, others, left, resets, overdrawn, refused, rate, blockedUntil>>
  BY DEF Lose, service
<1>2. mishaps' \in 0..MaxMishaps
  BY <1>1, BudgetConstants DEF BudgetTypes, TypeOK
<1>3. /\ pc' \in [Callers -> {"idle", "send", "answer"}]
      /\ call' \in [Callers -> [quota: Quotas, attempt: 0..MaxAttempts]]
      /\ reply' \in [Callers -> Reply]
      /\ \A d \in Callers : pc'[d] # "answer" => reply'[d] = NoReply
      /\ \A d \in Callers : pc'[d] # "idle" => call'[d].attempt >= 1
  BY <1>1, BudgetTypesContinue
<1>4. TypeOK'
  BY <1>1, <1>2, <1>3 DEF BudgetTypes, TypeOK
<1> QED
  BY <1>1, <1>3, <1>4 DEF BudgetTypes

LEMMA BudgetTypesCancel ==
  ASSUME BudgetTypes, NEW c \in Callers, Cancel(c)
  PROVE  BudgetTypes'
<1>1. /\ pc[c] = "send" /\ mishaps < MaxMishaps /\ mishaps' = mishaps + 1 /\ End(c)
      /\ UNCHANGED <<clock, others, left, resets, overdrawn, refused, rate, reply, blockedUntil>>
  BY DEF Cancel, service
<1>2. mishaps' \in 0..MaxMishaps
  BY <1>1, BudgetConstants DEF BudgetTypes, TypeOK
<1>3. reply' = [reply EXCEPT ![c] = NoReply]
  BY <1>1 DEF BudgetTypes, TypeOK
<1>4. /\ pc' \in [Callers -> {"idle", "send", "answer"}]
      /\ call' \in [Callers -> [quota: Quotas, attempt: 0..MaxAttempts]]
      /\ reply' \in [Callers -> Reply]
      /\ \A d \in Callers : pc'[d] # "answer" => reply'[d] = NoReply
      /\ \A d \in Callers : pc'[d] # "idle" => call'[d].attempt >= 1
  BY <1>1, <1>3, BudgetTypesContinue
<1>5. TypeOK'
  BY <1>1, <1>2, <1>4 DEF BudgetTypes, TypeOK
<1> QED
  BY <1>1, <1>4, <1>5 DEF BudgetTypes

LEMMA BudgetTypesNext == BudgetTypes /\ [Next]_vars => BudgetTypes'
<1>1. ASSUME BudgetTypes, UNCHANGED vars PROVE BudgetTypes'
  BY <1>1 DEF BudgetTypes, TypeOK, vars, service
<1>2. ASSUME BudgetTypes, NEW c \in Callers, NEW q \in Quotas, Refuse(c, q)
      PROVE  BudgetTypes'
  BY <1>1, <1>2 DEF Refuse
<1> QED
  BY <1>1, <1>2, BudgetTypesTick, BudgetTypesOther, BudgetTypesCheck, BudgetTypesSend,
     BudgetTypesReceive, BudgetTypesLose, BudgetTypesCancel DEF Next, Attempt

-----------------------------------------------------------------------------
(* The budget guard: what a window's calls can still do.                   *)
(*                                                                         *)
(* A caller waits for an OLD answer if recording it may open the guard:    *)
(* one that was sent before the reserve was reached, or in an earlier      *)
(* window.  Any other answer either closes the guard to the end of the     *)
(* window or, without headers, leaves the record as it is.  While the      *)
(* guard is SHUT only the calls that passed it go on.                      *)

Sending(c, q) == pc[c] = "send" /\ call[c].quota = q
Answering(c, q) == pc[c] = "answer" /\ call[c].quota = q

Shut(q) == rate[q].known /\ rate[q].remaining <= Reserve[q] /\ rate[q].resetAt >= resets[q]

\* Recorded now, the answer shuts the guard.
Closing(c, q) ==
  \/ reply[c].status = "blocked" /\ ~reply[c].headers
  \/ /\ reply[c].headers
     /\ reply[c].status = "blocked" \/ reply[c].remaining <= Reserve[q]
     /\ clock + reply[c].resetIn >= resets[q]
Silent(c) == reply[c].status # "blocked" /\ ~reply[c].headers

IsOld(c, q) == Answering(c, q) /\ ~Closing(c, q) /\ ~Silent(c)
Old(q) == {c \in Callers : IsOld(c, q)}

\* Of the attempts of a caller without an old answer, those that can be made
\* before the next old answer is recorded: the ones left of its call, or those
\* of a new call if the guard is open.  An answer that closes has cost one.
MayTry(c, k, q) ==
  IF Shut(q)
  THEN \/ Sending(c, q) /\ k >= call[c].attempt
       \/ Answering(c, q) /\ k > call[c].attempt
  ELSE Answering(c, q) /\ Closing(c, q) => k > 1

Turns(q) ==
  {p \in Callers \X (1..MaxAttempts) : ~IsOld(p[1], q) /\ MayTry(p[1], p[2], q)}

\* The same for requests that are refused, which end their call: one per
\* caller.
MayMeet(c, q) ==
  IF Shut(q)
  THEN Sending(c, q) \/ (Answering(c, q) /\ reply[c].status # "blocked")
  ELSE ~(Answering(c, q) /\ reply[c].status = "blocked")

Free(q) == {p \in Callers \X (1..1) : ~IsOld(p[1], q) /\ MayMeet(p[1], q)}

\* The k-th of the old answers to be recorded finds at most all callers but
\* those that still wait for one, so o of them stand for the sum of
\* N - o + 1, ..., N turns of `width` requests each; twice that sum is Late(o).
N == Cardinality(Callers)
Late(o) == o * (2 * N - o + 1)

\* What was used and what can still be, within the bound.
Affordable(width, used, turns, old, lost) ==
  2 * used + 2 * Cardinality(turns) + width * Late(Cardinality(old)) <=
    width * (N * (N + 1)) + 2 * lost

ReserveInv(q) ==
  /\ left[q] > Reserve[q] => overdrawn[q] = 0
  /\ left[q] > 0 => Affordable(MaxAttempts, overdrawn[q], Turns(q), Old(q), mishaps)
  /\ 2 * overdrawn[q] <= MaxAttempts * (N * (N + 1)) + 2 * mishaps

BlockInv(q) ==
  refused[q] > 0 =>
    left[q] = 0 /\ Affordable(1, refused[q], Free(q), Old(q), mishaps)

BudgetInv == BudgetTypes /\ \A q \in Quotas : ReserveInv(q) /\ BlockInv(q)

LEMMA NumberOfCallers ==
  /\ N \in Nat
  /\ \A S \in SUBSET Callers : IsFiniteSet(S) /\ Cardinality(S) \in Nat /\ Cardinality(S) <= N
<1>1. IsFiniteSet(Callers)
  BY BudgetAssumption
<1>2. N \in Nat
  BY <1>1, FS_CardinalityType DEF N
<1>3. ASSUME NEW S \in SUBSET Callers
      PROVE  IsFiniteSet(S) /\ Cardinality(S) \in Nat /\ Cardinality(S) <= N
  BY <1>1, FS_Subset, FS_CardinalityType DEF N
<1> QED
  BY <1>2, <1>3

LEMMA LateType == ASSUME NEW o \in 0..N PROVE Late(o) \in Nat
<1>1. 2 * N - o + 1 \in Nat /\ o \in Nat
  BY NumberOfCallers
<1> QED
  BY <1>1 DEF Late

LEMMA SquareIsNoLess == ASSUME NEW d \in Nat PROVE d * d >= d
<1>1. CASE d = 0
  BY <1>1
<1>2. CASE d >= 1
  <2>1. d - 1 \in Nat
    BY <1>2
  <2>2. d * (d - 1) \in Nat
    BY <2>1
  <2>3. d * d = d * (d - 1) + d
    OBVIOUS
  <2> QED
    BY <2>2, <2>3
<1> QED
  BY <1>1, <1>2

\* Fewer old answers stand for fewer turns, by at least one each.
LEMMA LateDrops ==
  ASSUME NEW o \in 0..N, NEW p \in 0..o
  PROVE  Late(o) >= Late(p) + 2 * (o - p)
<1>1. N \in Nat
  BY NumberOfCallers
<1>2. PICK d \in Nat : o = p + d
  <2>1. o - p \in Nat /\ o = p + (o - p)
    OBVIOUS
  <2> QED
    BY <2>1
<1>3. PICK e \in Nat : N = p + d + e
  <2>1. N - o \in Nat /\ N = o + (N - o)
    BY <1>1
  <2>2. N = p + d + (N - o)
    BY <1>1, <1>2, <2>1
  <2> QED
    BY <2>1, <2>2
<1>4. Late(o) = (p + d) * (p + d + 2 * e + 1)
  BY <1>2, <1>3 DEF Late
<1>5. Late(p) = p * (p + 2 * d + 2 * e + 1)
  BY <1>2, <1>3 DEF Late
<1>6. (p + d) * (p + d + 2 * e + 1) = p * (p + 2 * d + 2 * e + 1) + d * d + 2 * (d * e) + d
  BY <1>2, <1>3
<1>7. d * d >= d
  BY SquareIsNoLess
<1>8. d * e \in Nat /\ d * d \in Nat
  OBVIOUS
<1>9. 2 * (o - p) = 2 * d
  BY <1>2
<1> QED
  BY <1>4, <1>5, <1>6, <1>7, <1>8, <1>9

\* The old answer recorded lets the callers go that do not wait for one.
LEMMA LateOne ==
  ASSUME NEW o \in 1..N
  PROVE  Late(o) = Late(o - 1) + 2 * (N - (o - 1))
<1>1. N \in Nat
  BY NumberOfCallers
<1>2. PICK p \in Nat : o = p + 1
  <2>1. o - 1 \in Nat /\ o = (o - 1) + 1
    OBVIOUS
  <2> QED
    BY <2>1
<1>3. Late(o) = (p + 1) * (2 * N - p)
  BY <1>1, <1>2 DEF Late
<1>4. Late(o - 1) = p * (2 * N - p + 1)
  BY <1>1, <1>2 DEF Late
<1>5. (p + 1) * (2 * N - p) = p * (2 * N - p + 1) + 2 * (N - p)
  BY <1>1
<1> QED
  BY <1>2, <1>3, <1>4, <1>5

\* All of it is within the bound.
LEMMA LateFits ==
  ASSUME NEW o \in 0..N
  PROVE  Late(o) + 2 * (N - o) <= N * (N + 1)
<1>1. N \in Nat
  BY NumberOfCallers
<1>2. PICK d \in Nat : N = o + d
  <2>1. N - o \in Nat /\ N = o + (N - o)
    BY <1>1
  <2> QED
    BY <2>1
<1>3. Late(o) + 2 * (N - o) = o * (o + 2 * d + 1) + 2 * d
  BY <1>2 DEF Late
<1>4. N * (N + 1) = o * (o + 2 * d + 1) + d * d + d
  BY <1>2
<1>5. d * d >= d
  BY SquareIsNoLess
<1>6. o * (o + 2 * d + 1) \in Nat /\ d * d \in Nat
  OBVIOUS
<1> QED
  BY <1>3, <1>4, <1>5, <1>6

\* Turns are pairs of a caller and an attempt, at most `width` for each of the
\* callers that do not wait for an old answer.
LEMMA TurnsBounded ==
  ASSUME NEW width \in Nat, NEW old \in SUBSET Callers,
         NEW turns \in SUBSET ((Callers \ old) \X (1..width))
  PROVE  /\ IsFiniteSet(turns) /\ Cardinality(turns) \in Nat
         /\ Cardinality(turns) <= width * (N - Cardinality(old))
<1> DEFINE rest == Callers \ old
           all == rest \X (1..width)
<1>1. IsFiniteSet(Callers)
  BY BudgetAssumption
<1>2. IsFiniteSet(rest) /\ Cardinality(rest) = N - Cardinality(old)
  <2>1. Callers \cap old = old
    OBVIOUS
  <2> QED
    BY <1>1, <2>1, FS_Difference DEF N
<1>3. IsFiniteSet(1..width) /\ Cardinality(1..width) = width
  <2>1. Cardinality(1..width) = IF 1 > width THEN 0 ELSE width - 1 + 1
    BY FS_Interval
  <2>2. IsFiniteSet(1..width)
    BY FS_Interval
  <2> QED
    BY <2>1, <2>2
<1> HIDE DEF rest
<1>4. IsFiniteSet(all) /\ Cardinality(all) = Cardinality(rest) * width
  BY <1>2, <1>3, FS_Product
<1>5. turns \in SUBSET all
  BY DEF rest
<1> HIDE DEF all
<1>6. IsFiniteSet(turns) /\ Cardinality(turns) <= Cardinality(all)
  BY <1>4, <1>5, FS_Subset
<1>7. Cardinality(turns) \in Nat
  BY <1>6, FS_CardinalityType
<1>8. N - Cardinality(old) \in Nat
  BY NumberOfCallers
<1>9. Cardinality(all) = width * (N - Cardinality(old))
  BY <1>2, <1>4, <1>8
<1> QED
  BY <1>6, <1>7, <1>9

LEMMA Shared ==
  ASSUME NEW w \in Nat, NEW l \in Nat, NEW r \in Nat, NEW s \in Nat
  PROVE  w * (l + 2 * r + s) = w * l + 2 * (w * r) + w * s
OBVIOUS

LEMMA AffordableAtFirst ==
  ASSUME NEW width \in Nat, NEW old \in SUBSET Callers,
         NEW turns \in SUBSET ((Callers \ old) \X (1..width)), NEW lost \in Nat
  PROVE  Affordable(width, 0, turns, old, lost)
<1> DEFINE o == Cardinality(old)
           t == Cardinality(turns)
<1>1. N \in Nat /\ o \in 0..N
  BY NumberOfCallers
<1>2. t \in Nat /\ t <= width * (N - o)
  BY TurnsBounded
<1> HIDE DEF o, t
<1>3. Late(o) \in Nat /\ Late(o) + 2 * (N - o) <= N * (N + 1)
  BY <1>1, LateType, LateFits
<1>4. PICK spare \in Nat : N * (N + 1) = Late(o) + 2 * (N - o) + spare
  <2>1. N * (N + 1) \in Nat /\ N - o \in Nat
    BY <1>1
  <2>2. N * (N + 1) - (Late(o) + 2 * (N - o)) \in Nat
    BY <1>3, <2>1
  <2> QED
    BY <1>3, <2>1, <2>2
<1>5. width * (N * (N + 1)) = width * Late(o) + 2 * (width * (N - o)) + width * spare
  <2>1. N - o \in Nat
    BY <1>1
  <2> QED
    BY <1>3, <1>4, <2>1, Shared
<1>6. width * spare \in Nat
  OBVIOUS
<1>7. width * Late(o) \in Nat /\ width * (N - o) \in Nat
  BY <1>1, <1>3
<1>8. 2 * 0 + 2 * t + width * Late(o) <= width * (N * (N + 1)) + 2 * lost
  BY <1>2, <1>5, <1>6, <1>7
<1> QED
  BY <1>8 DEF Affordable, o, t

\* Old answers may become answers that close or be lost, and turns may end.
LEMMA AffordableStays ==
  ASSUME NEW width \in Nat \ {0}, NEW used \in Nat, NEW lost \in Nat, NEW lost2 \in Nat,
         NEW old \in SUBSET Callers, NEW old2 \in SUBSET old,
         NEW turns \in SUBSET ((Callers \ old) \X (1..width)),
         NEW turns2 \in SUBSET (turns \cup ((old \ old2) \X (1..width))),
         lost <= lost2, Affordable(width, used, turns, old, lost)
  PROVE  Affordable(width, used, turns2, old2, lost2)
<1> DEFINE o == Cardinality(old)
           p == Cardinality(old2)
           t == Cardinality(turns)
           u == Cardinality(turns2)
           more == (old \ old2) \X (1..width)
<1>1. N \in Nat /\ o \in 0..N /\ IsFiniteSet(old)
  BY NumberOfCallers
<1>2. IsFiniteSet(old2) /\ p \in Nat /\ p <= o
  BY <1>1, FS_Subset, FS_CardinalityType
<1>3. IsFiniteSet(turns) /\ t \in Nat
  BY TurnsBounded
<1>4. IsFiniteSet(more) /\ Cardinality(more) \in Nat /\ Cardinality(more) = width * (o - p)
  <2> DEFINE gone == old \ old2
  <2>1. IsFiniteSet(gone) /\ Cardinality(gone) = o - p
    <3>1. old \cap old2 = old2
      OBVIOUS
    <3> QED
      BY <1>1, <3>1, FS_Difference
  <2>2. IsFiniteSet(1..width) /\ Cardinality(1..width) = width
    <3>1. Cardinality(1..width) = IF 1 > width THEN 0 ELSE width - 1 + 1
      BY FS_Interval
    <3>2. IsFiniteSet(1..width)
      BY FS_Interval
    <3> QED
      BY <3>1, <3>2
  <2> HIDE DEF gone
  <2>3. IsFiniteSet(gone \X (1..width)) /\ Cardinality(gone \X (1..width)) = Cardinality(gone) * width
    BY <2>1, <2>2, FS_Product
  <2>4. more = gone \X (1..width)
    BY DEF gone
  <2> HIDE DEF more
  <2>5. o - p \in Nat
    BY <1>1, <1>2
  <2> HIDE DEF o, p
  <2>6. Cardinality(more) = width * (o - p)
    BY <2>1, <2>3, <2>4, <2>5
  <2>7. IsFiniteSet(more)
    BY <2>3, <2>4
  <2> QED
    BY <2>6, <2>7, FS_CardinalityType
<1>5. u \in Nat /\ u <= t + width * (o - p)
  <2> DEFINE both == turns \cup more
  <2> HIDE DEF more
  <2>1. IsFiniteSet(both) /\ Cardinality(both) = t + Cardinality(more) - Cardinality(turns \cap more)
    BY <1>3, <1>4, FS_Union
  <2>2. Cardinality(turns \cap more) \in Nat
    BY <1>3, FS_Intersection, FS_CardinalityType
  <2>3. turns2 \in SUBSET both
    BY DEF more
  <2> HIDE DEF both
  <2>4. IsFiniteSet(turns2) /\ u <= Cardinality(both) /\ u \in Nat
    BY <2>1, <2>3, FS_Subset, FS_CardinalityType
  <2>5. Cardinality(both) <= t + Cardinality(more)
    BY <1>3, <1>4, <2>1, <2>2
  <2> HIDE DEF u, t, o, p
  <2> QED
    BY <1>3, <1>4, <2>1, <2>4, <2>5, FS_CardinalityType
<1>6. 2 * used + 2 * t + width * Late(o) <= width * (N * (N + 1)) + 2 * lost
  BY DEF Affordable
<1> HIDE DEF o, p, t, u, more
<1>7. Late(o) \in Nat /\ Late(p) \in Nat /\ Late(o) >= Late(p) + 2 * (o - p)
  BY <1>1, <1>2, LateType, LateDrops
<1>8. PICK spare \in Nat : Late(o) = Late(p) + 2 * (o - p) + spare
  <2>1. o - p \in Nat
    BY <1>1, <1>2
  <2>2. Late(o) - (Late(p) + 2 * (o - p)) \in Nat
    BY <1>7, <2>1
  <2> QED
    BY <1>7, <2>1, <2>2
<1>9. width * Late(o) = width * Late(p) + 2 * (width * (o - p)) + width * spare
  BY <1>1, <1>2, <1>7, <1>8
<1>10. width * spare \in Nat /\ width * (o - p) \in Nat /\ width * Late(p) \in Nat
  BY <1>1, <1>2, <1>7
<1>11. width * (N * (N + 1)) \in Nat
  BY <1>1
<1>12. 2 * used + 2 * u + width * Late(p) <= width * (N * (N + 1)) + 2 * lost2
  <2> DEFINE a == width * Late(p)
             b == width * (o - p)
             c == width * spare
             z == width * (N * (N + 1))
  <2>1. a \in Nat /\ b \in Nat /\ c \in Nat /\ z \in Nat
    BY <1>10, <1>11
  <2>2. 2 * used + 2 * t + (a + 2 * b + c) <= z + 2 * lost /\ u <= t + b
    BY <1>5, <1>6, <1>9
  <2> HIDE DEF a, b, c, z
  <2>3. 2 * used + 2 * u + a <= z + 2 * lost2
    BY <1>3, <1>5, <2>1, <2>2
  <2> QED
    BY <2>3 DEF a, z
<1> QED
  BY <1>12 DEF Affordable, p, u

\* A request made is a turn used.
LEMMA AffordableUsed ==
  ASSUME NEW width \in Nat \ {0}, NEW used \in Nat, NEW lost \in Nat,
         NEW old \in SUBSET Callers,
         NEW turns \in SUBSET ((Callers \ old) \X (1..width)),
         NEW turn \in turns, NEW turns2 \in SUBSET (turns \ {turn}),
         Affordable(width, used, turns, old, lost)
  PROVE  Affordable(width, used + 1, turns2, old, lost)
<1> DEFINE t == Cardinality(turns)
           u == Cardinality(turns2)
           z == width * (N * (N + 1))
           a == width * Late(Cardinality(old))
<1>1. IsFiniteSet(turns) /\ t \in Nat
  BY TurnsBounded
<1>2. IsFiniteSet(turns \ {turn}) /\ Cardinality(turns \ {turn}) = t - 1
  BY <1>1, FS_RemoveElement
<1>3. u \in Nat /\ u <= t - 1
  BY <1>2, FS_Subset, FS_CardinalityType
<1>4. Cardinality(old) \in 0..N
  BY NumberOfCallers
<1>5. a \in Nat /\ z \in Nat
  BY <1>4, LateType, NumberOfCallers
<1>6. 2 * used + 2 * t + a <= z + 2 * lost
  BY DEF Affordable
<1> HIDE DEF t, u, a, z
<1>7. 2 * (used + 1) + 2 * u + a <= z + 2 * lost
  BY <1>1, <1>3, <1>5, <1>6
<1> QED
  BY <1>7 DEF Affordable, u, a, z

\* A mishap may give one turn back, or make up for a request.
LEMMA AffordableMishap ==
  ASSUME NEW width \in Nat \ {0}, NEW used \in Nat, NEW lost \in Nat,
         NEW old \in SUBSET Callers,
         NEW turns \in SUBSET ((Callers \ old) \X (1..width)),
         Affordable(width, used, turns, old, lost)
  PROVE  /\ \A turn : \A turns2 \in SUBSET (turns \cup {turn}) :
              Affordable(width, used, turns2, old, lost + 1)
         /\ \A turns2 \in SUBSET turns : Affordable(width, used + 1, turns2, old, lost + 1)
<1> DEFINE t == Cardinality(turns)
           z == width * (N * (N + 1))
           a == width * Late(Cardinality(old))
<1>1. IsFiniteSet(turns) /\ t \in Nat
  BY TurnsBounded
<1>2. Cardinality(old) \in 0..N
  BY NumberOfCallers
<1>3. a \in Nat /\ z \in Nat
  BY <1>2, LateType, NumberOfCallers
<1>4. 2 * used + 2 * t + a <= z + 2 * lost
  BY DEF Affordable
<1>5. ASSUME NEW turn, NEW turns2 \in SUBSET (turns \cup {turn})
      PROVE  Affordable(width, used, turns2, old, lost + 1)
  <2> DEFINE u == Cardinality(turns2)
  <2>1. /\ IsFiniteSet(turns \cup {turn})
        /\ Cardinality(turns \cup {turn}) = IF turn \in turns THEN t ELSE t + 1
    BY <1>1, FS_AddElement
  <2>2. Cardinality(turns \cup {turn}) <= t + 1 /\ Cardinality(turns \cup {turn}) \in Nat
    BY <1>1, <2>1
  <2>3. u \in Nat /\ u <= Cardinality(turns \cup {turn})
    BY <2>1, FS_Subset, FS_CardinalityType
  <2> HIDE DEF t, u, a, z
  <2>4. u <= t + 1
    BY <1>1, <2>2, <2>3
  <2>5. 2 * used + 2 * u + a <= z + 2 * (lost + 1)
    BY <1>1, <1>3, <1>4, <2>3, <2>4
  <2> QED
    BY <2>5 DEF Affordable, u, a, z
<1>6. ASSUME NEW turns2 \in SUBSET turns
      PROVE  Affordable(width, used + 1, turns2, old, lost + 1)
  <2> DEFINE u == Cardinality(turns2)
  <2>1. u \in Nat /\ u <= t
    BY <1>1, FS_Subset, FS_CardinalityType
  <2> HIDE DEF t, u, a, z
  <2>2. 2 * (used + 1) + 2 * u + a <= z + 2 * (lost + 1)
    BY <1>1, <1>3, <1>4, <2>1
  <2> QED
    BY <2>2 DEF Affordable, u, a, z
<1> QED
  BY <1>5, <1>6

\* An old answer recorded pays for a new turn of every caller that does not
\* wait for another one.
LEMMA AffordableReopened ==
  ASSUME NEW width \in Nat \ {0}, NEW used \in Nat, NEW lost \in Nat,
         NEW old \in SUBSET Callers, NEW c \in old,
         NEW turns \in SUBSET ((Callers \ old) \X (1..width)),
         NEW turns2 \in SUBSET ((Callers \ (old \ {c})) \X (1..width)),
         Affordable(width, used, turns, old, lost)
  PROVE  Affordable(width, used, turns2, old \ {c}, lost)
<1> DEFINE o == Cardinality(old)
           t == Cardinality(turns)
           u == Cardinality(turns2)
           z == width * (N * (N + 1))
           b == width * (N - (o - 1))
           a == width * Late(o - 1)
<1>1. N \in Nat /\ o \in 0..N /\ IsFiniteSet(old)
  BY NumberOfCallers
<1>2. Cardinality(old \ {c}) = o - 1
  BY <1>1, FS_RemoveElement
<1>3. old \ {c} \in SUBSET Callers
  OBVIOUS
<1>4. u \in Nat /\ u <= b
  BY <1>2, <1>3, TurnsBounded
<1>5. o - 1 \in Nat
  <2>1. Cardinality(old \ {c}) \in Nat
    BY <1>3, NumberOfCallers
  <2> QED
    BY <1>2, <2>1
<1>6. o \in 1..N /\ o - 1 \in 0..N
  BY <1>1, <1>5
<1>7. Late(o - 1) \in Nat /\ Late(o) = Late(o - 1) + 2 * (N - (o - 1))
  BY <1>6, LateType, LateOne
<1>8. width * Late(o) = a + 2 * b
  BY <1>1, <1>6, <1>7
<1>9. t \in Nat
  BY TurnsBounded
<1>10. a \in Nat /\ b \in Nat /\ z \in Nat
  BY <1>1, <1>6, <1>7
<1>11. 2 * used + 2 * t + width * Late(o) <= z + 2 * lost
  BY DEF Affordable
<1> HIDE DEF a, b, t, u, z, o
<1>12. 2 * used + 2 * u + a <= z + 2 * lost
  BY <1>4, <1>8, <1>9, <1>10, <1>11
<1> QED
  BY <1>2, <1>12 DEF Affordable, a, u, z

-----------------------------------------------------------------------------
(* The budget guard: what a step does to the turns.                        *)

LEMMA TurnSets ==
  ASSUME NEW q
  PROVE  /\ Old(q) \in SUBSET Callers /\ Old(q)' \in SUBSET Callers
         /\ Turns(q) \in SUBSET ((Callers \ Old(q)) \X (1..MaxAttempts))
         /\ Turns(q)' \in SUBSET ((Callers \ Old(q)') \X (1..MaxAttempts))
         /\ Free(q) \in SUBSET ((Callers \ Old(q)) \X (1..1))
         /\ Free(q)' \in SUBSET ((Callers \ Old(q)') \X (1..1))
BY DEF Old, Turns, Free

LEMMA TurnMembers ==
  ASSUME NEW q, NEW c \in Callers, NEW k \in 1..MaxAttempts
  PROVE  /\ <<c, k>> \in Turns(q) <=> ~IsOld(c, q) /\ MayTry(c, k, q)
         /\ <<c, k>> \in Turns(q)' <=> ~IsOld(c, q)' /\ MayTry(c, k, q)'
BY DEF Turns

LEMMA FreeMembers ==
  ASSUME NEW q, NEW c \in Callers
  PROVE  /\ <<c, 1>> \in Free(q) <=> ~IsOld(c, q) /\ MayMeet(c, q)
         /\ <<c, 1>> \in Free(q)' <=> ~IsOld(c, q)' /\ MayMeet(c, q)'
BY DEF Free

LEMMA TurnsWithin ==
  ASSUME NEW q, NEW S,
         \A c \in Callers : \A k \in 1..MaxAttempts :
           ~IsOld(c, q)' /\ MayTry(c, k, q)' => <<c, k>> \in S
  PROVE  Turns(q)' \in SUBSET S
<1> SUFFICES ASSUME NEW p \in Turns(q)' PROVE p \in S
  OBVIOUS
<1>1. p \in Callers \X (1..MaxAttempts) /\ ~IsOld(p[1], q)' /\ MayTry(p[1], p[2], q)'
  BY DEF Turns
<1>2. p[1] \in Callers /\ p[2] \in 1..MaxAttempts /\ p = <<p[1], p[2]>>
  BY <1>1
<1> QED
  BY <1>1, <1>2

LEMMA FreeWithin ==
  ASSUME NEW q, NEW S,
         \A c \in Callers : ~IsOld(c, q)' /\ MayMeet(c, q)' => <<c, 1>> \in S
  PROVE  Free(q)' \in SUBSET S
<1> SUFFICES ASSUME NEW p \in Free(q)' PROVE p \in S
  OBVIOUS
<1>1. p \in Callers \X (1..1) /\ ~IsOld(p[1], q)' /\ MayMeet(p[1], q)'
  BY DEF Free
<1>2. p[1] \in Callers /\ p = <<p[1], 1>>
  BY <1>1
<1> QED
  BY <1>1, <1>2

\* A step that asks nothing of the quota, shuts no less and frees no caller
\* but those that waited for an old answer.
LEMMA QuotaStays ==
  ASSUME BudgetTypes, BudgetTypes', NEW q \in Quotas, ReserveInv(q), BlockInv(q),
         overdrawn'[q] = overdrawn[q], refused'[q] = refused[q],
         left'[q] <= left[q], mishaps <= mishaps',
         \A c \in Callers : IsOld(c, q)' => IsOld(c, q),
         \A c \in Callers : \A k \in 1..MaxAttempts :
           ~IsOld(c, q) /\ MayTry(c, k, q)' => MayTry(c, k, q),
         \A c \in Callers : ~IsOld(c, q) /\ MayMeet(c, q)' => MayMeet(c, q)
  PROVE  ReserveInv(q)' /\ BlockInv(q)'
<1>1. /\ mishaps \in Nat /\ mishaps' \in Nat /\ left[q] \in Nat /\ left'[q] \in Nat
      /\ overdrawn[q] \in Nat /\ refused[q] \in Nat /\ Reserve[q] \in Nat
  BY BudgetConstants DEF BudgetTypes, TypeOK
<1>2. Old(q)' \in SUBSET Old(q)
  BY DEF Old
<1>3. Turns(q)' \in SUBSET (Turns(q) \cup ((Old(q) \ Old(q)') \X (1..MaxAttempts)))
  <2> DEFINE S == Turns(q) \cup ((Old(q) \ Old(q)') \X (1..MaxAttempts))
  <2>1. ASSUME NEW c \in Callers, NEW k \in 1..MaxAttempts, ~IsOld(c, q)', MayTry(c, k, q)'
        PROVE  <<c, k>> \in S
    <3>1. CASE IsOld(c, q)
      BY <2>1, <3>1 DEF Old
    <3>2. CASE ~IsOld(c, q)
      BY <2>1, <3>2, TurnMembers
    <3> QED
      BY <3>1, <3>2
  <2> HIDE DEF S
  <2>2. Turns(q)' \in SUBSET S
    BY <2>1, TurnsWithin
  <2> QED
    BY <2>2 DEF S
<1>4. Free(q)' \in SUBSET (Free(q) \cup ((Old(q) \ Old(q)') \X (1..1)))
  <2> DEFINE S == Free(q) \cup ((Old(q) \ Old(q)') \X (1..1))
  <2>1. ASSUME NEW c \in Callers, ~IsOld(c, q)', MayMeet(c, q)'
        PROVE  <<c, 1>> \in S
    <3>1. CASE IsOld(c, q)
      BY <2>1, <3>1 DEF Old
    <3>2. CASE ~IsOld(c, q)
      BY <2>1, <3>2, FreeMembers
    <3> QED
      BY <3>1, <3>2
  <2> HIDE DEF S
  <2>2. Free(q)' \in SUBSET S
    BY <2>1, FreeWithin
  <2> QED
    BY <2>2 DEF S
<1>5. left'[q] > Reserve[q] => overdrawn'[q] = 0
  BY <1>1 DEF ReserveInv
<1>6. 2 * overdrawn'[q] <= MaxAttempts * (N * (N + 1)) + 2 * mishaps'
  <2> DEFINE z == MaxAttempts * (N * (N + 1))
  <2>1. z \in Nat
    BY BudgetConstants, NumberOfCallers
  <2>2. 2 * overdrawn[q] <= z + 2 * mishaps
    BY DEF ReserveInv
  <2> HIDE DEF z
  <2>3. 2 * overdrawn'[q] <= z + 2 * mishaps'
    BY <1>1, <2>1, <2>2
  <2> QED
    BY <2>3 DEF z
<1>7. left'[q] > 0 => Affordable(MaxAttempts, overdrawn'[q], Turns(q)', Old(q)', mishaps')
  <2> SUFFICES ASSUME left'[q] > 0
               PROVE  Affordable(MaxAttempts, overdrawn'[q], Turns(q)', Old(q)', mishaps')
    OBVIOUS
  <2>1. Affordable(MaxAttempts, overdrawn[q], Turns(q), Old(q), mishaps)
    BY <1>1 DEF ReserveInv
  <2>2. MaxAttempts \in Nat \ {0}
    BY BudgetAssumption
  <2>3. /\ Old(q) \in SUBSET Callers
        /\ Turns(q) \in SUBSET ((Callers \ Old(q)) \X (1..MaxAttempts))
    BY TurnSets
  <2>4. Affordable(MaxAttempts, overdrawn[q], Turns(q)', Old(q)', mishaps')
    BY <1>1, <1>2, <1>3, <2>1, <2>2, <2>3, AffordableStays
  <2> QED
    BY <2>4
<1>8. refused'[q] > 0 => left'[q] = 0 /\ Affordable(1, refused'[q], Free(q)', Old(q)', mishaps')
  <2> SUFFICES ASSUME refused[q] > 0
               PROVE  left'[q] = 0 /\ Affordable(1, refused'[q], Free(q)', Old(q)', mishaps')
    OBVIOUS
  <2>1. left[q] = 0 /\ Affordable(1, refused[q], Free(q), Old(q), mishaps)
    BY DEF BlockInv
  <2>2. 1 \in Nat \ {0}
    OBVIOUS
  <2>3. Old(q) \in SUBSET Callers /\ Free(q) \in SUBSET ((Callers \ Old(q)) \X (1..1))
    BY TurnSets
  <2>4. Affordable(1, refused[q], Free(q)', Old(q)', mishaps')
    BY <1>1, <1>2, <1>4, <2>1, <2>2, <2>3, AffordableStays
  <2> QED
    BY <1>1, <2>1, <2>4
<1>9. ReserveInv(q)'
  BY <1>5, <1>6, <1>7 DEF ReserveInv
<1>10. BlockInv(q)'
  BY <1>8 DEF BlockInv
<1> QED
  BY <1>9, <1>10

\* What a caller may do without a turn of the quota: nothing; end its call, or
\* begin one of another quota; give up waiting for an answer that does not
\* close, or for one just recorded that does, and try again or not; begin a
\* call while the guard is open.
Eases(c, q) ==
  \/ UNCHANGED <<pc[c], call[c], reply[c]>>
  \/ ~Sending(c, q)' /\ ~Answering(c, q)' /\ ~(Answering(c, q) /\ Closing(c, q))
  \/ /\ Answering(c, q) /\ ~Answering(c, q)'
     /\ Closing(c, q) => Shut(q)'
     /\ Sending(c, q)' /\ ~IsOld(c, q) =>
          call'[c].attempt > call[c].attempt /\ reply[c].status # "blocked"
  \/ ~Shut(q)' /\ ~Answering(c, q) /\ ~Answering(c, q)'

\* An answer that closes the guard keeps closing it to the end of the window.
LEMMA ClosingLasts ==
  ASSUME BudgetTypes, BudgetTypes', NEW c \in Callers, NEW q \in Quotas,
         clock <= clock', resets'[q] = resets[q], reply'[c] = reply[c], Closing(c, q)
  PROVE  Closing(c, q)'
<1>1. clock \in Nat /\ clock' \in Nat /\ resets[q] \in Nat
  BY BudgetConstants DEF BudgetTypes, TypeOK
<1>2. reply[c].resetIn \in Nat
  BY DEF BudgetTypes, TypeOK, Reply
<1> QED
  BY <1>1, <1>2 DEF Closing

LEMMA EasyTurns ==
  ASSUME BudgetTypes, BudgetTypes', NEW c \in Callers, NEW q \in Quotas, Eases(c, q),
         clock <= clock', resets'[q] = resets[q], Shut(q) => Shut(q)'
  PROVE  /\ IsOld(c, q)' => IsOld(c, q)
         /\ \A k \in 1..MaxAttempts : ~IsOld(c, q) /\ MayTry(c, k, q)' => MayTry(c, k, q)
         /\ ~IsOld(c, q) /\ MayMeet(c, q)' => MayMeet(c, q)
<1>1. Sending(c, q) => ~Answering(c, q)
  BY DEF Sending, Answering
<1>2. Sending(c, q)' => ~Answering(c, q)'
  BY DEF Sending, Answering
<1>3. /\ call[c].attempt \in Nat /\ call'[c].attempt \in Nat
      /\ Answering(c, q) => call[c].attempt >= 1
  <2>1. call[c].attempt \in 0..MaxAttempts /\ call'[c].attempt \in 0..MaxAttempts
    BY DEF BudgetTypes, TypeOK
  <2>2. Answering(c, q) => call[c].attempt >= 1
    BY DEF BudgetTypes, Answering
  <2> QED
    BY <2>1, <2>2, BudgetConstants
<1>4. reply[c].status = "blocked" /\ Answering(c, q) /\ ~IsOld(c, q) => Closing(c, q)
  BY DEF IsOld, Silent
<1>5. CASE UNCHANGED <<pc[c], call[c], reply[c]>>
  <2>1. (Sending(c, q)' <=> Sending(c, q)) /\ (Answering(c, q)' <=> Answering(c, q))
    BY <1>5 DEF Sending, Answering
  <2>2. Closing(c, q) => Closing(c, q)'
    BY <1>5, ClosingLasts
  <2>3. IsOld(c, q)' => IsOld(c, q)
    BY <1>5, <2>1, <2>2 DEF IsOld, Silent
  <2>4. ASSUME NEW k \in 1..MaxAttempts, ~IsOld(c, q), MayTry(c, k, q)' PROVE MayTry(c, k, q)
    <3>1. call'[c] = call[c] /\ k \in Nat
      BY <1>5, BudgetConstants
    <3>2. CASE Shut(q)'
      BY <1>1, <1>3, <2>1, <2>4, <3>1, <3>2 DEF MayTry
    <3>3. CASE ~Shut(q)'
      BY <2>1, <2>2, <2>4, <3>3 DEF MayTry
    <3> QED
      BY <3>2, <3>3
  <2>5. ASSUME ~IsOld(c, q), MayMeet(c, q)' PROVE MayMeet(c, q)
    BY <1>1, <1>5, <2>1, <2>5 DEF MayMeet
  <2> QED
    BY <2>3, <2>4, <2>5
<1>6. CASE ~Sending(c, q)' /\ ~Answering(c, q)' /\ ~(Answering(c, q) /\ Closing(c, q))
  <2>1. ~IsOld(c, q)'
    BY <1>6 DEF IsOld
  <2>2. ASSUME NEW k \in 1..MaxAttempts, ~IsOld(c, q), MayTry(c, k, q)' PROVE MayTry(c, k, q)
    BY <1>6, <2>2 DEF MayTry
  <2>3. ASSUME ~IsOld(c, q), MayMeet(c, q)' PROVE MayMeet(c, q)
    BY <1>4, <1>6, <2>3 DEF MayMeet
  <2> QED
    BY <2>1, <2>2, <2>3
<1>7. CASE /\ Answering(c, q) /\ ~Answering(c, q)'
           /\ Closing(c, q) => Shut(q)'
           /\ Sending(c, q)' /\ ~IsOld(c, q) =>
                call'[c].attempt > call[c].attempt /\ reply[c].status # "blocked"
  <2>1. ~IsOld(c, q)'
    BY <1>7 DEF IsOld
  <2>2. ASSUME NEW k \in 1..MaxAttempts, ~IsOld(c, q), MayTry(c, k, q)' PROVE MayTry(c, k, q)
    <3>1. k \in Nat
      BY BudgetConstants
    <3>2. CASE Shut(q)'
      <4>1. k > call[c].attempt /\ k > 1
        BY <1>3, <1>7, <2>2, <3>1, <3>2 DEF MayTry
      <4> QED
        BY <1>7, <4>1 DEF MayTry
    <3>3. CASE ~Shut(q)'
      BY <1>7, <3>3 DEF MayTry
    <3> QED
      BY <3>2, <3>3
  <2>3. ASSUME ~IsOld(c, q), MayMeet(c, q)' PROVE MayMeet(c, q)
    <3>1. CASE Shut(q)'
      BY <1>7, <2>3, <3>1 DEF MayMeet
    <3>2. CASE ~Shut(q)'
      BY <1>4, <1>7, <2>3, <3>2 DEF MayMeet
    <3> QED
      BY <3>1, <3>2
  <2> QED
    BY <2>1, <2>2, <2>3
<1>8. CASE ~Shut(q)' /\ ~Answering(c, q) /\ ~Answering(c, q)'
  BY <1>8 DEF IsOld, MayTry, MayMeet
<1> QED
  BY <1>5, <1>6, <1>7, <1>8 DEF Eases

\* A step in which every caller eases keeps the quota's invariants.
LEMMA QuotaEased ==
  ASSUME BudgetTypes, BudgetTypes', NEW q \in Quotas, ReserveInv(q), BlockInv(q),
         overdrawn'[q] = overdrawn[q], refused'[q] = refused[q],
         left'[q] <= left[q], mishaps <= mishaps', clock <= clock',
         resets'[q] = resets[q], Shut(q) => Shut(q)',
         \A c \in Callers : Eases(c, q)
  PROVE  ReserveInv(q)' /\ BlockInv(q)'
<1>1. ASSUME NEW c \in Callers
      PROVE  /\ IsOld(c, q)' => IsOld(c, q)
             /\ \A k \in 1..MaxAttempts : ~IsOld(c, q) /\ MayTry(c, k, q)' => MayTry(c, k, q)
             /\ ~IsOld(c, q) /\ MayMeet(c, q)' => MayMeet(c, q)
  BY <1>1, EasyTurns
<1> QED
  BY <1>1, QuotaStays

-----------------------------------------------------------------------------
(* The budget guard: the steps.                                            *)

\* After an attempt the call ends or goes on with the next one.
LEMMA Continued ==
  ASSUME BudgetTypes, NEW c \in Callers, NEW status, Continue(c, status) \/ End(c)
  PROVE  /\ \A d \in Callers \ {c} : pc'[d] = pc[d] /\ call'[d] = call[d]
         /\ \/ pc'[c] = "idle"
            \/ /\ pc'[c] = "send" /\ status \in {"error", "lost"}
               /\ call'[c].quota = call[c].quota
               /\ call'[c].attempt = call[c].attempt + 1
<1>1. /\ pc \in [Callers -> {"idle", "send", "answer"}]
      /\ call \in [Callers -> [quota: Quotas, attempt: 0..MaxAttempts]]
  BY DEF BudgetTypes, TypeOK
<1>2. CASE End(c)
  BY <1>1, <1>2 DEF End
<1>3. CASE /\ Retryable(status)
           /\ pc' = [pc EXCEPT ![c] = "send"]
           /\ call' = [call EXCEPT ![c].attempt = @ + 1]
  <2>1. /\ call[c] \in [quota: Quotas, attempt: 0..MaxAttempts]
        /\ call' = [call EXCEPT ![c] = [call[c] EXCEPT !.attempt = @ + 1]]
    BY <1>1, <1>3
  <2>2. call'[c] = [call[c] EXCEPT !.attempt = @ + 1]
    BY <1>1, <2>1
  <2>3. call'[c].quota = call[c].quota /\ call'[c].attempt = call[c].attempt + 1
    BY <2>1, <2>2
  <2>4. pc'[c] = "send" /\ status \in {"error", "lost"}
    BY <1>1, <1>3 DEF Retryable
  <2>5. \A d \in Callers \ {c} : pc'[d] = pc[d] /\ call'[d] = call[d]
    BY <1>1, <1>3, <2>1
  <2> QED
    BY <2>3, <2>4, <2>5
<1> QED
  BY <1>2, <1>3 DEF Continue

\* An attempt concerns its caller and the quota of its call alone.
LEMMA AttemptScope ==
  ASSUME BudgetTypes, NEW c \in Callers, Attempt(c)
  PROVE  /\ pc[c] # "idle" /\ call[c].quota \in Quotas /\ clock' = clock
         /\ mishaps \in Nat /\ mishaps' \in Nat /\ mishaps <= mishaps'
         /\ \A d \in Callers \ {c} : UNCHANGED <<pc[d], call[d], reply[d]>>
         /\ \A q \in Quotas \ {call[c].quota} :
              UNCHANGED <<left[q], resets[q], overdrawn[q], refused[q], rate[q]>>
         /\ pc'[c] = "idle" \/ call'[c].quota = call[c].quota
<1>1. /\ pc \in [Callers -> {"idle", "send", "answer"}]
      /\ call \in [Callers -> [quota: Quotas, attempt: 0..MaxAttempts]]
      /\ reply \in [Callers -> Reply]
      /\ rate \in [Quotas -> Rate]
      /\ mishaps \in Nat
  BY BudgetConstants DEF BudgetTypes, TypeOK
<1>2. call[c].quota \in Quotas
  <2>1. call[c] \in [quota: Quotas, attempt: 0..MaxAttempts]
    BY <1>1
  <2> QED
    BY <2>1
<1>3. CASE Send(c)
  <2>1. /\ pc[c] = "send" /\ UNCHANGED <<clock, rate, call>>
        /\ pc' = [pc EXCEPT ![c] = "answer"]
        /\ mishaps' = mishaps \/ mishaps' = mishaps + 1
    BY <1>3 DEF Send
  <2>2. \A d \in Callers \ {c} : UNCHANGED <<pc[d], call[d], reply[d]>>
    <3>1. \E r : reply' = [reply EXCEPT ![c] = r]
      BY <1>3 DEF Send
    <3> QED
      BY <1>1, <2>1, <3>1
  <2>3. \A q \in Quotas \ {call[c].quota} :
          UNCHANGED <<left[q], resets[q], overdrawn[q], refused[q], rate[q]>>
    <3> DEFINE q == call[c].quota
    <3>1. /\ \E x : left' = [left EXCEPT ![q] = x]
          /\ \E x : resets' = [resets EXCEPT ![q] = x]
          /\ \E x : overdrawn' = [overdrawn EXCEPT ![q] = x]
          /\ \E x : refused' = [refused EXCEPT ![q] = x]
      <4>1. Answers(q)
        BY <1>3 DEF Send
      <4> HIDE DEF q
      <4> QED
        BY <4>1 DEF Answers
    <3>2. /\ left \in [Quotas -> Nat] /\ resets \in [Quotas -> 1..MaxClock + Window]
          /\ overdrawn \in [Quotas -> Nat] /\ refused \in [Quotas -> Nat]
      BY DEF BudgetTypes, TypeOK
    <3> QED
      BY <2>1, <3>1, <3>2
  <2> QED
    BY <1>1, <1>2, <2>1, <2>2, <2>3
<1>4. CASE Receive(c)
  <2>1. /\ pc[c] = "answer" /\ UNCHANGED <<clock, mishaps, left, resets, overdrawn, refused>>
        /\ rate' = [rate EXCEPT ![call[c].quota] = Recorded(@, reply[c])]
        /\ reply' = [reply EXCEPT ![c] = NoReply]
        /\ Continue(c, reply[c].status)
    BY <1>4 DEF Receive, Drawn, service
  <2>2. /\ \A d \in Callers \ {c} : pc'[d] = pc[d] /\ call'[d] = call[d]
        /\ pc'[c] = "idle" \/ call'[c].quota = call[c].quota
    BY <2>1, Continued
  <2> QED
    BY <1>1, <1>2, <2>1, <2>2
<1>5. CASE Lose(c)
  <2>1. /\ pc[c] = "answer" /\ mishaps' = mishaps + 1
        /\ UNCHANGED <<clock, left, resets, overdrawn, refused, rate>>
        /\ reply' = [reply EXCEPT ![c] = NoReply]
        /\ Continue(c, "lost") \/ End(c)
    BY <1>5 DEF Lose, service
  <2>2. /\ \A d \in Callers \ {c} : pc'[d] = pc[d] /\ call'[d] = call[d]
        /\ pc'[c] = "idle" \/ call'[c].quota = call[c].quota
    BY <2>1, Continued
  <2> QED
    BY <1>1, <1>2, <2>1, <2>2
<1>6. CASE Cancel(c)
  <2>1. /\ pc[c] = "send" /\ mishaps' = mishaps + 1
        /\ UNCHANGED <<clock, left, resets, overdrawn, refused, rate, reply>>
        /\ End(c)
    BY <1>6 DEF Cancel, service
  <2>2. pc'[c] = "idle"
    BY <1>1, <2>1 DEF End
  <2>3. \A d \in Callers \ {c} : pc'[d] = pc[d] /\ call'[d] = call[d]
    BY <2>1, Continued
  <2> QED
    BY <1>1, <1>2, <2>1, <2>2, <2>3
<1> QED
  BY <1>3, <1>4, <1>5, <1>6 DEF Attempt

LEMMA ShutStays ==
  ASSUME NEW q, rate'[q] = rate[q], resets'[q] = resets[q]
  PROVE  Shut(q)' <=> Shut(q)
BY DEF Shut

\* A quota other than that of the call.
LEMMA OtherQuotaKept ==
  ASSUME BudgetTypes, BudgetTypes', NEW c \in Callers, Attempt(c),
         NEW q \in Quotas \ {call[c].quota}, ReserveInv(q), BlockInv(q)
  PROVE  ReserveInv(q)' /\ BlockInv(q)'
<1>1. /\ UNCHANGED <<left[q], resets[q], overdrawn[q], refused[q], rate[q]>>
      /\ mishaps <= mishaps' /\ clock' = clock
  BY AttemptScope
<1>2. clock \in Nat /\ left[q] \in Nat
  BY BudgetConstants DEF BudgetTypes, TypeOK
<1>3. ASSUME NEW d \in Callers PROVE Eases(d, q)
  <2>1. CASE d = c
    <3>1. ~Answering(c, q)
      BY DEF Answering
    <3>2. ~Sending(c, q)' /\ ~Answering(c, q)'
      BY AttemptScope DEF Sending, Answering
    <3> QED
      BY <2>1, <3>1, <3>2 DEF Eases
  <2>2. CASE d # c
    BY <2>2, AttemptScope DEF Eases
  <2> QED
    BY <2>1, <2>2
<1>4. Shut(q)' <=> Shut(q)
  BY <1>1, ShutStays
<1> QED
  BY <1>1, <1>2, <1>3, <1>4, QuotaEased

\* A new window, in which nothing was used yet.
LEMMA QuotaFresh ==
  ASSUME BudgetTypes', NEW q \in Quotas, overdrawn'[q] = 0, refused'[q] = 0
  PROVE  ReserveInv(q)' /\ BlockInv(q)'
<1>1. mishaps' \in Nat /\ MaxAttempts \in Nat
  BY BudgetConstants DEF BudgetTypes, TypeOK
<1>2. /\ Old(q)' \in SUBSET Callers
      /\ Turns(q)' \in SUBSET ((Callers \ Old(q)') \X (1..MaxAttempts))
  BY TurnSets
<1>3. Affordable(MaxAttempts, 0, Turns(q)', Old(q)', mishaps')
  BY <1>1, <1>2, AffordableAtFirst
<1>4. 2 * 0 <= MaxAttempts * (N * (N + 1)) + 2 * mishaps'
  <2> DEFINE z == MaxAttempts * (N * (N + 1))
  <2>1. z \in Nat
    BY <1>1, NumberOfCallers
  <2> HIDE DEF z
  <2>2. \A m \in Nat : 0 <= z + 2 * m
    BY <2>1
  <2> QED
    BY <1>1, <2>2 DEF z
<1>5. ReserveInv(q)'
  BY <1>3, <1>4 DEF ReserveInv
<1>6. BlockInv(q)'
  BY DEF BlockInv
<1> QED
  BY <1>5, <1>6

LEMMA TickKeepsQuotas ==
  ASSUME BudgetTypes, BudgetTypes', Tick, NEW q \in Quotas, ReserveInv(q), BlockInv(q)
  PROVE  ReserveInv(q)' /\ BlockInv(q)'
<1>1. /\ clock \in Nat /\ left \in [Quotas -> Nat]
      /\ resets \in [Quotas -> 1..MaxClock + Window]
      /\ overdrawn \in [Quotas -> Nat] /\ refused \in [Quotas -> Nat] /\ mishaps \in Nat
  BY BudgetConstants DEF BudgetTypes, TypeOK
<1>2. clock' = clock + 1 /\ UNCHANGED <<mishaps, rate, pc, call, reply>>
  BY DEF Tick
<1>3. CASE resets[q] <= clock + 1
  <2>1. overdrawn'[q] = 0 /\ refused'[q] = 0
    BY <1>3 DEF Tick
  <2> QED
    BY <2>1, QuotaFresh
<1>4. CASE ~(resets[q] <= clock + 1)
  <2>1. UNCHANGED <<left[q], resets[q], overdrawn[q], refused[q]>>
    BY <1>1, <1>4 DEF Tick
  <2>2. left'[q] <= left[q] /\ mishaps <= mishaps' /\ clock <= clock'
    BY <1>1, <1>2, <2>1
  <2>3. Shut(q)' <=> Shut(q)
    BY <1>2, <2>1, ShutStays
  <2>4. \A c \in Callers : Eases(c, q)
    BY <1>2 DEF Eases
  <2> QED
    BY <2>1, <2>2, <2>3, <2>4, QuotaEased
<1> QED
  BY <1>3, <1>4

LEMMA OtherUserKeepsQuotas ==
  ASSUME BudgetTypes, BudgetTypes', NEW p \in Quotas, OtherUser(p),
         NEW q \in Quotas, ReserveInv(q), BlockInv(q)
  PROVE  ReserveInv(q)' /\ BlockInv(q)'
<1>1. /\ left' = [left EXCEPT ![p] = @ - 1]
      /\ UNCHANGED <<clock, mishaps, resets, overdrawn, refused, rate, pc, call, reply>>
  BY DEF OtherUser
<1>2. clock \in Nat /\ left \in [Quotas -> Nat] /\ mishaps \in Nat
  BY BudgetConstants DEF BudgetTypes, TypeOK
<1>3. left'[q] <= left[q] /\ mishaps <= mishaps' /\ clock <= clock'
  BY <1>1, <1>2
<1>4. Shut(q)' <=> Shut(q)
  BY <1>1, ShutStays
<1>5. \A c \in Callers : Eases(c, q)
  BY <1>1 DEF Eases
<1> QED
  BY <1>1, <1>3, <1>4, <1>5, QuotaEased

\* A call begins: the guard is open, so the caller had all its turns already.
LEMMA CheckKeepsQuotas ==
  ASSUME BudgetTypes, BudgetTypes', NEW c \in Callers, NEW p \in Quotas, Check(c, p),
         NEW q \in Quotas, ReserveInv(q), BlockInv(q)
  PROVE  ReserveInv(q)' /\ BlockInv(q)'
<1>1. /\ pc[c] = "idle" /\ Open(p)
      /\ pc' = [pc EXCEPT ![c] = "send"]
      /\ call' = [call EXCEPT ![c] = [quota |-> p, attempt |-> 1]]
      /\ UNCHANGED <<clock, mishaps, left, resets, overdrawn, refused, rate, reply>>
  BY DEF Check, service
<1>2. /\ clock \in Nat /\ left \in [Quotas -> Nat] /\ mishaps \in Nat
      /\ pc \in [Callers -> {"idle", "send", "answer"}]
      /\ call \in [Callers -> [quota: Quotas, attempt: 0..MaxAttempts]]
  BY BudgetConstants DEF BudgetTypes, TypeOK
<1>3. left'[q] <= left[q] /\ mishaps <= mishaps' /\ clock <= clock'
  BY <1>1, <1>2
<1>4. Shut(q)' <=> Shut(q)
  BY <1>1, ShutStays
<1>5. ~Shut(p)
  <2>1. /\ rate[p].remaining \in Nat /\ rate[p].resetAt \in Nat /\ Reserve[p] \in Nat
        /\ resets[p] \in Nat /\ clock < resets[p]
    BY BudgetConstants DEF BudgetTypes, TypeOK, Rate
  <2> QED
    BY <1>1, <1>2, <2>1 DEF Open, Shut
<1>6. ASSUME NEW d \in Callers PROVE Eases(d, q)
  <2>1. CASE d # c
    BY <1>1, <1>2, <2>1 DEF Eases
  <2>2. CASE d = c /\ p = q
    <3>1. ~Answering(c, q) /\ ~Answering(c, q)' /\ ~Shut(q)'
      BY <1>1, <1>2, <1>4, <1>5, <2>2 DEF Answering
    <3> QED
      BY <2>2, <3>1 DEF Eases
  <2>3. CASE d = c /\ p # q
    <3>1. ~Answering(c, q) /\ ~Answering(c, q)' /\ ~Sending(c, q)'
      BY <1>1, <1>2, <2>3 DEF Answering, Sending
    <3> QED
      BY <2>3, <3>1 DEF Eases
  <2> QED
    BY <2>1, <2>2, <2>3
<1> QED
  BY <1>1, <1>3, <1>4, <1>6, QuotaEased

LEMMA CancelKeepsQuota ==
  ASSUME BudgetTypes, BudgetTypes', NEW c \in Callers, Cancel(c), NEW q \in Quotas,
         ReserveInv(q), BlockInv(q)
  PROVE  ReserveInv(q)' /\ BlockInv(q)'
<1>1. /\ pc[c] = "send" /\ End(c)
      /\ UNCHANGED <<clock, left, resets, overdrawn, refused, rate>>
  BY DEF Cancel, service
<1>2. /\ clock \in Nat /\ left \in [Quotas -> Nat]
      /\ pc \in [Callers -> {"idle", "send", "answer"}]
  BY BudgetConstants DEF BudgetTypes, TypeOK
<1>3. left'[q] <= left[q] /\ mishaps <= mishaps' /\ clock <= clock'
  BY <1>1, <1>2, AttemptScope DEF Attempt
<1>4. Shut(q)' <=> Shut(q)
  BY <1>1, ShutStays
<1>5. ASSUME NEW d \in Callers PROVE Eases(d, q)
  <2>1. CASE d = c
    <3>1. ~Answering(c, q) /\ ~Sending(c, q)' /\ ~Answering(c, q)'
      BY <1>1, <1>2 DEF Answering, Sending, End
    <3> QED
      BY <2>1, <3>1 DEF Eases
  <2>2. CASE d # c
    BY <2>2, AttemptScope DEF Eases, Attempt
  <2> QED
    BY <2>1, <2>2
<1> QED
  BY <1>1, <1>3, <1>4, <1>5, QuotaEased

\* Whose answers are old does not depend on the record.
LEMMA OldStays ==
  ASSUME NEW q \in Quotas, NEW d \in Callers, clock' = clock, resets'[q] = resets[q],
         UNCHANGED <<pc[d], call[d], reply[d]>>
  PROVE  /\ IsOld(d, q)' <=> IsOld(d, q)
         /\ Sending(d, q)' <=> Sending(d, q)
         /\ Answering(d, q)' <=> Answering(d, q)
         /\ Closing(d, q)' <=> Closing(d, q)
BY DEF IsOld, Closing, Silent, Sending, Answering

\* A lost answer that would have closed the guard costs a mishap.
LEMMA LoseClosingKeepsQuota ==
  ASSUME BudgetTypes, BudgetTypes', NEW c \in Callers, Lose(c), NEW q \in Quotas,
         q = call[c].quota, Closing(c, q), ReserveInv(q), BlockInv(q)
  PROVE  ReserveInv(q)' /\ BlockInv(q)'
<1>1. /\ pc[c] = "answer" /\ mishaps' = mishaps + 1
      /\ UNCHANGED <<clock, left, resets, overdrawn, refused, rate>>
      /\ Continue(c, "lost") \/ End(c)
  BY DEF Lose, service
<1>2. /\ \A d \in Callers \ {c} : UNCHANGED <<pc[d], call[d], reply[d]>>
      /\ \/ pc'[c] = "idle"
         \/ pc'[c] = "send" /\ call'[c].attempt = call[c].attempt + 1
  BY <1>1, AttemptScope, Continued DEF Attempt
<1>3. Shut(q)' <=> Shut(q)
  BY <1>1, ShutStays
<1>4. ASSUME NEW d \in Callers
      PROVE  IsOld(d, q)' <=> IsOld(d, q)
  <2>1. CASE d = c
    BY <1>2, <2>1 DEF IsOld, Answering
  <2>2. CASE d # c
    BY <1>1, <1>2, <2>2, OldStays
  <2> QED
    BY <2>1, <2>2
<1>5. Old(q)' = Old(q)
  BY <1>4 DEF Old
<1>6. Turns(q)' \in SUBSET (Turns(q) \cup {<<c, 1>>})
  <2> DEFINE S == Turns(q) \cup {<<c, 1>>}
  <2>1. ASSUME NEW d \in Callers, NEW k \in 1..MaxAttempts, ~IsOld(d, q)', MayTry(d, k, q)'
        PROVE  <<d, k>> \in S
    <3>1. CASE d = c /\ k = 1
      BY <3>1
    <3>2. CASE d = c /\ k # 1
      <4>1. k \in Nat /\ k > 1 /\ call[c].attempt \in Nat
        BY <3>2, BudgetConstants DEF BudgetTypes, TypeOK
      <4>2. Answering(c, q)
        BY <1>1 DEF Answering
      <4>3. CASE Shut(q)
        <5>1. k >= call'[c].attempt /\ Sending(c, q)' /\ ~Answering(c, q)'
          BY <1>2, <1>3, <2>1, <3>2, <4>3 DEF MayTry, Sending, Answering
        <5>2. k > call[c].attempt
          BY <1>2, <4>1, <5>1 DEF Sending
        <5> QED
          BY <1>4, <2>1, <3>2, <4>2, <4>3, <5>2, TurnMembers DEF MayTry
      <4>4. CASE ~Shut(q)
        BY <1>4, <2>1, <3>2, <4>1, <4>4, TurnMembers DEF MayTry
      <4> QED
        BY <4>3, <4>4
    <3>3. CASE d # c
      <4>1. MayTry(d, k, q)
        <5>1. UNCHANGED <<pc[d], call[d], reply[d]>>
          BY <1>2, <3>3
        <5> QED
          BY <1>1, <1>3, <2>1, <5>1, OldStays DEF MayTry
      <4> QED
        BY <1>4, <2>1, <4>1, TurnMembers
    <3> QED
      BY <3>1, <3>2, <3>3
  <2> HIDE DEF S
  <2>2. Turns(q)' \in SUBSET S
    BY <2>1, TurnsWithin
  <2> QED
    BY <2>2 DEF S
<1>7. Free(q)' \in SUBSET (Free(q) \cup {<<c, 1>>})
  <2> DEFINE S == Free(q) \cup {<<c, 1>>}
  <2>1. ASSUME NEW d \in Callers, ~IsOld(d, q)', MayMeet(d, q)'
        PROVE  <<d, 1>> \in S
    <3>1. CASE d = c
      BY <3>1
    <3>2. CASE d # c
      <4>1. UNCHANGED <<pc[d], call[d], reply[d]>>
        BY <1>2, <3>2
      <4>2. MayMeet(d, q)
        BY <1>1, <1>3, <2>1, <4>1, OldStays DEF MayMeet
      <4> QED
        BY <1>4, <2>1, <4>2, FreeMembers
    <3> QED
      BY <3>1, <3>2
  <2> HIDE DEF S
  <2>2. Free(q)' \in SUBSET S
    BY <2>1, FreeWithin
  <2> QED
    BY <2>2 DEF S
<1>8. /\ mishaps \in Nat /\ left[q] \in Nat /\ overdrawn[q] \in Nat /\ refused[q] \in Nat
      /\ MaxAttempts \in Nat \ {0}
  BY BudgetAssumption DEF BudgetTypes, TypeOK
<1>9. /\ Old(q) \in SUBSET Callers
      /\ Turns(q) \in SUBSET ((Callers \ Old(q)) \X (1..MaxAttempts))
      /\ Free(q) \in SUBSET ((Callers \ Old(q)) \X (1..1))
  BY TurnSets
<1>10. left[q] > 0 => Affordable(MaxAttempts, overdrawn[q], Turns(q)', Old(q), mishaps + 1)
  <2>1. SUFFICES ASSUME left[q] > 0
                 PROVE  Affordable(MaxAttempts, overdrawn[q], Turns(q)', Old(q), mishaps + 1)
    OBVIOUS
  <2>2. Affordable(MaxAttempts, overdrawn[q], Turns(q), Old(q), mishaps)
    BY <2>1 DEF ReserveInv
  <2> QED
    BY <1>6, <1>8, <1>9, <2>2, AffordableMishap
<1>11. refused[q] > 0 => Affordable(1, refused[q], Free(q)', Old(q), mishaps + 1)
  <2>1. SUFFICES ASSUME refused[q] > 0
                 PROVE  Affordable(1, refused[q], Free(q)', Old(q), mishaps + 1)
    OBVIOUS
  <2>2. Affordable(1, refused[q], Free(q), Old(q), mishaps)
    BY <2>1 DEF BlockInv
  <2>3. 1 \in Nat \ {0}
    OBVIOUS
  <2> QED
    BY <1>7, <1>8, <1>9, <2>2, <2>3, AffordableMishap
<1>12. 2 * overdrawn[q] <= MaxAttempts * (N * (N + 1)) + 2 * (mishaps + 1)
  <2> DEFINE z == MaxAttempts * (N * (N + 1))
  <2>1. z \in Nat
    BY BudgetConstants, NumberOfCallers
  <2>2. 2 * overdrawn[q] <= z + 2 * mishaps
    BY DEF ReserveInv
  <2> HIDE DEF z
  <2>3. 2 * overdrawn[q] <= z + 2 * (mishaps + 1)
    BY <1>8, <2>1, <2>2
  <2> QED
    BY <2>3 DEF z
<1>13. ReserveInv(q)'
  BY <1>1, <1>5, <1>10, <1>12 DEF ReserveInv
<1>14. BlockInv(q)'
  BY <1>1, <1>5, <1>11 DEF BlockInv
<1> QED
  BY <1>13, <1>14

LEMMA LoseKeepsQuotas ==
  ASSUME BudgetTypes, BudgetTypes', NEW c \in Callers, Lose(c), NEW q \in Quotas,
         ReserveInv(q), BlockInv(q)
  PROVE  ReserveInv(q)' /\ BlockInv(q)'
<1>1. CASE q # call[c].quota
  BY <1>1, OtherQuotaKept DEF Attempt
<1>2. CASE q = call[c].quota /\ Closing(c, q)
  BY <1>2, LoseClosingKeepsQuota
<1>3. CASE q = call[c].quota /\ ~Closing(c, q)
  <2>1. /\ pc[c] = "answer"
        /\ Continue(c, "lost") \/ End(c)
        /\ UNCHANGED <<clock, left, resets, overdrawn, refused, rate>>
    BY DEF Lose, service
  <2>2. /\ \A d \in Callers \ {c} : UNCHANGED <<pc[d], call[d], reply[d]>>
        /\ mishaps <= mishaps'
        /\ \/ pc'[c] = "idle"
           \/ pc'[c] = "send" /\ call'[c].attempt = call[c].attempt + 1
    BY <2>1, AttemptScope, Continued DEF Attempt
  <2>3. Shut(q)' <=> Shut(q)
    BY <2>1, ShutStays
  <2>4. clock \in Nat /\ left[q] \in Nat /\ call[c].attempt \in Nat
    BY BudgetConstants DEF BudgetTypes, TypeOK
  <2>5. ASSUME NEW d \in Callers PROVE Eases(d, q)
    <3>1. CASE d # c
      BY <2>2, <3>1 DEF Eases
    <3>2. CASE d = c
      <4>1. Answering(c, q) /\ ~Answering(c, q)'
        BY <1>3, <2>1, <2>2 DEF Answering
      <4>2. Sending(c, q)' => call'[c].attempt > call[c].attempt
        BY <2>2, <2>4 DEF Sending
      <4>3. ~IsOld(c, q) => reply[c].status # "blocked"
        BY <1>3, <4>1 DEF IsOld, Silent
      <4> QED
        BY <1>3, <3>2, <4>1, <4>2, <4>3 DEF Eases
    <3> QED
      BY <3>1, <3>2
  <2>6. left'[q] <= left[q] /\ clock <= clock'
    BY <2>1, <2>4
  <2> QED
    BY <2>1, <2>2, <2>3, <2>5, <2>6, QuotaEased
<1> QED
  BY <1>1, <1>2, <1>3

\* An answer that arrives and is not old leaves the guard as it is or shuts it.
LEMMA ReceiveNewKeepsQuota ==
  ASSUME BudgetTypes, BudgetTypes', NEW c \in Callers, Receive(c), NEW q \in Quotas,
         q = call[c].quota, ~IsOld(c, q), ReserveInv(q), BlockInv(q)
  PROVE  ReserveInv(q)' /\ BlockInv(q)'
<1>1. /\ pc[c] = "answer" /\ Continue(c, reply[c].status)
      /\ UNCHANGED <<clock, left, resets, overdrawn, refused>>
      /\ rate' = [rate EXCEPT ![q] = Recorded(@, reply[c])]
  BY DEF Receive, Drawn, service
<1>2. /\ \A d \in Callers \ {c} : UNCHANGED <<pc[d], call[d], reply[d]>>
      /\ mishaps <= mishaps'
      /\ \/ pc'[c] = "idle"
         \/ /\ pc'[c] = "send" /\ call'[c].attempt = call[c].attempt + 1
            /\ reply[c].status # "blocked"
  BY <1>1, AttemptScope, Continued DEF Attempt
<1>3. /\ clock \in Nat /\ left[q] \in Nat /\ call[c].attempt \in Nat
      /\ Reserve[q] \in Nat /\ resets[q] <= clock + Window /\ Window \in Nat
  BY BudgetConstants DEF BudgetTypes, TypeOK
<1>4. rate'[q] = Recorded(rate[q], reply[c])
  BY <1>1 DEF BudgetTypes, TypeOK
<1>5. Answering(c, q) /\ ~Answering(c, q)'
  BY <1>1, <1>2 DEF Answering
<1>6. CASE Silent(c)
  <2>1. rate'[q] = rate[q]
    BY <1>4, <1>6, RecordedShape DEF Silent
  <2>2. Shut(q)' <=> Shut(q)
    BY <1>1, <2>1, ShutStays
  <2>3. ~Closing(c, q)
    BY <1>6 DEF Silent, Closing
  <2>4. ASSUME NEW d \in Callers PROVE Eases(d, q)
    <3>1. CASE d # c
      BY <1>2, <3>1 DEF Eases
    <3>2. CASE d = c
      <4>1. Sending(c, q)' => call'[c].attempt > call[c].attempt /\ reply[c].status # "blocked"
        BY <1>2, <1>3 DEF Sending
      <4> QED
        BY <1>5, <2>3, <3>2, <4>1 DEF Eases
    <3> QED
      BY <3>1, <3>2
  <2>5. left'[q] <= left[q] /\ clock <= clock'
    BY <1>1, <1>3
  <2> QED
    BY <1>1, <1>2, <2>2, <2>4, <2>5, QuotaEased
<1>7. CASE ~Silent(c)
  <2>1. Closing(c, q)
    BY <1>5, <1>7 DEF IsOld
  <2>2. Shut(q)'
    <3>1. CASE reply[c].status = "blocked"
      <4>1. rate'[q] = [known |-> TRUE, remaining |-> 0,
                        resetAt |-> clock + IF reply[c].headers THEN reply[c].resetIn ELSE Window]
        BY <1>4, <3>1, RecordedShape
      <4>2. clock + (IF reply[c].headers THEN reply[c].resetIn ELSE Window) >= resets[q]
        <5>1. CASE reply[c].headers
          BY <2>1, <3>1, <5>1 DEF Closing
        <5>2. CASE ~reply[c].headers
          BY <1>3, <5>2, BudgetConstants DEF BudgetTypes, TypeOK
        <5> QED
          BY <5>1, <5>2
      <4> QED
        BY <1>1, <1>3, <4>1, <4>2 DEF Shut
    <3>2. CASE reply[c].status # "blocked"
      <4>1. /\ reply[c].headers /\ reply[c].remaining <= Reserve[q]
            /\ clock + reply[c].resetIn >= resets[q]
        BY <2>1, <3>2 DEF Closing
      <4>2. rate'[q] = [known |-> TRUE, remaining |-> reply[c].remaining,
                        resetAt |-> clock + reply[c].resetIn]
        BY <1>4, <3>2, <4>1, RecordedShape
      <4> QED
        BY <1>1, <4>1, <4>2 DEF Shut
    <3> QED
      BY <3>1, <3>2
  <2>3. ASSUME NEW d \in Callers PROVE Eases(d, q)
    <3>1. CASE d # c
      BY <1>2, <3>1 DEF Eases
    <3>2. CASE d = c
      <4>1. Sending(c, q)' => call'[c].attempt > call[c].attempt /\ reply[c].status # "blocked"
        BY <1>2, <1>3 DEF Sending
      <4> QED
        BY <1>5, <2>2, <3>2, <4>1 DEF Eases
    <3> QED
      BY <3>1, <3>2
  <2>4. left'[q] <= left[q] /\ clock <= clock'
    BY <1>1, <1>3
  <2> QED
    BY <1>1, <1>2, <2>2, <2>3, <2>4, QuotaEased
<1> QED
  BY <1>6, <1>7

\* An old answer may open the guard, and pays for every turn there is then.
LEMMA ReceiveOldKeepsQuota ==
  ASSUME BudgetTypes, BudgetTypes', NEW c \in Callers, Receive(c), NEW q \in Quotas,
         q = call[c].quota, IsOld(c, q), ReserveInv(q), BlockInv(q)
  PROVE  ReserveInv(q)' /\ BlockInv(q)'
<1>1. /\ pc[c] = "answer" /\ Continue(c, reply[c].status)
      /\ UNCHANGED <<clock, mishaps, left, resets, overdrawn, refused>>
  BY DEF Receive, service
<1>2. /\ \A d \in Callers \ {c} : UNCHANGED <<pc[d], call[d], reply[d]>>
      /\ pc'[c] \in {"idle", "send"}
  BY <1>1, AttemptScope, Continued DEF Attempt
<1>3. ASSUME NEW d \in Callers
      PROVE  IsOld(d, q)' <=> IsOld(d, q) /\ d # c
  <2>1. CASE d = c
    BY <1>2, <2>1 DEF IsOld, Answering
  <2>2. CASE d # c
    BY <1>1, <1>2, <2>2, OldStays
  <2> QED
    BY <2>1, <2>2
<1>4. Old(q)' = Old(q) \ {c} /\ c \in Old(q)
  BY <1>3 DEF Old
<1>5. /\ Old(q) \in SUBSET Callers
      /\ Turns(q) \in SUBSET ((Callers \ Old(q)) \X (1..MaxAttempts))
      /\ Free(q) \in SUBSET ((Callers \ Old(q)) \X (1..1))
  BY TurnSets
<1>6. /\ Turns(q)' \in SUBSET ((Callers \ (Old(q) \ {c})) \X (1..MaxAttempts))
      /\ Free(q)' \in SUBSET ((Callers \ (Old(q) \ {c})) \X (1..1))
  BY <1>4, TurnSets
<1>7. /\ mishaps \in Nat /\ overdrawn[q] \in Nat /\ refused[q] \in Nat
      /\ MaxAttempts \in Nat \ {0}
  BY BudgetAssumption DEF BudgetTypes, TypeOK
<1>8. left[q] > 0 => Affordable(MaxAttempts, overdrawn[q], Turns(q)', Old(q)', mishaps)
  <2>1. SUFFICES ASSUME left[q] > 0
                 PROVE  Affordable(MaxAttempts, overdrawn[q], Turns(q)', Old(q) \ {c}, mishaps)
    BY <1>4
  <2>2. Affordable(MaxAttempts, overdrawn[q], Turns(q), Old(q), mishaps)
    BY <2>1 DEF ReserveInv
  <2> QED
    BY <1>4, <1>5, <1>6, <1>7, <2>2, AffordableReopened
<1>9. refused[q] > 0 => Affordable(1, refused[q], Free(q)', Old(q)', mishaps)
  <2>1. SUFFICES ASSUME refused[q] > 0
                 PROVE  Affordable(1, refused[q], Free(q)', Old(q) \ {c}, mishaps)
    BY <1>4
  <2>2. Affordable(1, refused[q], Free(q), Old(q), mishaps)
    BY <2>1 DEF BlockInv
  <2>3. 1 \in Nat \ {0}
    OBVIOUS
  <2> QED
    BY <1>4, <1>5, <1>6, <1>7, <2>2, <2>3, AffordableReopened
<1>10. ReserveInv(q)'
  BY <1>1, <1>8 DEF ReserveInv
<1>11. BlockInv(q)'
  BY <1>1, <1>9 DEF BlockInv
<1> QED
  BY <1>10, <1>11

LEMMA ReceiveKeepsQuotas ==
  ASSUME BudgetTypes, BudgetTypes', NEW c \in Callers, Receive(c), NEW q \in Quotas,
         ReserveInv(q), BlockInv(q)
  PROVE  ReserveInv(q)' /\ BlockInv(q)'
<1>1. CASE q # call[c].quota
  BY <1>1, OtherQuotaKept DEF Attempt
<1>2. CASE q = call[c].quota
  BY <1>2, ReceiveNewKeepsQuota, ReceiveOldKeepsQuota
<1> QED
  BY <1>1, <1>2

\* What is affordable is within the bound.
LEMMA AffordableBound ==
  ASSUME NEW width \in Nat \ {0}, NEW used \in Nat, NEW lost \in Nat,
         NEW old \in SUBSET Callers,
         NEW turns \in SUBSET ((Callers \ old) \X (1..width)),
         Affordable(width, used, turns, old, lost)
  PROVE  2 * used <= width * (N * (N + 1)) + 2 * lost
<1> DEFINE t == Cardinality(turns)
           z == width * (N * (N + 1))
           a == width * Late(Cardinality(old))
<1>1. t \in Nat
  BY TurnsBounded
<1>2. Cardinality(old) \in 0..N
  BY NumberOfCallers
<1>3. a \in Nat /\ z \in Nat
  BY <1>2, LateType, NumberOfCallers
<1>4. 2 * used + 2 * t + a <= z + 2 * lost
  BY DEF Affordable
<1> HIDE DEF a, t, z
<1>5. 2 * used <= z + 2 * lost
  BY <1>1, <1>3, <1>4
<1> QED
  BY <1>5 DEF z

\* A request sent: who else may do what is as before, and the answer on its
\* way is old only if more than the reserve is left.
LEMMA SendScope ==
  ASSUME BudgetTypes, BudgetTypes', NEW c \in Callers, Send(c), NEW q \in Quotas,
         q = call[c].quota
  PROVE  /\ UNCHANGED <<clock, rate, call>>
         /\ \A d \in Callers \ {c} : UNCHANGED <<pc[d], call[d], reply[d]>>
         /\ Sending(c, q) /\ ~Answering(c, q) /\ Answering(c, q)' /\ ~Sending(c, q)'
         /\ left'[q] <= Reserve[q] => ~IsOld(c, q)'
         /\ left[q] = 0 => reply'[c].status = "blocked" /\ mishaps' = mishaps
         /\ left[q] > 0 /\ left'[q] <= Reserve[q] =>
              (Closing(c, q)' /\ mishaps' = mishaps) \/ mishaps' = mishaps + 1
<1>1. /\ pc[c] = "send" /\ pc' = [pc EXCEPT ![c] = "answer"]
      /\ UNCHANGED <<clock, rate, call>>
      /\ left' = [left EXCEPT ![q] = IF left[q] = 0 THEN 0 ELSE left[q] - 1]
  BY RequestSent DEF Send
<1>2. PICK status \in {"final", "error", "blocked"}, headers \in BOOLEAN :
        /\ status = "blocked" <=> left[q] = 0
        /\ reply' = [reply EXCEPT ![c] =
             [status |-> status, headers |-> headers,
              remaining |-> IF headers THEN left'[q] ELSE 0,
              resetIn |-> IF headers THEN resets'[q] - clock ELSE 0]]
        /\ IF headers \/ status = "blocked"
           THEN mishaps' = mishaps
           ELSE mishaps' = mishaps + 1
  BY RequestSent
<1>3. /\ pc \in [Callers -> {"idle", "send", "answer"}] /\ reply \in [Callers -> Reply]
      /\ clock \in Nat /\ resets'[q] \in Nat /\ left[q] \in Nat
  BY BudgetConstants DEF BudgetTypes, TypeOK
<1>4. reply'[c] = [status |-> status, headers |-> headers,
                   remaining |-> IF headers THEN left'[q] ELSE 0,
                   resetIn |-> IF headers THEN resets'[q] - clock ELSE 0]
  BY <1>2, <1>3
<1>5. /\ reply'[c].status = status /\ reply'[c].headers = headers
      /\ headers => reply'[c].remaining = left'[q] /\ reply'[c].resetIn = resets'[q] - clock
  BY <1>4
<1>6. \A d \in Callers \ {c} : UNCHANGED <<pc[d], call[d], reply[d]>>
  BY <1>1, <1>2, <1>3
<1>7. Sending(c, q) /\ ~Answering(c, q) /\ Answering(c, q)' /\ ~Sending(c, q)'
  BY <1>1, <1>3 DEF Sending, Answering
<1>8. clock' + (resets'[q] - clock) >= resets'[q]
  BY <1>1, <1>3
<1>9. left'[q] <= Reserve[q] => Closing(c, q)' \/ Silent(c)'
  <2>1. CASE headers
    BY <1>5, <1>8, <2>1 DEF Closing
  <2>2. CASE ~headers
    BY <1>5, <2>2 DEF Closing, Silent
  <2> QED
    BY <2>1, <2>2
<1>10. left[q] = 0 => reply'[c].status = "blocked" /\ mishaps' = mishaps
  BY <1>2, <1>5
<1>11. left[q] > 0 /\ left'[q] <= Reserve[q] =>
         (Closing(c, q)' /\ mishaps' = mishaps) \/ mishaps' = mishaps + 1
  <2>1. CASE headers
    BY <1>2, <1>5, <1>8, <2>1 DEF Closing
  <2>2. CASE ~headers
    BY <1>2, <1>3, <2>2
  <2> QED
    BY <2>1, <2>2
<1> QED
  BY <1>1, <1>6, <1>7, <1>9, <1>10, <1>11 DEF IsOld

\* A request out of the reserve takes a turn of its caller.
LEMMA SendFromReserve ==
  ASSUME BudgetTypes, BudgetTypes', NEW c \in Callers, Send(c), NEW q \in Quotas,
         q = call[c].quota, left[q] > 0, left[q] <= Reserve[q], ReserveInv(q), BlockInv(q)
  PROVE  ReserveInv(q)' /\ BlockInv(q)'
<1>1. /\ left[q] \in Nat /\ Reserve[q] \in Nat /\ overdrawn[q] \in Nat /\ refused[q] \in Nat
      /\ mishaps \in Nat /\ mishaps' \in Nat
      /\ MaxAttempts \in Nat \ {0}
      /\ call[c].attempt \in 0..MaxAttempts
  BY BudgetConstants DEF BudgetTypes, TypeOK
<1>2. call[c].attempt \in 1..MaxAttempts
  <2>1. pc[c] = "send"
    BY RequestSent
  <2>2. call[c].attempt >= 1
    BY <2>1 DEF BudgetTypes
  <2> QED
    BY <1>1, <2>2
<1>3. /\ left'[q] = left[q] - 1 /\ resets'[q] = resets[q]
      /\ overdrawn'[q] = overdrawn[q] + 1 /\ refused'[q] = refused[q]
  <2>1. /\ left' = [left EXCEPT ![q] = IF left[q] = 0 THEN 0 ELSE left[q] - 1]
        /\ resets' = [resets EXCEPT ![q] =
             IF left[q] = 0 /\ refused[q] = 0 THEN clock + Window ELSE resets[q]]
        /\ overdrawn' = [overdrawn EXCEPT ![q] = IF left[q] \in 1..Reserve[q] THEN @ + 1 ELSE @]
        /\ refused' = [refused EXCEPT ![q] = IF left[q] = 0 THEN @ + 1 ELSE @]
    BY RequestSent
  <2>2. /\ left \in [Quotas -> Nat] /\ resets \in [Quotas -> 1..MaxClock + Window]
        /\ overdrawn \in [Quotas -> Nat] /\ refused \in [Quotas -> Nat]
    BY DEF BudgetTypes, TypeOK
  <2>3. left[q] \in 1..Reserve[q] /\ left[q] # 0
    BY <1>1
  <2> QED
    BY <2>1, <2>2, <2>3
<1>4. left'[q] <= Reserve[q] /\ left'[q] \in Nat
  BY <1>1, <1>3
<1>5. /\ UNCHANGED <<clock, rate, call>>
      /\ \A d \in Callers \ {c} : UNCHANGED <<pc[d], call[d], reply[d]>>
      /\ Sending(c, q) /\ ~Answering(c, q) /\ Answering(c, q)' /\ ~Sending(c, q)'
      /\ ~IsOld(c, q) /\ ~IsOld(c, q)'
      /\ (Closing(c, q)' /\ mishaps' = mishaps) \/ mishaps' = mishaps + 1
  BY <1>4, SendScope DEF IsOld
<1>6. Shut(q)' <=> Shut(q)
  BY <1>3, <1>5, ShutStays
<1>7. ASSUME NEW d \in Callers PROVE IsOld(d, q)' <=> IsOld(d, q)
  <2>1. CASE d = c
    BY <1>5, <2>1
  <2>2. CASE d # c
    BY <1>3, <1>5, <2>2, OldStays
  <2> QED
    BY <2>1, <2>2
<1>8. Old(q)' = Old(q)
  BY <1>7 DEF Old
<1>9. ASSUME NEW d \in Callers, NEW k \in 1..MaxAttempts, MayTry(d, k, q)'
      PROVE  MayTry(d, k, q)
  <2>1. CASE d = c
    <3>1. k \in Nat
      BY <1>1
    <3>2. CASE Shut(q)
      <4>1. k > call[c].attempt
        BY <1>5, <1>6, <1>9, <2>1, <3>2 DEF MayTry
      <4>2. k >= call[c].attempt
        BY <1>1, <3>1, <4>1
      <4> QED
        BY <1>5, <2>1, <3>2, <4>2 DEF MayTry
    <3>3. CASE ~Shut(q)
      BY <1>5, <2>1, <3>3 DEF MayTry
    <3> QED
      BY <3>2, <3>3
  <2>2. CASE d # c
    <3>1. UNCHANGED <<pc[d], call[d], reply[d]>>
      BY <1>5, <2>2
    <3> QED
      BY <1>3, <1>5, <1>6, <1>9, <3>1, OldStays DEF MayTry
  <2> QED
    BY <2>1, <2>2
<1>10. Turns(q)' \in SUBSET Turns(q)
  <2> DEFINE S == Turns(q)
  <2>1. ASSUME NEW d \in Callers, NEW k \in 1..MaxAttempts, ~IsOld(d, q)', MayTry(d, k, q)'
        PROVE  <<d, k>> \in S
    BY <1>7, <1>9, <2>1, TurnMembers
  <2> HIDE DEF S
  <2>2. Turns(q)' \in SUBSET S
    BY <2>1, TurnsWithin
  <2> QED
    BY <2>2 DEF S
<1>11. /\ Old(q) \in SUBSET Callers
       /\ Turns(q) \in SUBSET ((Callers \ Old(q)) \X (1..MaxAttempts))
  BY TurnSets
<1>12. Affordable(MaxAttempts, overdrawn[q], Turns(q), Old(q), mishaps)
  BY DEF ReserveInv
<1>13. Affordable(MaxAttempts, overdrawn[q] + 1, Turns(q)', Old(q), mishaps')
  <2>1. CASE mishaps' = mishaps + 1
    BY <1>1, <1>10, <1>11, <1>12, <2>1, AffordableMishap
  <2>2. CASE Closing(c, q)' /\ mishaps' = mishaps
    <3>1. PICK k \in 1..MaxAttempts : k = IF Shut(q) THEN call[c].attempt ELSE 1
      BY <1>1, <1>2
    <3>2. MayTry(c, k, q)
      <4>1. CASE Shut(q)
        BY <1>1, <1>5, <3>1, <4>1 DEF MayTry
      <4>2. CASE ~Shut(q)
        BY <1>5, <4>2 DEF MayTry
      <4> QED
        BY <4>1, <4>2
    <3>3. ~MayTry(c, k, q)'
      <4>1. CASE Shut(q)
        BY <1>1, <1>5, <1>6, <3>1, <4>1 DEF MayTry
      <4>2. CASE ~Shut(q)
        BY <1>5, <1>6, <2>2, <3>1, <4>2 DEF MayTry
      <4> QED
        BY <4>1, <4>2
    <3> DEFINE turn == <<c, k>>
    <3>4. turn \in Turns(q) /\ turn \notin Turns(q)'
      BY <1>5, <3>2, <3>3, TurnMembers
    <3> HIDE DEF turn
    <3>5. Turns(q)' \in SUBSET (Turns(q) \ {turn})
      BY <1>10, <3>4
    <3>6. Affordable(MaxAttempts, overdrawn[q] + 1, Turns(q)', Old(q), mishaps)
      BY <1>1, <1>11, <1>12, <3>4, <3>5, AffordableUsed
    <3> QED
      BY <2>2, <3>6
  <2> QED
    BY <1>5, <2>1, <2>2
<1>14. 2 * overdrawn'[q] <= MaxAttempts * (N * (N + 1)) + 2 * mishaps'
  <2>1. Turns(q)' \in SUBSET ((Callers \ Old(q)) \X (1..MaxAttempts))
    BY <1>10, <1>11
  <2>2. overdrawn[q] + 1 \in Nat
    BY <1>1
  <2>3. 2 * (overdrawn[q] + 1) <= MaxAttempts * (N * (N + 1)) + 2 * mishaps'
    BY <1>1, <1>11, <1>13, <2>1, <2>2, AffordableBound
  <2> QED
    BY <1>3, <2>3
<1>15. ReserveInv(q)'
  <2>1. ~(left'[q] > Reserve[q])
    BY <1>1, <1>4
  <2> QED
    BY <1>3, <1>8, <1>13, <1>14, <2>1 DEF ReserveInv
<1>16. BlockInv(q)'
  <2>1. ~(refused[q] > 0)
    BY <1>1 DEF BlockInv
  <2> QED
    BY <1>3, <2>1 DEF BlockInv
<1> QED
  BY <1>15, <1>16

\* A request that is refused: the first one of a window starts the count, and
\* each takes a turn of its caller.
LEMMA SendRefused ==
  ASSUME BudgetTypes, BudgetTypes', NEW c \in Callers, Send(c), NEW q \in Quotas,
         q = call[c].quota, left[q] = 0, ReserveInv(q), BlockInv(q)
  PROVE  ReserveInv(q)' /\ BlockInv(q)'
<1>1. /\ overdrawn[q] \in Nat /\ refused[q] \in Nat /\ mishaps \in Nat /\ 0 \in Nat
      /\ Reserve[q] \in Nat
  BY BudgetConstants DEF BudgetTypes, TypeOK
<1>2. /\ left'[q] = 0 /\ overdrawn'[q] = overdrawn[q] /\ refused'[q] = refused[q] + 1
      /\ refused[q] > 0 => resets'[q] = resets[q]
  <2>1. /\ left' = [left EXCEPT ![q] = IF left[q] = 0 THEN 0 ELSE left[q] - 1]
        /\ resets' = [resets EXCEPT ![q] =
             IF left[q] = 0 /\ refused[q] = 0 THEN clock + Window ELSE resets[q]]
        /\ overdrawn' = [overdrawn EXCEPT ![q] = IF left[q] \in 1..Reserve[q] THEN @ + 1 ELSE @]
        /\ refused' = [refused EXCEPT ![q] = IF left[q] = 0 THEN @ + 1 ELSE @]
    BY RequestSent
  <2>2. /\ left \in [Quotas -> Nat] /\ resets \in [Quotas -> 1..MaxClock + Window]
        /\ overdrawn \in [Quotas -> Nat] /\ refused \in [Quotas -> Nat]
    BY DEF BudgetTypes, TypeOK
  <2>3. ~(left[q] \in 1..Reserve[q])
    BY <1>1
  <2> QED
    BY <1>1, <2>1, <2>2, <2>3
<1>3. left'[q] <= Reserve[q]
  BY <1>1, <1>2
<1>4. /\ UNCHANGED <<clock, rate, call, mishaps>>
      /\ \A d \in Callers \ {c} : UNCHANGED <<pc[d], call[d], reply[d]>>
      /\ Sending(c, q) /\ ~Answering(c, q) /\ Answering(c, q)' /\ ~Sending(c, q)'
      /\ ~IsOld(c, q) /\ ~IsOld(c, q)' /\ reply'[c].status = "blocked"
  BY <1>3, SendScope DEF IsOld
<1>5. <<c, 1>> \notin Free(q)'
  <2>1. ~MayMeet(c, q)'
    BY <1>4 DEF MayMeet
  <2> QED
    BY <2>1, FreeMembers
<1>6. /\ Old(q) \in SUBSET Callers /\ Old(q)' \in SUBSET Callers
      /\ Free(q) \in SUBSET ((Callers \ Old(q)) \X (1..1))
      /\ Free(q)' \in SUBSET ((Callers \ Old(q)') \X (1..1))
  BY TurnSets
<1>7. 1 \in Nat \ {0}
  OBVIOUS
<1>8. Affordable(1, refused[q] + 1, Free(q)', Old(q)', mishaps)
  <2>1. CASE refused[q] = 0
    <3> DEFINE turn == <<c, 1>>
               free == Free(q)' \cup {turn}
    <3>1. c \in Callers \ Old(q)'
      BY <1>4 DEF Old
    <3>2. turn \in (Callers \ Old(q)') \X (1..1)
      BY <3>1
    <3>3. free \in SUBSET ((Callers \ Old(q)') \X (1..1))
      BY <1>6, <3>2
    <3>4. turn \in free
      OBVIOUS
    <3>5. Free(q)' \in SUBSET (free \ {turn})
      BY <1>5
    <3> HIDE DEF turn, free
    <3>6. Affordable(1, 0, free, Old(q)', mishaps)
      BY <1>1, <1>6, <1>7, <3>3, AffordableAtFirst
    <3>7. Affordable(1, 0 + 1, Free(q)', Old(q)', mishaps)
      BY <1>1, <1>6, <1>7, <3>3, <3>4, <3>5, <3>6, AffordableUsed
    <3> QED
      BY <2>1, <3>7
  <2>2. CASE refused[q] > 0
    <3> DEFINE turn == <<c, 1>>
    <3>1. resets'[q] = resets[q]
      BY <1>2, <2>2
    <3>2. Shut(q)' <=> Shut(q)
      BY <1>4, <3>1, ShutStays
    <3>3. ASSUME NEW d \in Callers PROVE IsOld(d, q)' <=> IsOld(d, q)
      <4>1. CASE d = c
        BY <1>4, <4>1
      <4>2. CASE d # c
        BY <1>4, <3>1, <4>2, OldStays
      <4> QED
        BY <4>1, <4>2
    <3>4. Old(q)' = Old(q)
      BY <3>3 DEF Old
    <3>5. turn \in Free(q)
      <4>1. MayMeet(c, q)
        BY <1>4 DEF MayMeet
      <4> QED
        BY <1>4, <4>1, FreeMembers
    <3>6. Free(q)' \in SUBSET (Free(q) \ {turn})
      <4> DEFINE S == Free(q)
      <4>1. ASSUME NEW d \in Callers, ~IsOld(d, q)', MayMeet(d, q)'
            PROVE  <<d, 1>> \in S
        <5>1. CASE d = c
          BY <3>5, <5>1
        <5>2. CASE d # c
          <6>1. UNCHANGED <<pc[d], call[d], reply[d]>>
            BY <1>4, <5>2
          <6>2. MayMeet(d, q)
            BY <1>4, <3>1, <3>2, <4>1, <6>1, OldStays DEF MayMeet
          <6> QED
            BY <3>3, <4>1, <6>2, FreeMembers
        <5> QED
          BY <5>1, <5>2
      <4> HIDE DEF S
      <4>2. Free(q)' \in SUBSET S
        BY <4>1, FreeWithin
      <4> QED
        BY <1>5, <4>2 DEF S
    <3> HIDE DEF turn
    <3>7. Affordable(1, refused[q], Free(q), Old(q), mishaps)
      BY <2>2 DEF BlockInv
    <3>8. Affordable(1, refused[q] + 1, Free(q)', Old(q), mishaps)
      BY <1>1, <1>6, <1>7, <3>5, <3>6, <3>7, AffordableUsed
    <3> QED
      BY <3>4, <3>8
  <2> QED
    BY <1>1, <2>1, <2>2
<1>9. ReserveInv(q)'
  <2>1. ~(left'[q] > Reserve[q]) /\ ~(left'[q] > 0)
    BY <1>1, <1>2
  <2>2. 2 * overdrawn'[q] <= MaxAttempts * (N * (N + 1)) + 2 * mishaps'
    BY <1>2, <1>4 DEF ReserveInv
  <2> QED
    BY <2>1, <2>2 DEF ReserveInv
<1>10. BlockInv(q)'
  BY <1>2, <1>4, <1>8 DEF BlockInv
<1> QED
  BY <1>9, <1>10

LEMMA SendKeepsQuotas ==
  ASSUME BudgetTypes, BudgetTypes', NEW c \in Callers, Send(c), NEW q \in Quotas,
         ReserveInv(q), BlockInv(q)
  PROVE  ReserveInv(q)' /\ BlockInv(q)'
<1>1. left[q] \in Nat /\ Reserve[q] \in Nat /\ refused[q] \in Nat
  BY BudgetConstants DEF BudgetTypes, TypeOK
<1>2. CASE q # call[c].quota
  BY <1>2, OtherQuotaKept DEF Attempt
<1>3. CASE q = call[c].quota /\ left[q] = 0
  BY <1>3, SendRefused
<1>4. CASE q = call[c].quota /\ left[q] > 0 /\ left[q] <= Reserve[q]
  BY <1>4, SendFromReserve
<1>5. CASE q = call[c].quota /\ left[q] > Reserve[q]
  <2>1. overdrawn[q] = 0
    BY <1>5 DEF ReserveInv
  <2>2. left[q] > 0 /\ ~(left[q] \in 1..Reserve[q])
    BY <1>1, <1>5
  <2>3. refused[q] = 0
    BY <1>1, <2>2 DEF BlockInv
  <2>4. overdrawn'[q] = 0 /\ refused'[q] = 0
    <3>1. /\ overdrawn' = [overdrawn EXCEPT ![q] = IF left[q] \in 1..Reserve[q] THEN @ + 1 ELSE @]
          /\ refused' = [refused EXCEPT ![q] = IF left[q] = 0 THEN @ + 1 ELSE @]
      BY <1>5, RequestSent
    <3>2. overdrawn \in [Quotas -> Nat] /\ refused \in [Quotas -> Nat]
      BY DEF BudgetTypes, TypeOK
    <3> QED
      BY <2>1, <2>2, <2>3, <3>1, <3>2
  <2> QED
    BY <2>4, QuotaFresh
<1> QED
  BY <1>1, <1>2, <1>3, <1>4, <1>5

LEMMA BudgetStart == Init => BudgetInv
<1> SUFFICES ASSUME Init PROVE BudgetInv
  OBVIOUS
<1>1. BudgetTypes
  BY BudgetTypesStart
<1>2. ASSUME NEW q \in Quotas PROVE ReserveInv(q) /\ BlockInv(q)
  <2>1. overdrawn[q] = 0 /\ refused[q] = 0 /\ mishaps \in Nat /\ MaxAttempts \in Nat
    BY BudgetConstants DEF Init
  <2>2. /\ Old(q) \in SUBSET Callers
        /\ Turns(q) \in SUBSET ((Callers \ Old(q)) \X (1..MaxAttempts))
    BY TurnSets
  <2>3. Affordable(MaxAttempts, 0, Turns(q), Old(q), mishaps)
    BY <2>1, <2>2, AffordableAtFirst
  <2>4. 2 * 0 <= MaxAttempts * (N * (N + 1)) + 2 * mishaps
    <3> DEFINE z == MaxAttempts * (N * (N + 1))
    <3>1. z \in Nat
      BY <2>1, NumberOfCallers
    <3> HIDE DEF z
    <3>2. \A m \in Nat : 0 <= z + 2 * m
      BY <3>1
    <3> QED
      BY <2>1, <3>2 DEF z
  <2>5. ReserveInv(q)
    BY <2>1, <2>3, <2>4 DEF ReserveInv
  <2>6. BlockInv(q)
    BY <2>1 DEF BlockInv
  <2> QED
    BY <2>5, <2>6
<1> QED
  BY <1>1, <1>2 DEF BudgetInv

LEMMA BudgetStep == BudgetInv /\ [Next]_vars => BudgetInv'
<1> SUFFICES ASSUME BudgetInv, [Next]_vars PROVE BudgetInv'
  OBVIOUS
<1>1. BudgetTypes /\ BudgetTypes'
  BY BudgetTypesNext DEF BudgetInv
<1>2. ASSUME NEW q \in Quotas PROVE ReserveInv(q)' /\ BlockInv(q)'
  <2>1. ReserveInv(q) /\ BlockInv(q)
    BY DEF BudgetInv
  <2>2. CASE Tick
    BY <1>1, <2>1, <2>2, TickKeepsQuotas
  <2>3. CASE \E p \in Quotas : OtherUser(p)
    BY <1>1, <2>1, <2>3, OtherUserKeepsQuotas
  <2>4. ASSUME NEW c \in Callers, Attempt(c) PROVE ReserveInv(q)' /\ BlockInv(q)'
    BY <1>1, <2>1, <2>4, SendKeepsQuotas, ReceiveKeepsQuotas, LoseKeepsQuotas, CancelKeepsQuota
       DEF Attempt
  <2>5. ASSUME NEW c \in Callers, NEW p \in Quotas, Check(c, p)
        PROVE  ReserveInv(q)' /\ BlockInv(q)'
    BY <1>1, <2>1, <2>5, CheckKeepsQuotas
  <2>6. CASE UNCHANGED vars
    <3>1. UNCHANGED <<clock, mishaps, left, resets, overdrawn, refused, rate, pc, call, reply>>
      BY <2>6 DEF vars, service
    <3>2. mishaps <= mishaps' /\ clock <= clock' /\ left'[q] <= left[q]
      <4>1. mishaps \in Nat /\ clock \in Nat /\ left[q] \in Nat
        BY <1>1, BudgetConstants DEF BudgetTypes, TypeOK
      <4> QED
        BY <3>1, <4>1
    <3>3. Shut(q)' <=> Shut(q)
      BY <3>1, ShutStays
    <3>4. \A c \in Callers : Eases(c, q)
      BY <3>1 DEF Eases
    <3> QED
      BY <1>1, <2>1, <3>1, <3>2, <3>3, <3>4, QuotaEased
  <2> QED
    BY <2>2, <2>3, <2>4, <2>5, <2>6 DEF Next, Refuse
<1> QED
  BY <1>1, <1>2 DEF BudgetInv

\* One of two consecutive numbers is even.
LEMMA TwiceOpenings == Openings \in Nat /\ 2 * Openings = N * (N + 1)
<1>1. N \in Nat
  BY NumberOfCallers
<1>2. ASSUME NEW n \in Nat PROVE \E k \in Nat : n = 2 * k \/ n = 2 * k + 1
  <2>1. /\ n \div 2 \in Nat
        /\ n = 2 * (n \div 2) \/ n = 2 * (n \div 2) + 1
    OBVIOUS
  <2> QED
    BY <2>1
<1>3. PICK k \in Nat : N = 2 * k \/ N = 2 * k + 1
  BY <1>1, <1>2
<1>4. \A m \in Nat : (2 * m) \div 2 = m
  OBVIOUS
<1>5. Openings = (N * (N + 1)) \div 2
  BY DEF Openings, N
<1> HIDE DEF N
<1>6. CASE N = 2 * k
  <2> DEFINE m == k * (2 * k + 1)
  <2>1. m \in Nat /\ N * (N + 1) = 2 * m
    BY <1>6
  <2> HIDE DEF m
  <2> QED
    BY <1>4, <1>5, <2>1
<1>7. CASE N = 2 * k + 1
  <2> DEFINE m == (2 * k + 1) * (k + 1)
  <2>1. m \in Nat /\ N * (N + 1) = 2 * m
    BY <1>7
  <2> HIDE DEF m
  <2> QED
    BY <1>4, <1>5, <2>1
<1> QED
  BY <1>3, <1>6, <1>7

LEMMA BudgetBounds == BudgetInv => TypeOK /\ ReserveHolds /\ BlockIsRespected
<1> SUFFICES ASSUME BudgetInv PROVE TypeOK /\ ReserveHolds /\ BlockIsRespected
  OBVIOUS
<1>1. TypeOK
  BY DEF BudgetInv, BudgetTypes
<1>2. ASSUME NEW q \in Quotas
      PROVE  overdrawn[q] <= MaxAttempts * Openings + mishaps /\ refused[q] <= Openings + mishaps
  <2> DEFINE z == MaxAttempts * Openings
  <2>1. /\ overdrawn[q] \in Nat /\ refused[q] \in Nat /\ mishaps \in Nat
        /\ MaxAttempts \in Nat /\ Openings \in Nat
    BY <1>1, BudgetConstants, TwiceOpenings DEF TypeOK
  <2>2. z \in Nat /\ MaxAttempts * (N * (N + 1)) = 2 * z
    <3>1. MaxAttempts * (2 * Openings) = 2 * z /\ z \in Nat
      BY <2>1
    <3> QED
      BY <3>1, TwiceOpenings
  <2>3. 2 * overdrawn[q] <= 2 * z + 2 * mishaps
    BY <2>2 DEF BudgetInv, ReserveInv
  <2> HIDE DEF z
  <2>4. overdrawn[q] <= z + mishaps
    BY <2>1, <2>2, <2>3
  <2>5. refused[q] <= Openings + mishaps
    <3>1. CASE refused[q] > 0
      <4>1. Affordable(1, refused[q], Free(q), Old(q), mishaps)
        BY <3>1 DEF BudgetInv, BlockInv
      <4>2. 1 \in Nat \ {0}
        OBVIOUS
      <4>3. 2 * refused[q] <= 1 * (N * (N + 1)) + 2 * mishaps
        BY <2>1, <4>1, <4>2, TurnSets, AffordableBound
      <4>4. 2 * refused[q] <= 1 * (2 * Openings) + 2 * mishaps
        BY <4>3, TwiceOpenings
      <4> QED
        BY <2>1, <4>4
    <3>2. CASE ~(refused[q] > 0)
      BY <2>1, <3>2
    <3> QED
      BY <3>1, <3>2
  <2> QED
    BY <2>4, <2>5 DEF z
<1> QED
  BY <1>1, <1>2 DEF ReserveHolds, BlockIsRespected

\* For any number of callers, quotas and attempts, however the answers of
\* Client.send are lost and reordered, every variable of the client keeps its
\* kind: an attempt count stays within maxAttempts and no answer outlives its
\* call.
THEOREM ClientTypeCorrect == Spec => []TypeOK
<1>1. BudgetInv => TypeOK
  BY BudgetBounds
<1> QED
  BY <1>1, BudgetStart, BudgetStep, PTL DEF Spec

\* The reserve checkBudget keeps: the requests that are granted out of it in a
\* window are at most maxAttempts for each opening of the guard, and one more
\* for each mishap, for any number of callers and any reserve.
THEOREM ReserveIsKept == Spec => []ReserveHolds
<1>1. BudgetInv => ReserveHolds
  BY BudgetBounds
<1> QED
  BY <1>1, BudgetStart, BudgetStep, PTL DEF Spec

\* A 429 is not tried again and shuts the guard of its quota: the requests a
\* window refuses are at most one for each opening of the guard and one for
\* each mishap.
THEOREM BlocksAreFew == Spec => []BlockIsRespected
<1>1. BudgetInv => BlockIsRespected
  BY BudgetBounds
<1> QED
  BY <1>1, BudgetStart, BudgetStep, PTL DEF Spec
=============================================================================
