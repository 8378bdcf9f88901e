-------------------------- MODULE ImageView_proofs --------------------------
(***************************************************************************)
(* Theorems about the pages, the session and the pdf of the client, for    *)
(* every number of pages, scans, starts of the program and shows of its    *)
(* window, and for every width of size_t that PageList allows.             *)
(*                                                                         *)
(* The pages and the window are proved about together.  Orders relates the *)
(* manager's vector to the layout; FirstShow says what the program has     *)
(* before sessions are saved; Stored relates the document to the session   *)
(* file and the pdf at every place where a handler can be cut; Asked       *)
(* relates it to the modified flag.                                        *)
(***************************************************************************)
EXTENDS ImageViewProps, FunctionTheorems, SequenceTheorems, TLAPS

-----------------------------------------------------------------------------
(* Rows without repetition.                                                *)

\* What std::erase and removeWidget leave of a row without repetition.
LEMMA RemovedFirst ==
  ASSUME NEW S, NEW s \in Seq(S), NoRepeat(s), NEW k \in 1..Len(s)
  PROVE  LET r == RemoveFirst(s, s[k]) IN
         /\ r \in Seq(S) /\ Len(r) = Len(s) - 1
         /\ \A n \in 1..Len(r) : r[n] = IF n < k THEN s[n] ELSE s[n + 1]
<1> DEFINE a == SubSeq(s, 1, k - 1)
           b == SubSeq(s, k + 1, Len(s))
<1>1. RemoveFirst(s, s[k]) = a \o b
  <2>1. {i \in 1..Len(s) : s[i] = s[k]} = {k}
    BY DEF NoRepeat
  <2>2. Min({k}) = k
    BY DEF Min
  <2>3. RemoveFirst(s, s[k]) = RemoveAt(s, k)
    BY <2>1, <2>2 DEF RemoveFirst, SelectInSeq
  <2>4. QED
    BY <2>3 DEF RemoveAt
<1>2. /\ a \in Seq(S) /\ Len(a) = k - 1
      /\ \A n \in 1..k - 1 : a[n] = s[n]
  BY SubSeqProperties
<1>3. /\ b \in Seq(S) /\ Len(b) = Len(s) - k
      /\ \A n \in 1..Len(s) - k : b[n] = s[k + n]
  BY SubSeqProperties
<1> HIDE DEF a, b
<1>4. /\ a \o b \in Seq(S) /\ Len(a \o b) = Len(s) - 1
      /\ \A n \in 1..Len(s) - 1 : (a \o b)[n] = IF n < k THEN a[n] ELSE b[n - (k - 1)]
  <2>1. /\ a \o b \in Seq(S) /\ Len(a \o b) = Len(a) + Len(b)
        /\ \A n \in 1..Len(a) + Len(b) :
             (a \o b)[n] = IF n <= Len(a) THEN a[n] ELSE b[n - Len(a)]
    BY <1>2, <1>3, ConcatProperties
  <2>2. Len(a) + Len(b) = Len(s) - 1
    BY <1>2, <1>3
  <2>3. \A n \in 1..Len(s) - 1 : n <= Len(a) <=> n < k
    BY <1>2
  <2>4. QED
    BY <2>1, <2>2, <2>3, <1>2
<1>5. ASSUME NEW n \in 1..Len(s) - 1
      PROVE  (a \o b)[n] = IF n < k THEN s[n] ELSE s[n + 1]
  <2>1. CASE n < k
    BY <2>1, <1>2, <1>4
  <2>2. CASE ~(n < k)
    <3>1. n - (k - 1) \in 1..Len(s) - k /\ k + (n - (k - 1)) = n + 1
      BY <2>2
    <3>2. QED
      BY <2>2, <3>1, <1>3, <1>4
  <2>3. QED
    BY <2>1, <2>2
<1>6. QED
  BY <1>1, <1>4, <1>5

LEMMA RemovedOnce ==
  ASSUME NEW S, NEW s \in Seq(S), NoRepeat(s), NEW k \in 1..Len(s)
  PROVE  LET r == RemoveFirst(s, s[k]) IN
         NoRepeat(r) /\ ToSet(r) = ToSet(s) \ {s[k]}
<1> DEFINE r == RemoveFirst(s, s[k])
<1>1. /\ r \in Seq(S) /\ Len(r) = Len(s) - 1
      /\ \A n \in 1..Len(r) : r[n] = IF n < k THEN s[n] ELSE s[n + 1]
  BY RemovedFirst
<1> HIDE DEF r
<1>2. DOMAIN r = 1..Len(s) - 1 /\ DOMAIN s = 1..Len(s)
  BY <1>1
<1>3. NoRepeat(r)
  <2> SUFFICES ASSUME NEW m \in DOMAIN r, NEW n \in DOMAIN r, r[m] = r[n]
               PROVE  m = n
    BY DEF NoRepeat
  <2> DEFINE at(x) == IF x < k THEN x ELSE x + 1
  <2>1. at(m) \in DOMAIN s /\ at(n) \in DOMAIN s
    BY <1>2
  <2>2. s[at(m)] = s[at(n)]
    BY <1>1, <1>2
  <2>3. at(m) = at(n)
    BY <2>1, <2>2 DEF NoRepeat
  <2>4. QED
    BY <2>3, <1>2
<1>4. ASSUME NEW x \in ToSet(r) PROVE x \in ToSet(s) \ {s[k]}
  <2>1. PICK n \in DOMAIN r : x = r[n]
    BY <1>4 DEF ToSet
  <2>2. PICK m \in DOMAIN s : x = s[m] /\ m # k
    BY <2>1, <1>1, <1>2
  <2>3. QED
    BY <2>2, <1>2 DEF ToSet, NoRepeat
<1>5. ASSUME NEW x \in ToSet(s) \ {s[k]} PROVE x \in ToSet(r)
  <2>1. PICK m \in DOMAIN s : x = s[m] /\ m # k
    BY <1>5 DEF ToSet
  <2>2. CASE m < k
    BY <2>1, <2>2, <1>1, <1>2 DEF ToSet
  <2>3. CASE m > k
    <3>1. m - 1 \in DOMAIN r /\ r[m - 1] = s[m]
      BY <2>1, <2>3, <1>1, <1>2
    <3>2. QED
      BY <3>1, <2>1 DEF ToSet
  <2>4. QED
    BY <2>1, <2>2, <2>3, <1>2
<1>6. QED
  BY <1>3, <1>4, <1>5 DEF r

LEMMA AppendedOnce ==
  ASSUME NEW S, NEW s \in Seq(S), NEW e \in S, NoRepeat(s), e \notin ToSet(s)
  PROVE  NoRepeat(Append(s, e)) /\ ToSet(Append(s, e)) = ToSet(s) \cup {e}
<1>1. /\ Append(s, e) \in Seq(S) /\ Len(Append(s, e)) = Len(s) + 1
      /\ \A n \in 1..Len(s) : Append(s, e)[n] = s[n]
      /\ Append(s, e)[Len(s) + 1] = e
  BY AppendProperties
<1>2. DOMAIN Append(s, e) = 1..Len(s) + 1 /\ DOMAIN s = 1..Len(s)
  BY <1>1
<1>3. NoRepeat(Append(s, e))
  BY <1>1, <1>2 DEF NoRepeat, ToSet
<1>4. ToSet(Append(s, e)) \subseteq ToSet(s) \cup {e}
  BY <1>1, <1>2 DEF ToSet
<1>5. ToSet(s) \cup {e} \subseteq ToSet(Append(s, e))
  BY <1>1, <1>2 DEF ToSet
<1>6. QED
  BY <1>3, <1>4, <1>5

\* The places of two elements changed: a row of the same elements.
LEMMA ChangedPlaces ==
  ASSUME NEW S, NEW s \in Seq(S), NEW a \in 1..Len(s), NEW b \in 1..Len(s)
  PROVE  LET r == [s EXCEPT ![a] = s[b], ![b] = s[a]] IN
         /\ r \in Seq(S) /\ Len(r) = Len(s) /\ ToSet(r) = ToSet(s)
         /\ NoRepeat(s) => NoRepeat(r)
<1> DEFINE r == [s EXCEPT ![a] = s[b], ![b] = s[a]]
<1>1. /\ r \in Seq(S) /\ Len(r) = Len(s) /\ DOMAIN r = 1..Len(s) /\ DOMAIN s = 1..Len(s)
      /\ \A n \in 1..Len(s) :
           r[n] = IF n = b THEN s[a] ELSE IF n = a THEN s[b] ELSE s[n]
  <2>1. r \in [1..Len(s) -> S]
    OBVIOUS
  <2>2. QED
    BY <2>1
<1> HIDE DEF r
<1>2. ToSet(r) \subseteq ToSet(s)
  BY <1>1 DEF ToSet
<1>3. ASSUME NEW n \in 1..Len(s) PROVE s[n] \in ToSet(r)
  <2>1. CASE n = a
    BY <2>1, <1>1 DEF ToSet
  <2>2. CASE n = b
    BY <2>2, <1>1 DEF ToSet
  <2>3. CASE n # a /\ n # b
    BY <2>3, <1>1 DEF ToSet
  <2>4. QED
    BY <2>1, <2>2, <2>3
<1>4. ToSet(s) \subseteq ToSet(r)
  BY <1>1, <1>3 DEF ToSet
<1>5. ASSUME NoRepeat(s) PROVE NoRepeat(r)
  BY <1>1, <1>5 DEF NoRepeat
<1>6. QED
  BY <1>1, <1>2, <1>4, <1>5 DEF r

-----------------------------------------------------------------------------
(* Pages in a row, and the same pages in another order.                    *)

Rearranged(s, t) ==
  \E f \in Bijection(DOMAIN s, DOMAIN t) : \A n \in DOMAIN s : s[n] = t[f[n]]

LEMMA BijectionMeets ==
  ASSUME NEW S, NEW T, NEW f \in Bijection(S, T)
  PROVE  /\ f \in [S -> T]
         /\ \A y \in T : \E x \in S : f[x] = y
         /\ \A x, y \in S : f[x] = f[y] => x = y
BY Fun_BijectionProperties

LEMMA RearrangedSelf == ASSUME NEW s PROVE Rearranged(s, s)
<1> DEFINE f == [n \in DOMAIN s |-> n]
<1>1. f \in Bijection(DOMAIN s, DOMAIN s)
  BY Fun_IsBij
<1>2. QED
  BY <1>1 DEF Rearranged

LEMMA RearrangedBack ==
  ASSUME NEW s, NEW t, Rearranged(s, t)
  PROVE  Rearranged(t, s)
<1>1. PICK f \in Bijection(DOMAIN s, DOMAIN t) : \A n \in DOMAIN s : s[n] = t[f[n]]
  BY DEF Rearranged
<1> DEFINE g == Inverse(f, DOMAIN s, DOMAIN t)
<1>2. /\ g \in Bijection(DOMAIN t, DOMAIN s)
      /\ \A n \in DOMAIN t : f[g[n]] = n
  BY Fun_BijInverse, Fun_BijectionProperties
<1>3. g \in [DOMAIN t -> DOMAIN s]
  BY <1>2, BijectionMeets
<1> HIDE DEF g
<1>4. \A n \in DOMAIN t : t[n] = s[g[n]]
  BY <1>1, <1>2, <1>3
<1>5. QED
  BY <1>2, <1>4 DEF Rearranged

LEMMA RearrangedSets ==
  ASSUME NEW s, NEW t, Rearranged(s, t)
  PROVE  ToSet(s) = ToSet(t)
<1>1. PICK f \in Bijection(DOMAIN s, DOMAIN t) : \A n \in DOMAIN s : s[n] = t[f[n]]
  BY DEF Rearranged
<1>2. /\ f \in [DOMAIN s -> DOMAIN t]
      /\ \A y \in DOMAIN t : \E x \in DOMAIN s : f[x] = y
  BY BijectionMeets
<1>3. QED
  BY <1>1, <1>2 DEF ToSet

LEMMA RearrangedPages ==
  ASSUME NEW s, NEW t, Rearranged(s, t)
  PROVE  SamePages(s, t)
BY DEF Rearranged, SamePages, Same

LEMMA SortedRearranges ==
  ASSUME NEW s \in Seq(Pages), NEW t \in SortedByNumber(s)
  PROVE  t \in Seq(Pages) /\ Rearranged(t, s)
<1>1. PICK f \in Bijection(DOMAIN s, DOMAIN s) : t = [n \in DOMAIN s |-> s[f[n]]]
  BY DEF SortedByNumber
<1>2. f \in [DOMAIN s -> DOMAIN s]
  BY BijectionMeets
<1>3. t \in [1..Len(s) -> Pages]
  BY <1>1, <1>2
<1>4. QED
  BY <1>1, <1>3 DEF Rearranged

\* The pages of a row of items.
Row(s, g) == [n \in 1..Len(s) |-> g[s[n]]]

LEMMA Rows == serialize_items = Row(m_items, page) /\ Shown = Row(layout, page)
BY DEF serialize_items, Shown, Row

LEMMA RowSet ==
  ASSUME NEW s \in Seq(Items), NEW g \in [Items -> Pages]
  PROVE  /\ Row(s, g) \in Seq(Pages) /\ Len(Row(s, g)) = Len(s)
         /\ \A n \in 1..Len(s) : Row(s, g)[n] = g[s[n]]
         /\ ToSet(Row(s, g)) = {g[i] : i \in ToSet(s)}
<1>1. DOMAIN s = 1..Len(s) /\ \A n \in 1..Len(s) : s[n] \in Items
  OBVIOUS
<1>2. Row(s, g) \in Seq(Pages) /\ Len(Row(s, g)) = Len(s)
  BY <1>1 DEF Row
<1>3. QED
  BY <1>1, <1>2 DEF ToSet, Row

LEMMA RowFiles ==
  ASSUME NEW s \in Seq(Items), NEW g \in [Items -> Pages]
  PROVE  FilesOf(Row(s, g)) = {g[i].file : i \in ToSet(s)}
<1>1. ToSet(Row(s, g)) = {g[i] : i \in ToSet(s)}
  BY RowSet
<1>2. {p.file : p \in {g[i] : i \in ToSet(s)}} = {g[i].file : i \in ToSet(s)}
  OBVIOUS
<1>3. QED
  BY <1>1, <1>2, Zenon DEF FilesOf

LEMMA RowAppended ==
  ASSUME NEW s \in Seq(Items), NEW e \in Items, e \notin ToSet(s),
         NEW g \in [Items -> Pages], NEW p \in Pages
  PROVE  Row(Append(s, e), [g EXCEPT ![e] = p]) = Append(Row(s, g), p)
<1> DEFINE t == Append(s, e)
           h == [g EXCEPT ![e] = p]
           r == Row(s, g)
           l == Row(t, h)
<1>1. /\ t \in Seq(Items) /\ Len(t) = Len(s) + 1
      /\ \A n \in 1..Len(s) : t[n] = s[n]
      /\ t[Len(s) + 1] = e
  BY AppendProperties
<1>2. /\ h \in [Items -> Pages] /\ h[e] = p
      /\ \A i \in Items : i # e => h[i] = g[i]
  OBVIOUS
<1> HIDE DEF t, h
<1>3. /\ r \in Seq(Pages) /\ Len(r) = Len(s)
      /\ \A n \in 1..Len(s) : r[n] = g[s[n]]
  BY RowSet
<1>4. /\ l \in Seq(Pages) /\ Len(l) = Len(t)
      /\ \A n \in 1..Len(t) : l[n] = h[t[n]]
  BY <1>1, <1>2, RowSet
<1> HIDE DEF r, l
<1>5. /\ Append(r, p) \in Seq(Pages) /\ Len(Append(r, p)) = Len(s) + 1
      /\ \A n \in 1..Len(s) : Append(r, p)[n] = r[n]
      /\ Append(r, p)[Len(s) + 1] = p
  BY <1>3, AppendProperties
<1>6. ASSUME NEW n \in 1..Len(s) PROVE l[n] = r[n]
  <2>1. s[n] \in Items /\ s[n] # e
    BY DEF ToSet
  <2>2. QED
    BY <2>1, <1>1, <1>2, <1>3, <1>4
<1>7. l[Len(s) + 1] = p
  BY <1>1, <1>2, <1>4
<1>8. \A n \in 1..Len(l) : l[n] = Append(r, p)[n]
  BY <1>1, <1>4, <1>5, <1>6, <1>7
<1>9. l = Append(r, p)
  BY <1>1, <1>4, <1>5, <1>8, SeqEqual
<1>10. QED
  BY <1>9 DEF l, r, t, h

-----------------------------------------------------------------------------
(* The operations on the pages.                                            *)

PageInv ==
  /\ PagesTypeOK
  /\ EveryPageShownOnce
  /\ Len(layout) = Len(m_items)
  /\ Len(m_items) <= created
  /\ \A i \in ToSet(m_items) : i <= created

LEMMA Numbers ==
  ASSUME NEW x \in 0..SizeT - 1
  PROVE  /\ x < SizeT - 1 => (x + 1) % SizeT = x + 1
         /\ x = SizeT - 1 => (x + 1) % SizeT = 0
         /\ (x + 1) % SizeT \in 0..SizeT - 1
         /\ x > 0 => (x + SizeT - 1) % SizeT = x - 1
         /\ (x + SizeT - 1) % SizeT \in 0..SizeT - 1
<1> SizeT \in Nat /\ SizeT > 2
  BY PageAssumption
<1> QED
  OBVIOUS

LEMMA AddItemStep ==
  ASSUME PageInv, NEW p \in Pages, AddItem(p)
  PROVE  /\ PageInv' /\ crashed' = crashed
         /\ serialize_items' = Append(serialize_items, p)
         /\ Shown' = Append(Shown, p)
<1> USE DEF AddItem
<1>1. /\ created + 1 \in Items /\ created \in Nat /\ created' = created + 1
      /\ m_items \in Seq(Items) /\ layout \in Seq(Items) /\ page \in [Items -> Pages]
      /\ created + 1 \notin ToSet(m_items) /\ created + 1 \notin ToSet(layout)
  BY PageAssumption DEF PageInv, PagesTypeOK, Items, EveryPageShownOnce
<1>2. /\ NoRepeat(m_items') /\ ToSet(m_items') = ToSet(m_items) \cup {created + 1}
      /\ NoRepeat(layout') /\ ToSet(layout') = ToSet(layout) \cup {created + 1}
  BY <1>1, AppendedOnce DEF PageInv, EveryPageShownOnce
<1>3. /\ m_items' \in Seq(Items) /\ Len(m_items') = Len(m_items) + 1
      /\ layout' \in Seq(Items) /\ Len(layout') = Len(layout) + 1
  BY <1>1
<1>4. page' \in [Items -> Pages]
  BY <1>1
<1>5. PageInv'
  <2>1. PagesTypeOK'
    BY <1>1, <1>3, <1>4 DEF PageInv, PagesTypeOK, Items
  <2>2. EveryPageShownOnce'
    BY <1>2 DEF PageInv, EveryPageShownOnce
  <2>3. Len(layout') = Len(m_items') /\ Len(m_items') <= created'
    BY <1>1, <1>3 DEF PageInv
  <2>4. ASSUME NEW i \in ToSet(m_items') PROVE i <= created'
    <3>1. CASE i = created + 1
      BY <3>1, <1>1
    <3>2. CASE i \in ToSet(m_items)
      <4>1. i <= created /\ i \in Items
        BY <3>2, <1>1 DEF PageInv, ToSet
      <4>2. QED
        BY <4>1, <1>1 DEF Items
    <3>3. QED
      BY <3>1, <3>2, <1>2
  <2>5. QED
    BY <2>1, <2>2, <2>3, <2>4 DEF PageInv
<1>6. ASSUME NEW s \in Seq(Items), created + 1 \notin ToSet(s)
      PROVE  Row(Append(s, created + 1), page') = Append(Row(s, page), p)
  BY <1>1, <1>6, RowAppended
<1>7. serialize_items' = Append(serialize_items, p)
  <2>1. serialize_items' = Row(m_items', page')
    BY DEF serialize_items, Row
  <2>2. QED
    BY <2>1, <1>1, <1>6, Rows
<1>8. Shown' = Append(Shown, p)
  <2>1. Shown' = Row(layout', page')
    BY DEF Shown, Row
  <2>2. QED
    BY <2>1, <1>1, <1>6, Rows
<1>9. QED
  BY <1>5, <1>7, <1>8
LEMMA RowOf ==
  ASSUME NEW s \in Seq(Items), NEW i \in ToSet(s)
  PROVE  i \in Items /\ \E k \in 1..Len(s) : s[k] = i
BY DEF ToSet

LEMMA RemoveStep ==
  ASSUME PageInv, NEW i \in ToSet(layout), remove_image(i)
  PROVE  /\ PageInv'
         /\ \/ crashed' = TRUE /\ UNCHANGED <<m_items, layout, page, created>>
            \/ /\ crashed' = crashed /\ Len(layout') = Len(layout) - 1
               /\ \A j \in Items : page'[j].file = page[j].file
               /\ layout = m_items /\ Numbered => Numbered'
<1>1. /\ m_items \in Seq(Items) /\ layout \in Seq(Items) /\ page \in [Items -> Pages]
      /\ NoRepeat(m_items) /\ NoRepeat(layout) /\ ToSet(m_items) = ToSet(layout)
      /\ created \in 0..MaxItems /\ crashed \in BOOLEAN
  BY DEF PageInv, PagesTypeOK, EveryPageShownOnce
<1>2. CASE page[i].number >= SizeT \div 2
  <2>1. crashed' = TRUE /\ UNCHANGED <<m_items, layout, page, created>>
    BY <1>2 DEF remove_image
  <2>2. PageInv'
    <3>1. PagesTypeOK'
      BY <1>1, <2>1 DEF PagesTypeOK
    <3>2. EveryPageShownOnce'
      BY <1>1, <2>1 DEF EveryPageShownOnce
    <3>3. QED
      BY <2>1, <3>1, <3>2 DEF PageInv
  <2>3. QED
    BY <2>1, <2>2
<1>3. CASE ~(page[i].number >= SizeT \div 2)
  <2> DEFINE later == SubSeq(m_items, page[i].number + 1, Len(m_items))
  <2>1. /\ page' = [j \in Items |->
                      IF Contains(later, j)
                      THEN [page[j] EXCEPT !.number = (@ + SizeT - 1) % SizeT]
                      ELSE page[j]]
        /\ layout' = RemoveFirst(layout, i)
        /\ m_items' = RemoveFirst(m_items, i)
        /\ created' = created /\ crashed' = crashed
    BY <1>3 DEF remove_image
  <2>2. PICK k \in 1..Len(layout) : layout[k] = i
    BY <1>1, RowOf
  <2>3. PICK m \in 1..Len(m_items) : m_items[m] = i
    BY <1>1, RowOf
  <2>4. /\ layout' \in Seq(Items) /\ Len(layout') = Len(layout) - 1
        /\ \A n \in 1..Len(layout') : layout'[n] = IF n < k THEN layout[n] ELSE layout[n + 1]
        /\ NoRepeat(layout') /\ ToSet(layout') = ToSet(layout) \ {i}
    BY <1>1, <2>1, <2>2, RemovedFirst, RemovedOnce
  <2>5. /\ m_items' \in Seq(Items) /\ Len(m_items') = Len(m_items) - 1
        /\ NoRepeat(m_items') /\ ToSet(m_items') = ToSet(m_items) \ {i}
    BY <1>1, <2>1, <2>3, RemovedFirst, RemovedOnce
  <2>6. ASSUME NEW j \in Items
        PROVE  /\ page'[j] \in Pages /\ page'[j].file = page[j].file
               /\ page'[j].number = IF Contains(later, j)
                                    THEN (page[j].number + SizeT - 1) % SizeT
                                    ELSE page[j].number
    <3> HIDE DEF later
    <3>1. page[j] \in Pages
      BY <1>1
    <3>2. (page[j].number + SizeT - 1) % SizeT \in 0..SizeT - 1
      BY <3>1, Numbers DEF Pages
    <3>3. QED
      BY <2>1, <3>1, <3>2 DEF Pages
  <2>7. page' \in [Items -> Pages]
    BY <2>1, <2>6
  <2>8. PageInv'
    <3>1. PagesTypeOK'
      BY <1>1, <2>1, <2>4, <2>5, <2>7 DEF PagesTypeOK
    <3>2. EveryPageShownOnce'
      BY <1>1, <2>4, <2>5 DEF EveryPageShownOnce
    <3>3. Len(layout') = Len(m_items') /\ Len(m_items') <= created'
      BY <1>1, <2>1, <2>4, <2>5 DEF PageInv
    <3>4. \A j \in ToSet(m_items') : j <= created'
      BY <2>1, <2>5 DEF PageInv
    <3>5. QED
      BY <3>1, <3>2, <3>3, <3>4 DEF PageInv
  <2>9. ASSUME layout = m_items, Numbered PROVE Numbered'
    <3>1. page[i].number = k
      BY <2>2, <2>9 DEF Numbered
    <3>2. /\ Len(later) = Len(layout) - k
          /\ \A n \in 1..Len(layout) - k : later[n] = layout[k + n]
      <4>1. \A n \in k + 1..Len(m_items) : m_items[n] \in Items
        BY <1>1
      <4>2. QED
        BY <4>1, <3>1, <2>9, <1>1, SubSeqProperties
    <3> HIDE DEF later
    <3>3. ASSUME NEW n \in 1..Len(layout) PROVE Contains(later, layout[n]) <=> n > k
      <4>1. CASE n > k
        <5>1. n - k \in 1..Len(later) /\ later[n - k] = layout[n]
          BY <4>1, <3>2
        <5>2. QED
          BY <5>1, <4>1 DEF Contains
      <4>2. CASE ~(n > k)
        <5>1. ASSUME NEW d \in 1..Len(layout) - k PROVE layout[k + d] # layout[n]
          BY <4>2, <1>1 DEF NoRepeat
        <5>2. QED
          BY <5>1, <4>2, <3>2 DEF Contains
      <4>3. QED
        BY <4>1, <4>2
    <3>4. ASSUME NEW n \in 1..Len(layout)
          PROVE  page'[layout[n]].number = IF n > k THEN n - 1 ELSE n
      <4>1. layout[n] \in Items /\ page[layout[n]].number = n /\ page[layout[n]] \in Pages
        BY <1>1, <2>9 DEF Numbered
      <4>2. n \in 1..SizeT - 1
        BY <4>1 DEF Pages
      <4>3. (n + SizeT - 1) % SizeT = n - 1
        BY <4>2, Numbers
      <4>4. QED
        BY <4>1, <4>3, <3>3, <2>6
    <3>5. ASSUME NEW n \in 1..Len(layout') PROVE page'[layout'[n]].number = n
      <4>1. CASE n < k
        BY <4>1, <3>4, <2>4
      <4>2. CASE ~(n < k)
        <5>1. layout'[n] = layout[n + 1] /\ n + 1 \in 1..Len(layout) /\ n + 1 > k
          BY <4>2, <2>4
        <5>2. QED
          BY <5>1, <3>4
      <4>3. QED
        BY <4>1, <4>2
    <3>6. QED
      BY <3>5 DEF Numbered
  <2>10. QED
    BY <2>1, <2>4, <2>6, <2>8, <2>9
<1>4. QED
  BY <1>2, <1>3
LEMMA Neighbours ==
  ASSUME PageInv, NEW i \in Items, NEW direction \in {"LEFT", "RIGHT"},
         Neighbour(i, direction) # 0
  PROVE  /\ page[i].number \in 1..SizeT - 1
         /\ Neighbour(i, direction) \in 1..Len(layout)
         /\ Neighbour(i, direction) = IF direction = "LEFT" THEN page[i].number - 1
                                      ELSE page[i].number + 1
<1> DEFINE number == page[i].number
<1>1. number \in 0..SizeT - 1 /\ Len(layout) \in Nat /\ SizeT \in Nat /\ SizeT > 2
  BY PageAssumption DEF PageInv, PagesTypeOK, Pages
<1>2. /\ (number + 1) % SizeT \in 0..SizeT - 1
      /\ number < SizeT - 1 => (number + 1) % SizeT = number + 1
      /\ number = SizeT - 1 => (number + 1) % SizeT = 0
  BY <1>1, Numbers
<1>3. number # 0
  BY <1>1 DEF Neighbour
<1>4. CASE direction = "LEFT"
  <2>1. Neighbour(i, direction) = number - 1 /\ ~(number - 1 > Len(layout))
    BY <1>3, <1>4 DEF Neighbour
  <2>2. QED
    BY <1>1, <1>3, <1>4, <2>1
<1>5. CASE direction = "RIGHT"
  <2>1. /\ Neighbour(i, direction) = (number + 1) % SizeT
        /\ ~((number + 1) % SizeT > Len(layout))
    BY <1>3, <1>5 DEF Neighbour
  <2> DEFINE next == (number + 1) % SizeT
  <2>2. /\ next \in 0..SizeT - 1 /\ next # 0 /\ ~(next > Len(layout))
        /\ number < SizeT - 1 => next = number + 1
        /\ number = SizeT - 1 => next = 0
    BY <1>2, <2>1
  <2>3. Neighbour(i, direction) = next
    BY <2>1
  <2> HIDE DEF next, number
  <2>4. next = number + 1 /\ number \in 1..SizeT - 1 /\ next \in 1..Len(layout)
    BY <1>1, <1>3, <2>2
  <2>5. QED
    BY <1>5, <2>3, <2>4 DEF number
<1>6. QED
  BY <1>4, <1>5

LEMMA MoveStep ==
  ASSUME PageInv, NEW i \in Items, NEW direction \in {"LEFT", "RIGHT"},
         move_image(i, direction)
  PROVE  /\ PageInv'
         /\ \/ crashed' = TRUE /\ UNCHANGED <<m_items, layout, page, created>>
            \/ /\ crashed' = crashed /\ ToSet(layout') = ToSet(layout)
               /\ Len(layout') = Len(layout) /\ m_items' = m_items
               /\ \A j \in Items : /\ page'[j].file = page[j].file
                                   /\ page'[j].transform = page[j].transform
<1> DEFINE a == page[i].number
           b == Neighbour(i, direction)
           x == layout[a]
           y == layout[b]
<1>1. /\ m_items \in Seq(Items) /\ layout \in Seq(Items) /\ page \in [Items -> Pages]
      /\ NoRepeat(m_items) /\ NoRepeat(layout) /\ ToSet(m_items) = ToSet(layout)
      /\ created \in 0..MaxItems /\ crashed \in BOOLEAN
  BY DEF PageInv, PagesTypeOK, EveryPageShownOnce
<1>2. CASE b = 0
  <2>1. UNCHANGED page_vars
    BY <1>2 DEF move_image
  <2>2. PagesTypeOK' /\ EveryPageShownOnce'
    BY <1>1, <2>1 DEF PagesTypeOK, EveryPageShownOnce, page_vars
  <2>3. PageInv'
    BY <2>1, <2>2 DEF PageInv, page_vars
  <2>4. QED
    BY <2>1, <2>3 DEF page_vars
<1>3. CASE b # 0 /\ a > Len(layout)
  <2>1. crashed' = TRUE /\ UNCHANGED <<m_items, layout, page, created>>
    BY <1>3 DEF move_image
  <2>2. PagesTypeOK' /\ EveryPageShownOnce'
    BY <1>1, <2>1 DEF PagesTypeOK, EveryPageShownOnce
  <2>3. PageInv'
    BY <2>1, <2>2 DEF PageInv
  <2>4. QED
    BY <2>1, <2>3
<1>4. CASE b # 0 /\ ~(a > Len(layout))
  <2>1. a \in 1..Len(layout) /\ b \in 1..Len(layout)
    BY <1>1, <1>4, Neighbours
  <2>2. /\ page' = [page EXCEPT ![x].number = page[y].number,
                                ![y].number = page[x].number]
        /\ layout' = [layout EXCEPT ![a] = y, ![b] = x]
        /\ m_items' = m_items /\ created' = created /\ crashed' = crashed
    BY <1>4 DEF move_image
  <2>3. x \in Items /\ y \in Items
    BY <1>1, <2>1
  <2>4. /\ layout' \in Seq(Items) /\ Len(layout') = Len(layout)
        /\ ToSet(layout') = ToSet(layout) /\ NoRepeat(layout')
    <3> HIDE DEF a, b
    <3>1. layout' = [layout EXCEPT ![a] = layout[b], ![b] = layout[a]]
      BY <2>2
    <3> DEFINE r == [layout EXCEPT ![a] = layout[b], ![b] = layout[a]]
    <3>2. /\ r \in Seq(Items) /\ Len(r) = Len(layout)
          /\ ToSet(r) = ToSet(layout) /\ NoRepeat(r)
      BY <1>1, <2>1, ChangedPlaces
    <3>3. layout' = r
      BY <3>1
    <3> HIDE DEF r
    <3>4. QED
      BY <3>2, <3>3
  <2> HIDE DEF a, b, x, y
  <2>5. page[x] \in Pages /\ page[y] \in Pages
    BY <1>1, <2>3
  <2>6. ASSUME NEW j \in Items
        PROVE  /\ page'[j] \in Pages /\ page'[j].file = page[j].file
               /\ page'[j].transform = page[j].transform
    <3>1. page[j] \in Pages
      BY <1>1
    <3>2. page'[j] = [page[j] EXCEPT !.number = page'[j].number]
          /\ page'[j].number \in {page[x].number, page[y].number, page[j].number}
      BY <1>1, <2>2, <2>3, <2>5, <3>1 DEF Pages
    <3>3. QED
      BY <2>5, <3>1, <3>2 DEF Pages
  <2>7. page' \in [Items -> Pages]
    BY <1>1, <2>2, <2>6
  <2>8. PagesTypeOK' /\ EveryPageShownOnce'
    BY <1>1, <2>2, <2>4, <2>7 DEF PagesTypeOK, EveryPageShownOnce
  <2>9. PageInv'
    BY <2>2, <2>4, <2>8 DEF PageInv
  <2>10. QED
    BY <2>2, <2>4, <2>6, <2>9
<1>5. QED
  BY <1>2, <1>3, <1>4

LEMMA PressedTurns ==
  ASSUME NEW t \in Transforms, NEW button \in {"rotate_left", "rotate_right", "mirror"}
  PROVE  Pressed(t, button) \in Transforms
<1>1. PICK mirrored \in BOOLEAN, turns \in 0..3 : t = <<mirrored, turns>>
  BY DEF Transforms
<1>2. t[1] = mirrored /\ t[2] = turns
  BY <1>1
<1> DEFINE turn(k) == (turns + (IF mirrored THEN 4 - k ELSE k)) % 4
<1>3. turn(1) \in 0..3 /\ turn(3) \in 0..3
  OBVIOUS
<1>4. (~mirrored) \in BOOLEAN
  OBVIOUS
<1>5. Pressed(t, button) = CASE button = "rotate_left"  -> <<mirrored, turn(3)>>
                             [] button = "rotate_right" -> <<mirrored, turn(1)>>
                             [] button = "mirror"       -> <<~mirrored, turns>>
  BY <1>2, Zenon DEF Pressed
<1> HIDE DEF turn
<1>6. \A m \in BOOLEAN, k \in 0..3 : <<m, k>> \in Transforms
  BY DEF Transforms
<1>7. QED
  BY <1>3, <1>4, <1>5, <1>6

LEMMA PressStep ==
  ASSUME PageInv, NEW i \in Items, NEW button \in Buttons, press(i, button)
  PROVE  /\ PageInv' /\ UNCHANGED <<m_items, layout, created, crashed>>
         /\ \A j \in Items : /\ page'[j].file = page[j].file
                             /\ page'[j].number = page[j].number
<1>1. /\ m_items \in Seq(Items) /\ layout \in Seq(Items) /\ page \in [Items -> Pages]
      /\ NoRepeat(m_items) /\ NoRepeat(layout) /\ ToSet(m_items) = ToSet(layout)
      /\ created \in 0..MaxItems /\ crashed \in BOOLEAN
  BY DEF PageInv, PagesTypeOK, EveryPageShownOnce
<1>2. /\ page' = [page EXCEPT ![i].transform = Pressed(@, button)]
      /\ UNCHANGED <<m_items, layout, created, crashed>>
  BY DEF press
<1>3. page[i] \in Pages /\ page[i].transform \in Transforms
  BY <1>1 DEF Pages
<1>4. button \in {"rotate_left", "rotate_right", "mirror"}
  BY ViewAssumption
<1>5. Pressed(page[i].transform, button) \in Transforms
  BY <1>3, <1>4, PressedTurns
<1>6. ASSUME NEW j \in Items
      PROVE  /\ page'[j] \in Pages /\ page'[j].file = page[j].file
             /\ page'[j].number = page[j].number
  <2>1. page[j] \in Pages
    BY <1>1
  <2>2. page'[j] = IF j = i THEN [page[i] EXCEPT !.transform = Pressed(@, button)] ELSE page[j]
    BY <1>1, <1>2
  <2>3. QED
    BY <1>3, <1>5, <2>1, <2>2 DEF Pages
<1>7. page' \in [Items -> Pages]
  BY <1>1, <1>2, <1>6
<1>8. PagesTypeOK' /\ EveryPageShownOnce'
  BY <1>1, <1>2, <1>7 DEF PagesTypeOK, EveryPageShownOnce
<1>9. PageInv'
  BY <1>2, <1>8 DEF PageInv
<1>10. QED
  BY <1>2, <1>6, <1>9
-----------------------------------------------------------------------------
(* Types, and the two orders of the pages.                                 *)

\* Not inductive without the rest: a page gets the number after those there
\* are, which is a size_t only as there are no more pages than items made.
TypeInv ==
  /\ TypeOK
  /\ PageInv
  /\ scanning => files < MaxFiles

LEMMA PagesFrame == PageInv /\ UNCHANGED page_vars => PageInv'
<1> SUFFICES ASSUME PageInv, UNCHANGED page_vars PROVE PageInv'
  OBVIOUS
<1>1. PagesTypeOK'
  BY DEF PageInv, PagesTypeOK, page_vars
<1>2. EveryPageShownOnce'
  BY DEF PageInv, EveryPageShownOnce, page_vars
<1>3. QED
  BY <1>1, <1>2 DEF PageInv, page_vars

LEMMA PagesAreTyped == PageInv => serialize_items \in Seq(Pages) /\ Shown \in Seq(Pages)
BY Rows, RowSet DEF PageInv, PagesTypeOK

LEMMA Untouched ==
  ASSUME NEW file \in Files, NEW number \in 0..1
  PROVE  [file |-> file, number |-> number, transform |-> Identity] \in Pages
<1>1. Identity \in Transforms
  <2>1. \A m \in BOOLEAN, k \in 0..3 : <<m, k>> \in Transforms
    BY DEF Transforms
  <2>2. FALSE \in BOOLEAN /\ 0 \in 0..3
    OBVIOUS
  <2>3. QED
    BY <2>1, <2>2, Zenon DEF Identity
<1>2. number \in 0..SizeT - 1
  <2>1. SizeT \in Nat /\ SizeT > 2
    BY PageAssumption
  <2>2. QED
    BY <2>1
<1>3. QED
  BY <1>1, <1>2, PageAssumption DEF Pages, Files

LEMMA SessionTypes ==
  LET Sessions == [present : BOOLEAN, header : BOOLEAN, items : Seq(Pages)] IN
  /\ NoFile \in Sessions /\ Truncated \in Sessions
  /\ \A items \in Seq(Pages) : Holding(items) \in Sessions
  /\ NoPage \in Pages /\ NotWritten \in Seq(Pages)
<1>1. NoPage \in Pages
  <2>1. 0 \in Files /\ 0 \in 0..1
    BY PageAssumption DEF Files
  <2>2. QED
    BY <2>1, Untouched DEF NoPage
<1>2. <<>> \in Seq(Pages) /\ NotWritten \in Seq(Pages)
  BY <1>1 DEF NotWritten
<1>3. QED
  BY <1>1, <1>2 DEF NoFile, Truncated, Holding

LEMMA SaveTypes ==
  ASSUME TypeOK, save_session
  PROVE  /\ pc' \in {"loop", "header", "append", "restoring", "saved"}
         /\ session' \in [present : BOOLEAN, header : BOOLEAN, items : Seq(Pages)]
BY SessionTypes DEF TypeOK, save_session

LEMMA InitTypes == Init => TypeInv
<1> SUFFICES ASSUME Init PROVE TypeInv
  OBVIOUS
<1>1. PagesTypeOK
  <2>1. /\ m_items = <<>> /\ layout = <<>> /\ created = 0 /\ crashed = FALSE
        /\ page = [i \in Items |-> NoPage]
    BY DEF Init, PagesInit
  <2>2. page \in [Items -> Pages]
    BY <2>1, SessionTypes
  <2>3. m_items \in Seq(Items) /\ layout \in Seq(Items)
    BY <2>1
  <2>4. created \in 0..MaxItems
    BY <2>1, PageAssumption
  <2>5. QED
    BY <2>1, <2>2, <2>3, <2>4 DEF PagesTypeOK
<1>2. EveryPageShownOnce /\ Len(layout) = Len(m_items) /\ Len(m_items) <= created
  BY DEF Init, PagesInit, EveryPageShownOnce, NoRepeat
<1>3. \A i \in ToSet(m_items) : i <= created
  BY DEF Init, PagesInit, ToSet
<1>4. session \in [present : BOOLEAN, header : BOOLEAN, items : Seq(Pages)] /\ files \in 0..MaxFiles
  <2>1. CASE session = NoFile /\ files = 0
    BY <2>1, SessionTypes, PageAssumption
  <2>2. CASE Leftover /\ MaxFiles > 0 /\ session = LeftoverSession /\ files = 1
    <3>1. [file |-> 1, number |-> 1, transform |-> Identity] \in Pages
      <4>1. 1 \in Files /\ 1 \in 0..1
        BY <2>2, PageAssumption DEF Files
      <4>2. QED
        BY <4>1, Untouched
    <3>2. <<[file |-> 1, number |-> 1, transform |-> Identity]>> \in Seq(Pages)
      BY <3>1
    <3>3. session \in [present : BOOLEAN, header : BOOLEAN, items : Seq(Pages)]
      BY <2>2, <3>2, SessionTypes DEF LeftoverSession
    <3>4. QED
      BY <2>2, <3>3, PageAssumption
  <2>3. QED
    BY <2>1, <2>2 DEF Init
<1>5. MaxRuns \in Nat \ {0} /\ MaxShows \in Nat
  BY ViewAssumption
<1>6. TypeOK
  <2>1. /\ m_session_saving_disabled = TRUE /\ modified = FALSE /\ scanning = FALSE
        /\ pdf = <<>> /\ pending = <<>> /\ dialog = "none" /\ pc = "loop"
        /\ shows = 0 /\ runs = 1
    BY DEF Init
  <2>2. shows \in 0..MaxShows /\ runs \in 0..MaxRuns
    BY <2>1, <1>5
  <2>3. pdf \in Seq(Pages) /\ pending \in Seq(Pages)
    BY <2>1
  <2>4. QED
    BY <2>1, <2>2, <2>3, <1>1, <1>4 DEF TypeOK
<1>7. QED
  BY <1>1, <1>2, <1>3, <1>6 DEF Init, TypeInv, PageInv
LEMMA ScanTypes ==
  ASSUME TypeInv, ScanDone
  PROVE  TypeInv'
<1>1. PageInv /\ TypeOK /\ scanning /\ files < MaxFiles /\ files \in Nat /\ MaxFiles \in Nat
  BY PageAssumption DEF TypeInv, TypeOK, ScanDone
<1>2. CASE /\ add_image(files + 1)
           /\ files' = files + 1
           /\ modified' = TRUE
           /\ save_session
  <2> DEFINE p == [file |-> files + 1, number |-> Len(m_items) + 1, transform |-> Identity]
  <2>1. p \in Pages
    <3>1. files + 1 \in Files
      BY <1>1 DEF Files
    <3>2. Len(m_items) + 1 \in 0..SizeT - 1
      BY <1>1, PageAssumption DEF PageInv, PagesTypeOK
    <3>3. Identity \in Transforms
      BY SessionTypes DEF NoPage, Pages
    <3>4. QED
      BY <3>1, <3>2, <3>3 DEF Pages
  <2>2. PageInv'
    <3>1. AddItem(p)
      BY <1>2 DEF add_image
    <3> HIDE DEF p
    <3>2. QED
      BY <1>1, <2>1, <3>1, AddItemStep
  <2>3. PagesTypeOK'
    BY <2>2 DEF PageInv
  <2>4. files' \in 0..MaxFiles
    BY <1>1, <1>2
  <2>5. TypeOK'
    BY <1>1, <1>2, <2>3, <2>4, SaveTypes DEF ScanDone, TypeOK
  <2>6. QED
    BY <2>2, <2>5 DEF TypeInv, ScanDone
<1>3. CASE UNCHANGED <<page_vars, files, modified, pc, session>>
  <2>1. PageInv'
    BY <1>1, <1>3, PagesFrame
  <2>2. PagesTypeOK'
    BY <2>1 DEF PageInv
  <2>3. TypeOK'
    BY <1>1, <1>3, <2>2 DEF ScanDone, TypeOK
  <2>4. QED
    BY <2>1, <2>3 DEF TypeInv, ScanDone
<1>4. QED
  BY <1>2, <1>3 DEF ScanDone

LEMMA ToolbarTypes ==
  ASSUME TypeInv, sl_remove_image \/ sl_move_image \/ sl_transform
  PROVE  TypeInv'
<1>1. PageInv /\ TypeOK /\ layout \in Seq(Items)
  BY DEF TypeInv, PageInv, PagesTypeOK
<1>2. PageInv'
  <2>1. CASE sl_remove_image
    BY <1>1, <2>1, RemoveStep DEF sl_remove_image
  <2>2. CASE sl_move_image
    BY <1>1, <2>2, RowOf, MoveStep DEF sl_move_image
  <2>3. CASE sl_transform
    BY <1>1, <2>3, RowOf, PressStep DEF sl_transform
  <2>4. QED
    BY <2>1, <2>2, <2>3
<1>3. PagesTypeOK'
  BY <1>2 DEF PageInv
<1>4. /\ pc' \in {"loop", "header", "append", "restoring", "saved"}
      /\ session' \in [present : BOOLEAN, header : BOOLEAN, items : Seq(Pages)]
      /\ modified' \in BOOLEAN
  <2>1. CASE sl_remove_image
    BY <1>1, <2>1, SaveTypes DEF sl_remove_image, TypeOK
  <2>2. CASE sl_move_image
    BY <1>1, <2>2, SaveTypes DEF sl_move_image, TypeOK
  <2>3. CASE sl_transform
    BY <1>1, <2>3, SaveTypes DEF sl_transform, TypeOK
  <2>4. QED
    BY <2>1, <2>2, <2>3
<1>5. UNCHANGED <<m_session_saving_disabled, dialog, pending, scanning, shows, pdf, files, runs>>
  BY DEF sl_remove_image, sl_move_image, sl_transform
<1>6. TypeOK'
  BY <1>1, <1>3, <1>4, <1>5 DEF TypeOK
<1>7. QED
  BY <1>2, <1>5, <1>6 DEF TypeInv

LEMMA SavingTypes ==
  ASSUME TypeInv, WriteHeader \/ AppendItems \/ OpenSaveDialog \/ SavePdf \/ DocumentSaved
  PROVE  TypeInv'
<1>1. PageInv /\ TypeOK /\ serialize_items \in Seq(Pages)
  BY PagesAreTyped DEF TypeInv
<1>2. /\ UNCHANGED page_vars
      /\ UNCHANGED <<m_session_saving_disabled, pending, scanning, shows, files, runs>>
  BY DEF WriteHeader, AppendItems, OpenSaveDialog, SavePdf, DocumentSaved, disk_vars
<1>3. PageInv' /\ PagesTypeOK'
  BY <1>1, <1>2, PagesFrame DEF PageInv
<1>4. /\ session' \in [present : BOOLEAN, header : BOOLEAN, items : Seq(Pages)]
      /\ modified' \in BOOLEAN
      /\ pdf' \in Seq(Pages)
      /\ dialog' \in {"none", "restore", "save"}
      /\ pc' \in {"loop", "header", "append", "restoring", "saved"}
  <2>1. CASE WriteHeader
    <3>1. <<>> \in Seq(Pages)
      OBVIOUS
    <3>2. Holding(<<>>) \in [present : BOOLEAN, header : BOOLEAN, items : Seq(Pages)]
      BY <3>1, SessionTypes
    <3>3. QED
      BY <1>1, <2>1, <3>2 DEF WriteHeader, TypeOK
  <2>2. CASE AppendItems
    BY <1>1, <2>2, SessionTypes DEF AppendItems, TypeOK
  <2>3. CASE OpenSaveDialog
    BY <1>1, <2>3 DEF OpenSaveDialog, TypeOK, disk_vars
  <2>4. CASE SavePdf
    BY <1>1, <2>4, SessionTypes DEF SavePdf, TypeOK
  <2>5. CASE DocumentSaved
    BY <1>1, <2>5, SessionTypes DEF DocumentSaved, TypeOK
  <2>6. QED
    BY <2>1, <2>2, <2>3, <2>4, <2>5
<1>5. TypeOK'
  BY <1>1, <1>2, <1>3, <1>4 DEF TypeOK
<1>6. QED
  BY <1>2, <1>3, <1>5 DEF TypeInv

LEMMA RestoringTypes ==
  ASSUME TypeInv, StartScan \/ showEvent \/ AnswerRestore \/ RestoreItem \/ Restored
  PROVE  TypeInv'
<1>1. PageInv /\ TypeOK /\ session.items \in Seq(Pages)
  BY DEF TypeInv, TypeOK
<1>2. UNCHANGED <<files, runs, pdf>>
  BY DEF StartScan, showEvent, AnswerRestore, RestoreItem, Restored, disk_vars
<1>3. CASE StartScan
  <2>1. PageInv' /\ PagesTypeOK'
    BY <1>1, <1>3, PagesFrame DEF PageInv, StartScan
  <2>2. TypeOK'
    BY <1>1, <1>3, <2>1 DEF StartScan, TypeOK, disk_vars
  <2>3. QED
    BY <1>3, <2>1, <2>2 DEF TypeInv, StartScan, disk_vars
<1>4. CASE showEvent
  <2>1. PageInv' /\ PagesTypeOK'
    BY <1>1, <1>4, PagesFrame DEF PageInv, showEvent
  <2>2. shows' \in 0..MaxShows
    BY <1>1, <1>4, ViewAssumption DEF showEvent, TypeOK
  <2>3. dialog' \in {"none", "restore", "save"} /\ pending' \in Seq(Pages)
    BY <1>1, <1>4, SortedRearranges DEF showEvent, TypeOK
  <2>4. TypeOK'
    BY <1>1, <1>4, <2>1, <2>2, <2>3 DEF showEvent, TypeOK, disk_vars
  <2>5. QED
    BY <1>4, <2>1, <2>4 DEF TypeInv, showEvent, disk_vars
<1>5. CASE AnswerRestore
  <2>1. PageInv' /\ PagesTypeOK'
    BY <1>1, <1>5, PagesFrame DEF PageInv, AnswerRestore
  <2>2. pending' \in Seq(Pages)
    <3>1. <<>> \in Seq(Pages)
      OBVIOUS
    <3>2. QED
      BY <1>1, <1>5, <3>1 DEF AnswerRestore, TypeOK
  <2>3. TypeOK'
    BY <1>1, <1>5, <2>1, <2>2 DEF AnswerRestore, TypeOK, disk_vars
  <2>4. QED
    BY <1>5, <2>1, <2>3 DEF TypeInv, AnswerRestore, disk_vars
<1>6. CASE RestoreItem
  <2>1. pending \in Seq(Pages) /\ pending # <<>>
    BY <1>1, <1>6 DEF RestoreItem, TypeOK
  <2>2. Head(pending) \in Pages /\ Tail(pending) \in Seq(Pages)
    BY <2>1
  <2>3. PageInv' /\ PagesTypeOK'
    BY <1>1, <1>6, <2>2, AddItemStep DEF PageInv, RestoreItem
  <2>4. TypeOK'
    BY <1>1, <1>6, <2>2, <2>3, SaveTypes DEF RestoreItem, TypeOK
  <2>5. QED
    BY <1>6, <2>3, <2>4 DEF TypeInv, RestoreItem
<1>7. CASE Restored
  <2>1. PageInv' /\ PagesTypeOK'
    BY <1>1, <1>7, PagesFrame DEF PageInv, Restored
  <2>2. TypeOK'
    BY <1>1, <1>7, <2>1 DEF Restored, TypeOK, disk_vars
  <2>3. QED
    BY <1>7, <2>1, <2>2 DEF TypeInv, Restored, disk_vars
<1>8. QED
  BY <1>3, <1>4, <1>5, <1>6, <1>7
LEMMA StartTypes ==
  ASSUME TypeInv, NextRun
  PROVE  TypeInv'
<1>1. TypeOK /\ MaxRuns \in Nat /\ MaxShows \in Nat
  BY ViewAssumption DEF TypeInv
<1>2. /\ m_items' = <<>> /\ layout' = <<>> /\ created' = 0 /\ crashed' = FALSE
      /\ page' = [i \in Items |-> NoPage]
  BY DEF NextRun, PagesReset
<1>3. page' \in [Items -> Pages]
  BY <1>2, SessionTypes
<1>4. m_items' \in Seq(Items) /\ layout' \in Seq(Items) /\ created' \in 0..MaxItems
  BY <1>2, PageAssumption
<1>5. PagesTypeOK'
  BY <1>2, <1>3, <1>4 DEF PagesTypeOK
<1>6. EveryPageShownOnce'
  BY <1>2 DEF EveryPageShownOnce, NoRepeat
<1>7. \A i \in ToSet(m_items') : i <= created'
  BY <1>2 DEF ToSet
<1>8. PageInv'
  BY <1>2, <1>5, <1>6, <1>7 DEF PageInv
<1>9. runs' \in 0..MaxRuns /\ shows' \in 0..MaxShows
  BY <1>1 DEF NextRun, TypeOK
<1>10. <<>> \in Seq(Pages)
  OBVIOUS
<1>11. /\ m_session_saving_disabled' = TRUE /\ modified' = FALSE /\ scanning' = FALSE
       /\ dialog' = "none" /\ pending' = <<>> /\ pc' = "loop" /\ pdf' = <<>>
       /\ UNCHANGED <<session, files>>
  BY DEF NextRun
<1>12. TypeOK'
  BY <1>1, <1>5, <1>9, <1>10, <1>11 DEF TypeOK
<1>13. QED
  BY <1>8, <1>11, <1>12 DEF TypeInv

LEMMA StutterTypes ==
  ASSUME TypeInv, UNCHANGED vars
  PROVE  TypeInv'
<1>1. PageInv' /\ PagesTypeOK'
  BY PagesFrame DEF TypeInv, PageInv, vars
<1>2. UNCHANGED <<m_session_saving_disabled, modified, dialog, pending, pc, scanning, shows,
                  session, pdf, files, runs>>
  BY DEF vars, view_vars, disk_vars
<1>3. TypeOK'
  BY <1>1, <1>2 DEF TypeInv, TypeOK
<1>4. QED
  BY <1>1, <1>2, <1>3 DEF TypeInv

LEMMA TypeAlways == Spec => []TypeInv
<1>1. TypeInv /\ [Next]_vars => TypeInv'
  BY ScanTypes, ToolbarTypes, SavingTypes, RestoringTypes, StartTypes, StutterTypes
     DEF Next, QuitUnasked, QuitAsked, Kill
<1>2. QED
  BY InitTypes, <1>1, PTL DEF Spec

(* Every variable keeps its type: page numbers stay within size_t, whatever *)
(* is added, moved, removed or restored (CImageItemContainer, CImageView).  *)
THEOREM TypeCorrect == Spec => []TypeOK
<1>1. TypeInv => TypeOK
  BY DEF TypeInv
<1>2. QED
  BY <1>1, TypeAlways, PTL

(* The manager's vector and the layout hold the same items, each once, after *)
(* any moves, removals and restorations (add_image, remove_image,            *)
(* move_image).                                                              *)
THEOREM PagesAreShownOnce == Spec => []EveryPageShownOnce
<1>1. TypeInv => EveryPageShownOnce
  BY DEF TypeInv, PageInv
<1>2. QED
  BY <1>1, TypeAlways, PTL
-----------------------------------------------------------------------------
(* Numbers and arrows.                                                     *)

LEMMA ArrowStep ==
  ASSUME PageInv, Numbered, NEW k \in 1..Len(layout), NEW direction \in {"LEFT", "RIGHT"},
         move_image(layout[k], direction)
  PROVE  LET m == IF direction = "LEFT" THEN k - 1 ELSE k + 1 IN
         IF m \in 1..Len(layout)
         THEN /\ layout'[m] = layout[k] /\ layout'[k] = layout[m]
              /\ Numbered'
              /\ [i \in Items |-> page'[i].transform] = [i \in Items |-> page[i].transform]
         ELSE UNCHANGED page_vars
<1> DEFINE m == IF direction = "LEFT" THEN k - 1 ELSE k + 1
           x == layout[k]
           y == layout[m]
<1>1. /\ layout \in Seq(Items) /\ page \in [Items -> Pages] /\ NoRepeat(layout)
      /\ x \in Items /\ page[x].number = k /\ Len(layout) \in Nat /\ k \in Nat
      /\ Len(layout) < SizeT - 1 /\ SizeT \in Nat
  <2>1. Len(layout) <= created /\ created \in 0..MaxItems
    BY DEF PageInv, PagesTypeOK
  <2>2. QED
    BY <2>1, PageAssumption DEF PageInv, PagesTypeOK, EveryPageShownOnce, Numbered
<1>2. Neighbour(x, direction) = IF m \in 1..Len(layout) THEN m ELSE 0
  <2>1. (k + 1) % SizeT = k + 1
    <3>1. k \in 0..SizeT - 1 /\ k < SizeT - 1
      BY <1>1
    <3>2. QED
      BY <3>1, Numbers
  <2> HIDE DEF x
  <2>2. CASE direction = "LEFT"
    BY <1>1, <2>2 DEF Neighbour
  <2>3. CASE direction = "RIGHT"
    BY <1>1, <2>1, <2>3 DEF Neighbour
  <2>4. QED
    BY <2>2, <2>3
<1>3. CASE m \notin 1..Len(layout)
  <2>1. Neighbour(x, direction) = 0
    BY <1>2, <1>3
  <2>2. UNCHANGED page_vars
    BY <2>1 DEF move_image
  <2>3. QED
    BY <1>3, <2>2
<1>4. CASE m \in 1..Len(layout)
  <2>1. Neighbour(x, direction) = m /\ m # 0
    BY <1>2, <1>4
  <2> DEFINE w == m
  <2>2. w \in 1..Len(layout) /\ w # k
    BY <1>4
  <2>3. /\ page' = [page EXCEPT ![x].number = page[y].number,
                                ![y].number = page[x].number]
        /\ layout' = [layout EXCEPT ![k] = y, ![m] = x]
    <3> HIDE DEF m
    <3>1. ~(k > Len(layout))
      OBVIOUS
    <3>2. QED
      BY <1>1, <2>1, <3>1 DEF move_image
  <2> HIDE DEF m
  <2>4. y \in Items /\ page[y].number = m /\ x # y
    BY <1>1, <2>2 DEF Numbered, NoRepeat
  <2>5. /\ Len(layout') = Len(layout) /\ layout'[m] = x /\ layout'[k] = y
        /\ \A n \in 1..Len(layout) : n # k /\ n # m => layout'[n] = layout[n]
    BY <1>1, <2>2, <2>3
  <2> HIDE DEF x, y
  <2>6. /\ page'[x].number = m /\ page'[y].number = k
        /\ \A i \in Items : i # x /\ i # y => page'[i] = page[i]
        /\ \A i \in Items : page'[i].transform = page[i].transform
    <3>1. page[x] \in Pages /\ page[y] \in Pages
      BY <1>1, <2>4
    <3>2. /\ page'[x] = [page[x] EXCEPT !.number = m]
          /\ page'[y] = [page[y] EXCEPT !.number = k]
          /\ \A i \in Items : i # x /\ i # y => page'[i] = page[i]
      BY <1>1, <2>3, <2>4, <3>1 DEF Pages
    <3>3. QED
      BY <3>1, <3>2 DEF Pages
  <2>7. ASSUME NEW n \in 1..Len(layout) PROVE page'[layout'[n]].number = n
    <3>1. CASE n = k
      BY <3>1, <2>5, <2>6
    <3>2. CASE n = m
      BY <3>2, <2>5, <2>6
    <3>3. CASE n # k /\ n # m
      <4>1. layout[n] \in Items /\ layout[n] # x /\ layout[n] # y
        BY <1>1, <2>2, <3>3 DEF NoRepeat, x, y
      <4>2. page[layout[n]].number = n
        BY DEF Numbered
      <4>3. QED
        BY <4>1, <4>2, <3>3, <2>5, <2>6
    <3>4. QED
      BY <3>1, <3>2, <3>3
  <2>8. Numbered'
    BY <2>5, <2>7 DEF Numbered
  <2>9. layout'[m] = layout[k] /\ layout'[k] = layout[m]
    BY <2>5 DEF x, y
  <2>10. [i \in Items |-> page'[i].transform] = [i \in Items |-> page[i].transform]
    BY <2>6
  <2>11. m \in 1..Len(layout)
    BY <1>4
  <2>12. QED
    BY <2>8, <2>9, <2>10, <2>11 DEF m
<1>5. QED
  BY <1>3, <1>4

(* In a well numbered document an arrow moves the page it belongs to, one    *)
(* place in its direction, or nothing at the end of the row, however many    *)
(* pages there are (move_image).                                             *)
THEOREM ArrowsMoveTheirPage == Spec => ArrowMovesItsPage
<1>1. PageInv => [\A n \in 1..Len(layout), direction \in {"LEFT", "RIGHT"} :
                    Numbered /\ move_image(layout[n], direction) =>
                      LET m == IF direction = "LEFT" THEN n - 1 ELSE n + 1 IN
                      IF m \in 1..Len(layout)
                      THEN /\ layout'[m] = layout[n] /\ layout'[n] = layout[m]
                           /\ Numbered'
                           /\ [i \in Items |-> page'[i].transform]
                              = [i \in Items |-> page[i].transform]
                      ELSE UNCHANGED page_vars]_vars
  BY ArrowStep
<1>2. TypeInv => PageInv
  BY DEF TypeInv
<1>3. QED
  BY <1>1, <1>2, TypeAlways, PTL DEF ArrowMovesItsPage
LEMMA AddedNumber ==
  ASSUME PageInv, Numbered, NEW p \in Pages, p.number = Len(layout) + 1, AddItem(p)
  PROVE  Numbered'
<1>1. /\ layout \in Seq(Items) /\ page \in [Items -> Pages]
      /\ created + 1 \in Items /\ created + 1 \notin ToSet(layout)
      /\ \A i \in ToSet(layout) : i <= created
  BY PageAssumption DEF PageInv, PagesTypeOK, EveryPageShownOnce, AddItem, Items
<1>2. /\ page' = [page EXCEPT ![created + 1] = p]
      /\ layout' = Append(layout, created + 1)
  BY DEF AddItem
<1>3. /\ Len(layout') = Len(layout) + 1 /\ layout'[Len(layout) + 1] = created + 1
      /\ \A n \in 1..Len(layout) : layout'[n] = layout[n]
  BY <1>1, <1>2
<1>4. ASSUME NEW n \in 1..Len(layout) + 1 PROVE page'[layout'[n]].number = n
  <2>1. CASE n = Len(layout) + 1
    BY <2>1, <1>1, <1>2, <1>3
  <2>2. CASE n \in 1..Len(layout)
    <3>1. layout[n] \in Items /\ layout[n] # created + 1
      BY <2>2, <1>1 DEF ToSet
    <3>2. page[layout[n]].number = n
      BY <2>2 DEF Numbered
    <3>3. QED
      BY <2>2, <3>1, <3>2, <1>1, <1>2, <1>3
  <2>3. QED
    BY <2>1, <2>2
<1>5. QED
  BY <1>3, <1>4 DEF Numbered

LEMMA NumberStep ==
  ASSUME TypeInv, Numbered, Next
  PROVE  \/ Numbered'
         \/ Len(layout') < Len(layout) /\ layout # m_items
         \/ pc = "restoring" /\ Head(pending).number # Len(layout) + 1
<1>1. PageInv /\ TypeOK /\ layout \in Seq(Items) /\ Len(layout) \in Nat
  BY DEF TypeInv, PageInv, PagesTypeOK
<1>2. CASE UNCHANGED page_vars
  BY <1>2 DEF Numbered, page_vars
<1>3. CASE \E file \in 1..MaxFiles : add_image(file)
  <2>1. PICK file \in 1..MaxFiles : add_image(file)
    BY <1>3
  <2> DEFINE p == [file |-> file, number |-> Len(m_items) + 1, transform |-> Identity]
  <2>2. AddItem(p)
    BY <2>1 DEF add_image
  <2>3. p.number = Len(layout) + 1
    BY DEF TypeInv, PageInv
  <2>4. p \in Pages
    <3>1. Len(m_items) + 1 \in 0..SizeT - 1
      BY PageAssumption DEF TypeInv, PageInv, PagesTypeOK
    <3>2. file \in Files
      BY PageAssumption DEF Files
    <3>3. Identity \in Transforms
      BY SessionTypes DEF NoPage, Pages
    <3>4. QED
      BY <3>1, <3>2, <3>3 DEF Pages
  <2> HIDE DEF p
  <2>5. QED
    BY <1>1, <2>2, <2>3, <2>4, AddedNumber
<1>4. CASE RestoreItem
  <2>1. pending \in Seq(Pages) /\ pending # <<>>
    BY <1>1, <1>4 DEF RestoreItem, TypeOK
  <2>2. Head(pending) \in Pages
    BY <2>1
  <2>3. CASE Head(pending).number = Len(layout) + 1
    BY <1>1, <1>4, <2>2, <2>3, AddedNumber DEF RestoreItem
  <2>4. QED
    BY <1>4, <2>3 DEF RestoreItem
<1>5. CASE sl_remove_image
  <2>1. PICK i \in ToSet(layout) : remove_image(i)
    BY <1>5 DEF sl_remove_image
  <2>2. CASE UNCHANGED <<m_items, layout, page, created>>
    BY <2>2 DEF Numbered
  <2>3. CASE /\ Len(layout') = Len(layout) - 1
             /\ layout = m_items /\ Numbered => Numbered'
    BY <1>1, <2>3
  <2>4. QED
    BY <1>1, <2>1, <2>2, <2>3, RemoveStep
<1>6. CASE sl_move_image
  <2>1. PICK i \in ToSet(layout), direction \in {"LEFT", "RIGHT"} : move_image(i, direction)
    BY <1>6 DEF sl_move_image
  <2>2. PICK k \in 1..Len(layout) : layout[k] = i
    BY <1>1, RowOf
  <2>3. move_image(layout[k], direction)
    BY <2>1, <2>2
  <2>4. Numbered' \/ UNCHANGED page_vars
    BY <1>1, <2>3, ArrowStep
  <2>5. QED
    BY <1>2, <2>4
<1>7. CASE sl_transform
  <2>1. PICK i \in ToSet(layout), button \in Buttons : press(i, button)
    BY <1>7 DEF sl_transform
  <2>2. /\ layout' = layout
        /\ \A j \in Items : page'[j].number = page[j].number
    BY <1>1, <2>1, RowOf, PressStep
  <2>3. \A n \in 1..Len(layout) : layout[n] \in Items
    BY <1>1
  <2>4. QED
    BY <2>2, <2>3 DEF Numbered
<1>8. CASE NextRun
  <2>1. layout' = <<>>
    BY <1>8 DEF NextRun, PagesReset
  <2>2. QED
    BY <2>1 DEF Numbered
<1>9. CASE ScanDone
  <2>1. files + 1 \in 1..MaxFiles
    BY <1>9, PageAssumption DEF ScanDone, TypeInv, TypeOK
  <2>2. QED
    BY <1>2, <1>3, <1>9, <2>1 DEF ScanDone
<1>10. CASE \/ WriteHeader \/ AppendItems \/ StartScan \/ OpenSaveDialog \/ SavePdf
            \/ DocumentSaved \/ showEvent \/ AnswerRestore \/ Restored
  <2>1. UNCHANGED page_vars
    BY <1>10 DEF WriteHeader, AppendItems, StartScan, OpenSaveDialog, SavePdf,
                 DocumentSaved, showEvent, AnswerRestore, Restored
  <2>2. QED
    BY <1>2, <2>1
<1>11. QED
  BY <1>4, <1>5, <1>6, <1>7, <1>8, <1>9, <1>10 DEF Next, QuitUnasked, QuitAsked, Kill

(* The number of a page is its place, and stays so but for two steps: a      *)
(* removal when the order shown is no longer that of m_items, and the        *)
(* restoration of a page beside pages already there (set_page_number).       *)
THEOREM NumbersArePlaces == Spec => NumberingSpoiledOnly
<1>1. TypeInv /\ [Next]_vars =>
        [Numbered =>
           \/ Numbered'
           \/ Len(layout') < Len(layout) /\ layout # m_items
           \/ pc = "restoring" /\ Head(pending).number # Len(layout) + 1]_vars
  BY NumberStep
<1>2. QED
  BY <1>1, TypeAlways, PTL DEF Spec, NumberingSpoiledOnly
-----------------------------------------------------------------------------
(* The session file, the pdf and the question before quitting.             *)

\* While saving is disabled no session is written.  The first show of the
\* window finds no pages: it asks to restore the session there is, so that one
\* that is not yet restored has all pages, shown or still to be added.
FirstShow ==
  m_session_saving_disabled =>
    /\ pc \in {"loop", "restoring", "saved"}
    /\ shows = 0 => m_items = <<>> /\ ~scanning /\ dialog = "none" /\ pc = "loop"
    /\ dialog = "restore" => /\ pc = "loop" /\ m_items = <<>> /\ ~scanning
                             /\ session.header /\ Rearranged(pending, session.items)
    /\ pc = "restoring" =>
         /\ dialog = "none" /\ ~scanning /\ session.header
         /\ \/ m_items = <<>> /\ pending = <<>>
            \/ Rearranged(serialize_items \o pending, session.items)
    /\ shows > 0 /\ dialog # "restore" /\ pc # "restoring" => ~session.header

\* Where no save is under way, the session file has the document, or there is
\* none since the document was, or was to be, made a pdf.
Stored ==
  /\ session.header => session.present
  /\ pc = "saved" => pdf \in {serialize_items, NotWritten}
  /\ ~m_session_saving_disabled /\ pc \in {"loop", "restoring", "saved"} /\ m_items # <<>> =>
       IF session.present
       THEN session.header /\ Rearranged(session.items, serialize_items)
       ELSE pdf \in {serialize_items, NotWritten}

Asked == ~modified => FilesOf(Shown) \subseteq FilesOf(pdf) \/ pdf = NotWritten

DocumentInv == TypeInv /\ FirstShow /\ Stored /\ Asked

LEMMA RowsFrame ==
  UNCHANGED <<m_items, layout, page>> => serialize_items' = serialize_items /\ Shown' = Shown
BY DEF serialize_items, Shown

LEMMA SameFiles ==
  ASSUME PageInv
  PROVE  /\ FilesOf(Shown) = {page[i].file : i \in ToSet(layout)}
         /\ FilesOf(serialize_items) = FilesOf(Shown)
         /\ ToSet(serialize_items) = ToSet(Shown)
         /\ m_items = <<>> => layout = <<>> /\ FilesOf(Shown) = {}
<1>1. /\ m_items \in Seq(Items) /\ layout \in Seq(Items) /\ page \in [Items -> Pages]
      /\ ToSet(m_items) = ToSet(layout) /\ Len(layout) = Len(m_items)
  BY DEF PageInv, PagesTypeOK, EveryPageShownOnce
<1>2. FilesOf(Shown) = {page[i].file : i \in ToSet(layout)}
  BY <1>1, Rows, RowFiles
<1>3. FilesOf(serialize_items) = {page[i].file : i \in ToSet(m_items)}
  BY <1>1, Rows, RowFiles
<1>4. ToSet(serialize_items) = ToSet(Shown)
  BY <1>1, Rows, RowSet
<1>5. ASSUME m_items = <<>> PROVE layout = <<>> /\ FilesOf(Shown) = {}
  <2>1. layout = <<>>
    BY <1>1, <1>5
  <2>2. ToSet(layout) = {}
    BY <2>1 DEF ToSet
  <2>3. QED
    BY <1>2, <2>1, <2>2
<1>6. QED
  BY <1>1, <1>2, <1>3, <1>4, <1>5

LEMMA NoItems == m_items = <<>> => serialize_items = <<>>
BY DEF serialize_items

LEMMA FirstShowStep ==
  ASSUME DocumentInv, Next
  PROVE  FirstShow'
<1>1. TypeInv /\ PageInv /\ TypeOK /\ FirstShow /\ Stored
  BY DEF DocumentInv, TypeInv
<1>2. shows \in Nat
  BY <1>1, ViewAssumption DEF TypeOK
<1> SUFFICES ASSUME m_session_saving_disabled' PROVE FirstShow'
  BY DEF FirstShow
<1>3. CASE NextRun
  <2>1. /\ m_items' = <<>> /\ scanning' = FALSE /\ dialog' = "none" /\ pc' = "loop" /\ shows' = 0
    BY <1>3 DEF NextRun, PagesReset
  <2>2. QED
    BY <2>1 DEF FirstShow
<1>4. CASE ~NextRun
  <2>1. m_session_saving_disabled
    BY <1>4 DEF Next, WriteHeader, AppendItems, StartScan, ScanDone, sl_remove_image,
       sl_move_image, sl_transform, OpenSaveDialog, SavePdf, DocumentSaved, showEvent,
       AnswerRestore, RestoreItem, Restored, QuitUnasked, QuitAsked, Kill
  <2>2. /\ pc \in {"loop", "restoring", "saved"}
        /\ shows = 0 => m_items = <<>> /\ ~scanning /\ dialog = "none" /\ pc = "loop"
        /\ dialog = "restore" => /\ pc = "loop" /\ m_items = <<>> /\ ~scanning
                                 /\ session.header /\ Rearranged(pending, session.items)
        /\ pc = "restoring" =>
             /\ dialog = "none" /\ ~scanning /\ session.header
             /\ \/ m_items = <<>> /\ pending = <<>>
                \/ Rearranged(serialize_items \o pending, session.items)
        /\ shows > 0 /\ dialog # "restore" /\ pc # "restoring" => ~session.header
    BY <1>1, <2>1 DEF FirstShow
  <2>3. CASE WriteHeader \/ AppendItems
    BY <2>2, <2>3 DEF WriteHeader, AppendItems
  <2>4. CASE StartScan
    <3>1. /\ pc' = "loop" /\ dialog' = "none" /\ shows' = shows /\ shows > 0 /\ session' = session
      BY <2>4 DEF StartScan, UserEvent, disk_vars
    <3>2. QED
      BY <2>2, <3>1, <1>2, <2>4 DEF FirstShow, StartScan, UserEvent
  <2>5. CASE ScanDone
    <3>1. /\ pc' = "loop" /\ pc = "loop" /\ dialog' = dialog /\ shows' = shows
          /\ session' = session /\ scanning
      BY <2>1, <2>5 DEF ScanDone, save_session
    <3>2. shows > 0 /\ dialog # "restore"
      BY <1>2, <2>2, <3>1
    <3>3. QED
      BY <2>2, <3>1, <3>2, <1>2 DEF FirstShow
  <2>6. CASE sl_remove_image \/ sl_move_image \/ sl_transform
    <3>1. /\ pc' = "loop" /\ pc = "loop" /\ dialog' = "none" /\ dialog = "none"
          /\ shows' = shows /\ shows > 0 /\ session' = session
      BY <2>1, <2>6 DEF sl_remove_image, sl_move_image, sl_transform, UserEvent, save_session
    <3>2. QED
      BY <2>2, <3>1, <1>2 DEF FirstShow
  <2>7. CASE OpenSaveDialog
    <3>1. /\ pc' = "loop" /\ pc = "loop" /\ dialog' = "save" /\ dialog = "none"
          /\ shows' = shows /\ shows > 0 /\ session' = session
      BY <2>7 DEF OpenSaveDialog, UserEvent, disk_vars
    <3>2. QED
      BY <2>2, <3>1, <1>2 DEF FirstShow
  <2>8. CASE SavePdf
    <3>1. /\ pc' \in {"loop", "saved"} /\ pc = "loop" /\ dialog' = "none" /\ dialog = "save"
          /\ shows' = shows /\ session' = session
      BY <2>8 DEF SavePdf
    <3>2. QED
      BY <2>2, <3>1, <1>2 DEF FirstShow
  <2>9. CASE DocumentSaved
    <3>1. /\ pc' = "loop" /\ pc = "saved" /\ dialog' = dialog /\ shows' = shows
          /\ session' = NoFile
      BY <2>9 DEF DocumentSaved
    <3>2. ~session'.header
      BY <3>1 DEF NoFile
    <3>3. QED
      BY <2>2, <3>1, <3>2, <1>2 DEF FirstShow
  <2>10. CASE showEvent
    <3>1. /\ pc' = "loop" /\ pc = "loop" /\ dialog = "none" /\ shows' = shows + 1
          /\ session' = session /\ m_items' = m_items /\ scanning' = scanning
      BY <2>10 DEF showEvent, disk_vars, page_vars
    <3>2. CASE session.header
      <4>1. shows = 0 /\ m_items = <<>> /\ ~scanning
        BY <1>2, <2>2, <3>1, <3>2
      <4>2. dialog' = "restore" /\ pending' \in SortedByNumber(session.items)
        BY <2>10, <3>2 DEF showEvent
      <4>3. Rearranged(pending', session.items)
        BY <1>1, <4>2, SortedRearranges DEF TypeOK
      <4>4. QED
        BY <3>1, <3>2, <4>1, <4>2, <4>3, <1>2 DEF FirstShow
    <3>3. CASE ~session.header
      <4>1. dialog' = "none"
        BY <2>10, <3>1, <3>3 DEF showEvent
      <4>2. QED
        BY <3>1, <3>3, <4>1, <1>2 DEF FirstShow
    <3>4. QED
      BY <3>2, <3>3
  <2>11. CASE AnswerRestore
    <3>1. /\ pc' = "restoring" /\ dialog = "restore" /\ dialog' = "none" /\ shows' = shows
          /\ session' = session /\ m_items' = m_items /\ scanning' = scanning
          /\ serialize_items' = serialize_items
          /\ pending' = pending \/ pending' = <<>>
      BY <2>11, RowsFrame DEF AnswerRestore, disk_vars, page_vars
    <3>2. m_items = <<>> /\ serialize_items = <<>> /\ pending \in Seq(Pages)
      BY <1>1, <2>2, <3>1, NoItems DEF TypeOK
    <3>3. serialize_items \o pending = pending
      BY <3>2
    <3>4. QED
      BY <2>2, <3>1, <3>2, <3>3, <1>2 DEF FirstShow
  <2>12. CASE RestoreItem
    <3>1. /\ pc' = "restoring" /\ pc = "restoring" /\ dialog' = dialog /\ shows' = shows
          /\ session' = session /\ scanning' = scanning
          /\ pending # <<>> /\ pending' = Tail(pending) /\ AddItem(Head(pending))
      BY <2>1, <2>12 DEF RestoreItem, save_session
    <3>2. pending \in Seq(Pages)
      BY <1>1 DEF TypeOK
    <3>3. Head(pending) \in Pages /\ Tail(pending) \in Seq(Pages)
          /\ pending = <<Head(pending)>> \o Tail(pending)
      BY <3>1, <3>2
    <3>4. serialize_items' = Append(serialize_items, Head(pending))
      BY <1>1, <3>1, <3>3, AddItemStep
    <3>5. serialize_items \in Seq(Pages)
      BY <1>1, PagesAreTyped
    <3>6. serialize_items' \o pending' = serialize_items \o pending
      BY <3>1, <3>3, <3>4, <3>5
    <3>7. QED
      BY <2>2, <3>1, <3>6, <1>2 DEF FirstShow
  <2>13. CASE Restored
    BY <2>13 DEF Restored
  <2>14. QED
    BY <1>4, <2>3, <2>4, <2>5, <2>6, <2>7, <2>8, <2>9, <2>10, <2>11, <2>12, <2>13
       DEF Next, QuitUnasked, QuitAsked, Kill
<1>5. QED
  BY <1>3, <1>4
LEMMA StoredStep ==
  ASSUME DocumentInv, Next
  PROVE  Stored'
<1>1. TypeInv /\ PageInv /\ TypeOK /\ FirstShow
  BY DEF DocumentInv, TypeInv
<1>2. /\ session.header => session.present
      /\ pc = "saved" => pdf \in {serialize_items, NotWritten}
      /\ ~m_session_saving_disabled /\ pc \in {"loop", "restoring", "saved"} /\ m_items # <<>> =>
           IF session.present
           THEN session.header /\ Rearranged(session.items, serialize_items)
           ELSE pdf \in {serialize_items, NotWritten}
  BY DEF DocumentInv, Stored
<1>3. CASE NextRun
  <2>1. m_items' = <<>> /\ pc' = "loop" /\ session' = session
    BY <1>3 DEF NextRun, PagesReset
  <2>2. QED
    BY <1>2, <2>1 DEF Stored
<1>4. ASSUME save_session, pc # "saved", UNCHANGED m_session_saving_disabled
      PROVE  Stored'
  <2>1. CASE m_session_saving_disabled
    BY <1>2, <1>4, <2>1 DEF save_session, Stored
  <2>2. CASE ~m_session_saving_disabled
    <3>1. pc' = "header" /\ session' = Truncated
      BY <1>4, <2>2 DEF save_session
    <3>2. ~session'.header
      BY <3>1 DEF Truncated
    <3>3. QED
      BY <3>1, <3>2 DEF Stored
  <2>3. QED
    BY <2>1, <2>2
<1>5. ASSUME UNCHANGED <<m_items, layout, page, session, pdf, m_session_saving_disabled>>,
             pc' = pc \/ (pc \in {"loop", "restoring"} /\ pc' \in {"loop", "restoring"})
      PROVE  Stored'
  <2>1. serialize_items' = serialize_items
    BY <1>5, RowsFrame
  <2>2. QED
    BY <1>2, <1>5, <2>1 DEF Stored
<1>6. CASE WriteHeader
  <2>1. pc' = "append" /\ session' = Holding(<<>>)
    BY <1>6 DEF WriteHeader
  <2>2. QED
    BY <2>1 DEF Holding, Stored
<1>7. CASE AppendItems
  <2>1. pc' \in {"loop", "restoring"} /\ session' = Holding(serialize_items)
        /\ serialize_items' = serialize_items
    BY <1>7, RowsFrame DEF AppendItems, page_vars
  <2>2. session'.present /\ session'.header /\ session'.items = serialize_items'
    BY <2>1 DEF Holding
  <2>3. Rearranged(session'.items, serialize_items')
    BY <2>2, RearrangedSelf
  <2>4. QED
    BY <2>1, <2>2, <2>3 DEF Stored
<1>8. CASE StartScan \/ OpenSaveDialog \/ showEvent \/ AnswerRestore
  BY <1>5, <1>8 DEF StartScan, OpenSaveDialog, showEvent, AnswerRestore, disk_vars, page_vars
<1>9. CASE ScanDone
  <2>1. CASE save_session
    BY <1>4, <1>9, <2>1 DEF ScanDone
  <2>2. CASE UNCHANGED <<page_vars, files, modified, pc, session>>
    BY <1>5, <1>9, <2>2 DEF ScanDone, page_vars
  <2>3. QED
    BY <1>9, <2>1, <2>2 DEF ScanDone
<1>10. CASE sl_remove_image
  <2>1. CASE crashed'
    <3>1. PICK i \in ToSet(layout) : remove_image(i)
      BY <1>10 DEF sl_remove_image
    <3>2. UNCHANGED <<m_items, layout, page>>
      BY <1>1, <1>10, <2>1, <3>1, RemoveStep DEF sl_remove_image, UserEvent, Running
    <3>3. QED
      BY <1>5, <1>10, <2>1, <3>2 DEF sl_remove_image
  <2>2. CASE ~crashed'
    BY <1>4, <1>10, <2>2 DEF sl_remove_image, UserEvent
  <2>3. QED
    BY <2>1, <2>2
<1>11. CASE sl_move_image
  <2>1. CASE crashed'
    <3>1. PICK i \in ToSet(layout), direction \in {"LEFT", "RIGHT"} : move_image(i, direction)
      BY <1>11 DEF sl_move_image
    <3>2. i \in Items
      BY <1>1, RowOf DEF PageInv, PagesTypeOK
    <3>3. UNCHANGED <<m_items, layout, page>>
      BY <1>1, <1>11, <2>1, <3>1, <3>2, MoveStep DEF sl_move_image, UserEvent, Running
    <3>4. QED
      BY <1>5, <1>11, <2>1, <3>3 DEF sl_move_image
  <2>2. CASE ~crashed'
    BY <1>4, <1>11, <2>2 DEF sl_move_image, UserEvent
  <2>3. QED
    BY <2>1, <2>2
<1>12. CASE sl_transform
  BY <1>4, <1>12 DEF sl_transform, UserEvent
<1>13. CASE SavePdf
  <2>1. /\ UNCHANGED <<m_items, layout, page, session, m_session_saving_disabled>>
        /\ serialize_items' = serialize_items /\ pc = "loop"
        /\ \/ UNCHANGED <<pc, pdf>>
           \/ pc' = "saved" /\ pdf' \in {serialize_items, NotWritten}
    BY <1>13, RowsFrame DEF SavePdf, page_vars
  <2>2. QED
    BY <1>2, <2>1 DEF Stored
<1>14. CASE DocumentSaved
  <2>1. /\ UNCHANGED <<m_items, layout, page, pdf>> /\ pc = "saved" /\ pc' = "loop"
        /\ serialize_items' = serialize_items /\ session' = NoFile
    BY <1>14, RowsFrame DEF DocumentSaved, page_vars
  <2>2. ~session'.present /\ ~session'.header
    BY <2>1 DEF NoFile
  <2>3. QED
    BY <1>2, <2>1, <2>2 DEF Stored
<1>15. CASE RestoreItem
  BY <1>4, <1>15 DEF RestoreItem
<1>16. CASE Restored
  <2>1. /\ UNCHANGED <<m_items, layout, page, session, pdf>> /\ pc = "restoring" /\ pc' = "loop"
        /\ serialize_items' = serialize_items /\ pending = <<>>
    BY <1>16, RowsFrame DEF Restored, page_vars, disk_vars
  <2>2. CASE ~m_session_saving_disabled
    BY <1>2, <2>1, <2>2 DEF Stored
  <2>3. CASE m_session_saving_disabled
    <3>1. /\ session.header
          /\ m_items = <<>> \/ Rearranged(serialize_items \o <<>>, session.items)
      BY <1>1, <2>1, <2>3 DEF FirstShow
    <3>2. serialize_items \o <<>> = serialize_items
      BY <1>1, PagesAreTyped, ConcatEmptySeq
    <3>3. m_items = <<>> \/ Rearranged(session.items, serialize_items)
      BY <3>1, <3>2, RearrangedBack
    <3>4. QED
      BY <1>2, <2>1, <3>1, <3>3 DEF Stored
  <2>4. QED
    BY <2>2, <2>3
<1>17. QED
  BY <1>3, <1>6, <1>7, <1>8, <1>9, <1>10, <1>11, <1>12, <1>13, <1>14, <1>15, <1>16
     DEF Next, QuitUnasked, QuitAsked, Kill

LEMMA AskedStep ==
  ASSUME DocumentInv, Next
  PROVE  Asked'
<1>1. TypeInv /\ PageInv /\ TypeOK /\ Stored /\ Asked /\ PageInv'
  BY ScanTypes, ToolbarTypes, SavingTypes, RestoringTypes, StartTypes
     DEF DocumentInv, TypeInv, Next, QuitUnasked, QuitAsked, Kill
<1>2. CASE modified'
  BY <1>2 DEF Asked
<1>3. ASSUME FilesOf(Shown') \subseteq FilesOf(Shown), UNCHANGED <<modified, pdf>>
      PROVE  Asked'
  BY <1>1, <1>3 DEF Asked
<1>4. ASSUME layout' = <<>> PROVE Asked'
  <2>1. Shown' = <<>>
    BY <1>4 DEF Shown
  <2>2. FilesOf(Shown') = {}
    BY <2>1 DEF FilesOf, ToSet
  <2>3. QED
    BY <2>2 DEF Asked
<1>5. ASSUME UNCHANGED page_vars PROVE Shown' = Shown
  BY <1>5, RowsFrame DEF page_vars
<1>6. CASE \/ WriteHeader \/ AppendItems \/ StartScan \/ OpenSaveDialog \/ showEvent
           \/ AnswerRestore \/ Restored
  <2>1. UNCHANGED page_vars /\ UNCHANGED <<modified, pdf>>
    BY <1>6 DEF WriteHeader, AppendItems, StartScan, OpenSaveDialog, showEvent,
                AnswerRestore, Restored, disk_vars
  <2>2. QED
    BY <1>3, <1>5, <2>1
<1>7. CASE ScanDone
  <2>1. CASE modified' = TRUE
    BY <1>2, <2>1
  <2>2. CASE UNCHANGED <<page_vars, files, modified, pc, session>>
    BY <1>3, <1>5, <1>7, <2>2 DEF ScanDone
  <2>3. QED
    BY <1>7, <2>1, <2>2 DEF ScanDone
<1>8. CASE sl_remove_image
  <2>1. CASE crashed'
    <3>1. PICK i \in ToSet(layout) : remove_image(i)
      BY <1>8 DEF sl_remove_image
    <3>2. UNCHANGED <<m_items, layout, page>>
      BY <1>1, <1>8, <2>1, <3>1, RemoveStep DEF sl_remove_image, UserEvent, Running
    <3>3. Shown' = Shown
      BY <3>2, RowsFrame
    <3>4. QED
      BY <1>3, <1>8, <2>1, <3>3 DEF sl_remove_image
  <2>2. CASE ~crashed'
    BY <1>2, <1>4, <1>8, <2>2 DEF sl_remove_image
  <2>3. QED
    BY <2>1, <2>2
<1>9. CASE sl_move_image \/ sl_transform
  <2>1. /\ ToSet(layout') = ToSet(layout)
        /\ \A j \in Items : page'[j].file = page[j].file
    <3>1. CASE sl_move_image
      <4>1. PICK i \in ToSet(layout), direction \in {"LEFT", "RIGHT"} : move_image(i, direction)
        BY <3>1 DEF sl_move_image
      <4>2. i \in Items
        BY <1>1, RowOf DEF PageInv, PagesTypeOK
      <4>3. QED
        BY <1>1, <4>1, <4>2, MoveStep
    <3>2. CASE sl_transform
      <4>1. PICK i \in ToSet(layout), button \in Buttons : press(i, button)
        BY <3>2 DEF sl_transform
      <4>2. i \in Items
        BY <1>1, RowOf DEF PageInv, PagesTypeOK
      <4>3. QED
        BY <1>1, <4>1, <4>2, PressStep
    <3>3. QED
      BY <1>9, <3>1, <3>2
  <2>2. /\ layout \in Seq(Items) /\ page \in [Items -> Pages]
        /\ layout' \in Seq(Items) /\ page' \in [Items -> Pages]
    BY <1>1 DEF PageInv, PagesTypeOK
  <2>3. FilesOf(Shown) = {page[i].file : i \in ToSet(layout)}
    BY <2>2, Rows, RowFiles
  <2>4. FilesOf(Shown') = {page'[i].file : i \in ToSet(layout')}
    <3>1. Shown' = Row(layout', page')
      BY DEF Shown, Row
    <3>2. QED
      BY <2>2, <3>1, RowFiles
  <2>5. ToSet(layout) \subseteq Items
    BY <2>2, RowOf
  <2>6. FilesOf(Shown') = FilesOf(Shown)
    BY <2>1, <2>3, <2>4, <2>5
  <2>7. QED
    BY <1>3, <1>9, <2>6 DEF sl_move_image, sl_transform
<1>10. CASE SavePdf
  <2>1. UNCHANGED page_vars /\ modified' = modified /\ Shown' = Shown
        /\ (pdf' = pdf \/ pdf' \in {serialize_items, NotWritten})
    BY <1>5, <1>10 DEF SavePdf
  <2>2. FilesOf(serialize_items) = FilesOf(Shown)
    BY <1>1, SameFiles
  <2>3. QED
    BY <1>1, <2>1, <2>2 DEF Asked
<1>11. CASE DocumentSaved
  <2>1. Shown' = Shown /\ pdf' = pdf /\ pdf \in {serialize_items, NotWritten}
    BY <1>1, <1>5, <1>11 DEF DocumentSaved, Stored
  <2>2. FilesOf(serialize_items) = FilesOf(Shown)
    BY <1>1, SameFiles
  <2>3. QED
    BY <2>1, <2>2 DEF Asked
<1>12. CASE RestoreItem
  BY <1>2, <1>12 DEF RestoreItem
<1>13. CASE NextRun
  BY <1>4, <1>13 DEF NextRun, PagesReset
<1>14. QED
  BY <1>6, <1>7, <1>8, <1>9, <1>10, <1>11, <1>12, <1>13 DEF Next, QuitUnasked, QuitAsked, Kill
LEMMA InitDocument == Init => DocumentInv
<1> SUFFICES ASSUME Init PROVE DocumentInv
  OBVIOUS
<1>1. /\ m_items = <<>> /\ layout = <<>> /\ ~scanning /\ dialog = "none" /\ pc = "loop"
      /\ shows = 0 /\ session \in {NoFile, LeftoverSession}
  BY DEF Init, PagesInit
<1>2. FirstShow
  BY <1>1 DEF FirstShow
<1>3. session.header => session.present
  BY <1>1 DEF NoFile, LeftoverSession, Holding
<1>4. Stored
  BY <1>1, <1>3 DEF Stored
<1>5. Asked
  <2>1. FilesOf(Shown) = {}
    BY InitTypes, SameFiles, <1>1 DEF TypeInv
  <2>2. QED
    BY <2>1 DEF Asked
<1>6. QED
  BY InitTypes, <1>2, <1>4, <1>5 DEF DocumentInv

LEMMA DocumentStutters ==
  ASSUME DocumentInv, UNCHANGED vars
  PROVE  DocumentInv'
<1>1. TypeInv'
  BY StutterTypes DEF DocumentInv
<1>2. /\ serialize_items' = serialize_items /\ Shown' = Shown
      /\ UNCHANGED <<m_items, m_session_saving_disabled, modified, dialog, pending, pc, scanning,
                     shows, session, pdf>>
  BY RowsFrame DEF vars, page_vars, view_vars, disk_vars
<1>3. FirstShow'
  BY <1>2 DEF DocumentInv, FirstShow
<1>4. Stored'
  BY <1>2 DEF DocumentInv, Stored
<1>5. Asked'
  BY <1>2 DEF DocumentInv, Asked
<1>6. QED
  BY <1>1, <1>3, <1>4, <1>5 DEF DocumentInv

LEMMA DocumentAlways == Spec => []DocumentInv
<1>1. DocumentInv /\ Next => DocumentInv'
  <2> SUFFICES ASSUME DocumentInv, Next PROVE DocumentInv'
    OBVIOUS
  <2>1. TypeInv'
    BY ScanTypes, ToolbarTypes, SavingTypes, RestoringTypes, StartTypes
       DEF DocumentInv, Next, QuitUnasked, QuitAsked, Kill
  <2>2. QED
    BY <2>1, FirstShowStep, StoredStep, AskedStep DEF DocumentInv
<1>2. DocumentInv /\ [Next]_vars => DocumentInv'
  BY <1>1, DocumentStutters
<1>3. QED
  BY InitDocument, <1>2, PTL DEF Spec

(* While no handler runs, the session file has every page of the document,   *)
(* as often as it is there and as it was last turned, or it was removed for  *)
(* a pdf of just these pages (save_session, remove_session).                 *)
THEOREM SessionsHoldDocument == Spec => []SessionHoldsDocument
<1>1. DocumentInv => SessionHoldsDocument
  <2> SUFFICES ASSUME DocumentInv, ~m_session_saving_disabled, pc = "loop", m_items # <<>>
               PROVE  IF session.present
                      THEN session.header /\ SamePages(session.items, serialize_items)
                      ELSE SamePages(pdf, serialize_items) \/ pdf = NotWritten
    BY DEF SessionHoldsDocument
  <2>1. IF session.present
        THEN session.header /\ Rearranged(session.items, serialize_items)
        ELSE pdf \in {serialize_items, NotWritten}
    BY DEF DocumentInv, Stored
  <2>2. SamePages(serialize_items, serialize_items)
    BY RearrangedSelf, RearrangedPages
  <2>3. QED
    BY <2>1, <2>2, RearrangedPages
<1>2. QED
  BY <1>1, DocumentAlways, PTL

(* The session file lists just the pages shown, with their numbers: sorted   *)
(* by them, as showEvent does, they are in the order shown.                  *)
THEOREM SessionsRestoreOrder == Spec => []SessionRestoresOrder
<1>1. DocumentInv => SessionRestoresOrder
  <2> SUFFICES ASSUME DocumentInv, ~m_session_saving_disabled, pc = "loop", session.present,
                      m_items # <<>>
               PROVE  ToSet(session.items) = ToSet(Shown)
    BY DEF SessionRestoresOrder
  <2>1. Rearranged(session.items, serialize_items)
    BY DEF DocumentInv, Stored
  <2>2. ToSet(session.items) = ToSet(serialize_items)
    BY <2>1, RearrangedSets
  <2>3. QED
    BY <2>2, SameFiles DEF DocumentInv, TypeInv
<1>2. QED
  BY <1>1, DocumentAlways, PTL

(* Quitting is not asked about only when every page shown was part of the    *)
(* last pdf, or that could not be written (closeEvent, sig_document_saved).  *)
THEOREM UnaskedQuitsAreSaved == Spec => []UnaskedQuitIsSaved
<1>1. DocumentInv => UnaskedQuitIsSaved
  BY DEF DocumentInv, Asked, UnaskedQuitIsSaved
<1>2. QED
  BY <1>1, DocumentAlways, PTL

(* A program that ends, killed at whatever point, leaves the pages it showed *)
(* in its session file or its pdf, but for the named cases (save_session).   *)
THEOREM KilledRunsLoseOnly == Spec => KilledRunLosesOnly
<1>1. ASSUME DocumentInv, Next, runs' # runs
      PROVE  \/ FilesOf(Shown) \subseteq FilesOf(session'.items) \cup FilesOf(pdf)
             \/ pc \in {"header", "append"}
             \/ m_session_saving_disabled
             \/ pdf = NotWritten
  <2>1. session' = session
    BY <1>1 DEF Next, WriteHeader, AppendItems, StartScan, ScanDone, sl_remove_image,
       sl_move_image, sl_transform, OpenSaveDialog, SavePdf, DocumentSaved, showEvent,
       AnswerRestore, RestoreItem, Restored, QuitUnasked, QuitAsked, Kill, NextRun, disk_vars
  <2>2. PageInv /\ pc \in {"loop", "header", "append", "restoring", "saved"}
    BY <1>1 DEF DocumentInv, TypeInv, TypeOK
  <2>3. FilesOf(serialize_items) = FilesOf(Shown)
    BY <2>2, SameFiles
  <2>4. CASE m_items = <<>>
    BY <2>2, <2>4, SameFiles
  <2>5. CASE m_items # <<>> /\ ~m_session_saving_disabled /\ pc \notin {"header", "append"}
    <3>1. IF session.present
          THEN session.header /\ Rearranged(session.items, serialize_items)
          ELSE pdf \in {serialize_items, NotWritten}
      BY <1>1, <2>2, <2>5 DEF DocumentInv, Stored
    <3>2. CASE session.present
      <4>1. ToSet(session.items) = ToSet(serialize_items)
        BY <3>1, <3>2, RearrangedSets
      <4>2. FilesOf(session.items) = FilesOf(serialize_items)
        BY <4>1 DEF FilesOf
      <4>3. QED
        BY <2>1, <2>3, <4>2
    <3>3. CASE ~session.present
      BY <2>3, <3>1, <3>3
    <3>4. QED
      BY <3>2, <3>3
  <2>6. QED
    BY <2>4, <2>5
<1>2. DocumentInv /\ [Next]_vars =>
        [runs' # runs =>
           \/ FilesOf(Shown) \subseteq FilesOf(session'.items) \cup FilesOf(pdf)
           \/ pc \in {"header", "append"}
           \/ m_session_saving_disabled
           \/ pdf = NotWritten]_vars
  BY <1>1
<1>3. QED
  BY <1>2, DocumentAlways, PTL DEF Spec, KilledRunLosesOnly
=============================================================================
