------------------------------ MODULE PageList ------------------------------
(***************************************************************************)
(* The scanned pages in the client: CImageItem, CImageItemManager and      *)
(* CImageItemContainer (gui-app/src/Ui/ImageView.cpp).                     *)
(*                                                                         *)
(* A page is known in two places: the manager's vector m_items, in the     *)
(* order in which pages were added, and the layout, in the order in which  *)
(* they are shown.  Every item also carries the number shown in its        *)
(* toolbar, which is what it is looked up by when it is moved or removed.  *)
(***************************************************************************)
EXTENDS Naturals, Sequences, SequencesExt

CONSTANTS
  MaxItems,  \* bound: items made while the program runs once
  MaxFiles,  \* bound: images scanned altogether
  SizeT      \* 2^64, the modulus of size_t: larger than any page number

ASSUME PageAssumption ==
  /\ MaxItems \in Nat /\ MaxFiles \in Nat
  /\ SizeT \in Nat /\ SizeT > 2 * MaxItems + 2

VARIABLES
  m_items,  \* CImageItemManager::m_items
  layout,   \* the items of the QHBoxLayout, from left to right
  page,     \* m_file, m_page_number and m_transform of every item
  created,  \* how many items were made
  crashed   \* a null or invalid item was dereferenced

page_vars == <<m_items, layout, page, created, crashed>>

Items == 1..MaxItems
Files == 0..MaxFiles

\* A transform is a mirroring or not, then some quarter turns.
Transforms == BOOLEAN \X (0..3)
Identity   == <<FALSE, 0>>

Pages  == [file : Files, number : 0..SizeT-1, transform : Transforms]
NoPage == [file |-> 0, number |-> 0, transform |-> Identity]

PagesTypeOK ==
  /\ m_items \in Seq(Items) /\ layout \in Seq(Items)
  /\ page \in [Items -> Pages]
  /\ created \in 0..MaxItems
  /\ crashed \in BOOLEAN

PagesInit ==
  /\ m_items = <<>> /\ layout = <<>>
  /\ page = [i \in Items |-> NoPage]
  /\ created = 0
  /\ crashed = FALSE

PagesReset ==
  /\ m_items' = <<>> /\ layout' = <<>>
  /\ page' = [i \in Items |-> NoPage]
  /\ created' = 0
  /\ crashed' = FALSE

-----------------------------------------------------------------------------
\* A new item, last in both orders.
AddItem(p) ==
  /\ created < MaxItems
  /\ created' = created + 1
  /\ page' = [page EXCEPT ![created + 1] = p]
  /\ m_items' = Append(m_items, created + 1)
  /\ layout' = Append(layout, created + 1)
  /\ UNCHANGED crashed

\* add_image(file): the number is the place after the last item.
add_image(file) ==
  AddItem([file |-> file, number |-> Len(m_items) + 1, transform |-> Identity])

\* Mutants: one item too many keeps its number; page numbers are signed; the
\* item is left in the layout.
RemoveSkipsOne(i) ==
  LET later == SubSeq(m_items, page[i].number + 2, Len(m_items)) IN
  /\ page' = [j \in Items |->
                IF Contains(later, j)
                THEN [page[j] EXCEPT !.number = (@ + SizeT - 1) % SizeT]
                ELSE page[j]]
  /\ layout' = RemoveFirst(layout, i)
  /\ m_items' = RemoveFirst(m_items, i)
  /\ UNCHANGED <<created, crashed>>

RemoveSigned(i) ==
  LET later == SubSeq(m_items, page[i].number + 1, Len(m_items)) IN
  /\ page' = [j \in Items |->
                IF Contains(later, j) THEN [page[j] EXCEPT !.number = @ - 1]
                ELSE page[j]]
  /\ layout' = RemoveFirst(layout, i)
  /\ m_items' = RemoveFirst(m_items, i)
  /\ UNCHANGED <<created, crashed>>

RemoveKeepsWidget(i) ==
  LET later == SubSeq(m_items, page[i].number + 1, Len(m_items)) IN
  /\ page' = [j \in Items |->
                IF Contains(later, j)
                THEN [page[j] EXCEPT !.number = (@ + SizeT - 1) % SizeT]
                ELSE page[j]]
  /\ m_items' = RemoveFirst(m_items, i)
  /\ UNCHANGED <<layout, created, crashed>>

\* remove_image: the items after the removed one in the order of m_items,
\* counted by its page number, move up by one.  A number that wrapped is a
\* negative count for views::drop, which reads before the vector.  The item is
\* once in each order (EveryPageShownOnce), so its first occurrence is what
\* std::erase, which asserts that, and removeWidget take out.
remove_image(i) ==
  IF page[i].number >= SizeT \div 2
  THEN crashed' = TRUE /\ UNCHANGED <<m_items, layout, page, created>>
  ELSE LET later == SubSeq(m_items, page[i].number + 1, Len(m_items)) IN
       /\ page' = [j \in Items |->
                     IF Contains(later, j)
                     THEN [page[j] EXCEPT !.number = (@ + SizeT - 1) % SizeT]
                     ELSE page[j]]
       /\ layout' = RemoveFirst(layout, i)
       /\ m_items' = RemoveFirst(m_items, i)
       /\ UNCHANGED <<created, crashed>>

\* The page an item is to change places with, 0 for none.
Neighbour(i, direction) ==
  LET number == page[i].number
      wanted == IF direction = "LEFT" THEN number - 1 ELSE (number + 1) % SizeT
  IN IF number = 0 \/ wanted > Len(layout) THEN 0 ELSE wanted

\* Mutant: the items change places and keep their numbers.
MoveKeepsNumbers(i, direction) ==
  LET a == page[i].number
      b == Neighbour(i, direction)
  IN IF b = 0 \/ a > Len(layout) THEN UNCHANGED page_vars
     ELSE /\ layout' = [layout EXCEPT ![a] = layout[b], ![b] = layout[a]]
          /\ UNCHANGED <<m_items, page, created, crashed>>

\* move_image: the items at the two places change places and numbers.  There
\* is no item at a place past the end of the layout.
move_image(i, direction) ==
  LET a == page[i].number
      b == Neighbour(i, direction)
      x == layout[a]
      y == layout[b]
  IN CASE b = 0 -> UNCHANGED page_vars
       [] b # 0 /\ a > Len(layout) ->
            crashed' = TRUE /\ UNCHANGED <<m_items, layout, page, created>>
       [] OTHER ->
            /\ page' = [page EXCEPT ![x].number = page[y].number,
                                    ![y].number = page[x].number]
            /\ layout' = [layout EXCEPT ![a] = y, ![b] = x]
            /\ UNCHANGED <<m_items, created, crashed>>

\* The toolbar's buttons: QTransform applies a new rotation or mirroring
\* before those there are.
Pressed(transform, button) ==
  LET mirrored == transform[1]
      turns == transform[2]
      turn(k) == (turns + (IF mirrored THEN 4 - k ELSE k)) % 4
  IN CASE button = "rotate_left"  -> <<mirrored, turn(3)>>
       [] button = "rotate_right" -> <<mirrored, turn(1)>>
       [] button = "mirror"       -> <<~mirrored, turns>>

press(i, button) ==
  /\ page' = [page EXCEPT ![i].transform = Pressed(@, button)]
  /\ UNCHANGED <<m_items, layout, created, crashed>>

-----------------------------------------------------------------------------
\* The numbers shown are the places of the pages.
Numbered == \A n \in 1..Len(layout) : page[layout[n]].number = n
=============================================================================
