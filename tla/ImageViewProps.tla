--------------------------- MODULE ImageViewProps ---------------------------
(***************************************************************************)
(* What the pages, the session and the pdf of the client must guarantee.   *)
(***************************************************************************)
EXTENDS ImageView

FilesOf(s) == {p.file : p \in ToSet(s)}
NoRepeat(s) == \A m, n \in DOMAIN s : s[m] = s[n] => m = n

\* Moves, removals and restorations keep the two orders of the pages in step:
\* every item of the manager is shown exactly once, and nothing else is.
EveryPageShownOnce ==
  ToSet(layout) = ToSet(m_items) /\ NoRepeat(layout) /\ NoRepeat(m_items)

\* The number on a page stays its place in the row (move_image finds pages by
\* it): no step spoils the numbering of a well numbered document, except that
\* a page is removed after pages were moved, and that a session is restored
\* next to pages already there.
NumberingSpoiledOnly ==
  [][Numbered =>
       \/ Numbered'
       \/ Len(layout') < Len(layout) /\ layout # m_items
       \/ pc = "restoring" /\ Head(pending).number # Len(layout) + 1]_vars

\* In a well numbered document the arrow of a page moves that page, one place
\* in that direction or not at all at the end of the row, and no number or
\* image of another page changes but its neighbour's.
ArrowMovesItsPage ==
  [][\A n \in 1..Len(layout), direction \in {"LEFT", "RIGHT"} :
       Numbered /\ move_image(layout[n], direction) =>
         LET m == IF direction = "LEFT" THEN n - 1 ELSE n + 1 IN
         IF m \in 1..Len(layout)
         THEN /\ layout'[m] = layout[n] /\ layout'[n] = layout[m]
              /\ Numbered'
              /\ [i \in Items |-> page'[i].transform] = [i \in Items |-> page[i].transform]
         ELSE UNCHANGED page_vars]_vars

\* Once saving is enabled, whenever the event loop is idle the session file
\* holds every page of the document as it was last turned, or was removed
\* because a pdf was made of just these pages, or was to be made of them and
\* could not be written.
SessionHoldsDocument ==
  ~m_session_saving_disabled /\ pc = "loop" /\ ~crashed /\ m_items # <<>> =>
    IF session.present
    THEN session.header /\ SamePages(session.items, serialize_items)
    ELSE SamePages(pdf, serialize_items) \/ pdf = NotWritten

\* The session file lists the pages in the order they were added; sorted by
\* their numbers, as showEvent sorts them, they are in the order shown, as
\* they were last turned.
SessionRestoresOrder ==
  ~m_session_saving_disabled /\ pc = "loop" /\ session.present /\ m_items # <<>>
    /\ Numbered => ToSet(session.items) = ToSet(Shown)

\* The question asked before quitting is skipped only when every page shown
\* was part of the last pdf that was saved, or that pdf could not be written.
UnaskedQuitIsSaved ==
  pc = "loop" /\ ~modified =>
    FilesOf(Shown) \subseteq FilesOf(pdf) \/ pdf = NotWritten

\* A program that ends, by being quit, killed at any point or crashing, leaves
\* every page it showed in its session file or in a pdf, but for three cases: it
\* is killed between the writes of the session file, it has not got as far as
\* to save sessions, or its pdf could not be written.
KilledRunLosesOnly ==
  [][runs' # runs =>
       \/ FilesOf(Shown) \subseteq FilesOf(session'.items) \cup FilesOf(pdf)
       \/ pc \in {"header", "append"}
       \/ m_session_saving_disabled
       \/ pdf = NotWritten]_vars

\* "Supports restoring sessions if pdf file was not saved or the program
\* crashed (restores unsaved pages)" (README.md:34-35): while the event loop is
\* idle, pages that are in no pdf are in the session file.
UnsavedPagesRestorable ==
  pc = "loop" /\ m_items # <<>> /\ pdf # NotWritten =>
    \/ FilesOf(Shown) \subseteq FilesOf(pdf)
    \/ FilesOf(Shown) \subseteq FilesOf(session.items)

\* "Can reorder, rotate and delete pages" (README.md:33): the pdf has the pages
\* in the order they are shown.
PdfInShownOrder ==
  pc = "saved" /\ pdf # NotWritten =>
    [n \in 1..Len(pdf) |-> pdf[n].file] = [n \in 1..Len(Shown) |-> Shown[n].file]

\* "Can reorder, rotate and delete pages" (README.md:33): no sequence of these
\* stops the program.
ReorderAndDeleteSafe == ~crashed
=============================================================================
