------------------------------ MODULE ImageView ------------------------------
(***************************************************************************)
(* The document of the client: CImageView (gui-app/src/Ui/ImageView.cpp),  *)
(* its session file (gui-app/src/Service/SessionService.cpp) and the       *)
(* question asked before quitting (gui-app/src/Ui/MainWindow.cpp).         *)
(*                                                                         *)
(* One thread runs the event loop.  A handler is cut where the program can *)
(* be killed with an effect on disk (between the writes of the session     *)
(* file, after the pdf was written) and where it runs a dialog: a dialog   *)
(* is an event loop of its own, in which a scan that ends is still         *)
(* handled, while the user can only answer it.                             *)
(***************************************************************************)
EXTENDS PageList

CONSTANTS
  Buttons,   \* the toolbar's buttons that are pressed
  Turned,    \* bound: the images whose rotate and mirror buttons are pressed
  Leftover,  \* whether another build may have left a session file
  MaxRuns,   \* bound: how often the program is started
  MaxShows   \* bound: how often its window is shown in one run

ASSUME ViewAssumption ==
  /\ Buttons \subseteq {"rotate_left", "rotate_right", "mirror"}
  /\ Turned \subseteq Files
  /\ Leftover \in BOOLEAN
  /\ MaxRuns \in Nat \ {0} /\ MaxShows \in Nat

VARIABLES
  m_session_saving_disabled,  \* CImageView::m_session_saving_disabled
  session,   \* the session file: absent, shorter than a header, or its items
  modified,  \* isWindowModified()
  pdf,       \* the pages of the pdf last saved in this run, or NotWritten
  dialog,    \* the dialog that is open
  pending,   \* the items of the session being restored
  pc,        \* where the handler of the current event is
  scanning,  \* a scan is in progress
  files,     \* how many images were scanned
  shows,     \* how often the window was shown
  runs       \* how often the program was started

view_vars == <<m_session_saving_disabled, modified, dialog, pending, pc,
               scanning, shows>>
disk_vars == <<session, pdf, files, runs>>
vars == <<page_vars, view_vars, disk_vars>>

NoFile    == [present |-> FALSE, header |-> FALSE, items |-> <<>>]
Truncated == [present |-> TRUE, header |-> FALSE, items |-> <<>>]
NotWritten == <<NoPage>>  \* the last pdf could not be written

Holding(items) == [present |-> TRUE, header |-> TRUE, items |-> items]

\* serialize_items: the items in the order of m_items.
serialize_items == [n \in 1..Len(m_items) |-> page[m_items[n]]]
Shown           == [n \in 1..Len(layout) |-> page[layout[n]]]

\* The same pages, numbers aside, each as often, in any order.
Same(p, q) == p.file = q.file /\ p.transform = q.transform
SamePages(s, t) ==
  \E f \in Bijection(DOMAIN s, DOMAIN t) : \A n \in DOMAIN s : Same(s[n], t[f[n]])

TypeOK ==
  /\ PagesTypeOK
  /\ m_session_saving_disabled \in BOOLEAN
  /\ session \in [present : BOOLEAN, header : BOOLEAN, items : Seq(Pages)]
  /\ modified \in BOOLEAN
  /\ pdf \in Seq(Pages)
  /\ dialog \in {"none", "restore", "save"}
  /\ pending \in Seq(Pages)
  /\ pc \in {"loop", "header", "append", "restoring", "saved"}
  /\ scanning \in BOOLEAN
  /\ files \in 0..MaxFiles
  /\ shows \in 0..MaxShows /\ runs \in 0..MaxRuns

\* What an earlier build left: a session of one page.
LeftoverSession ==
  Holding(<<[file |-> 1, number |-> 1, transform |-> Identity]>>)

Init ==
  /\ PagesInit
  /\ m_session_saving_disabled = TRUE
  /\ \/ session = NoFile /\ files = 0
     \/ Leftover /\ MaxFiles > 0 /\ session = LeftoverSession /\ files = 1
  /\ modified = FALSE
  /\ pdf = <<>>
  /\ dialog = "none" /\ pending = <<>> /\ pc = "loop"
  /\ scanning = FALSE /\ shows = 0 /\ runs = 1

Running == ~crashed
\* An event the user causes: not while a dialog is open.
UserEvent == Running /\ pc = "loop" /\ dialog = "none" /\ shows > 0

-----------------------------------------------------------------------------
(* save_session: the file is truncated, the header and the items written.  *)

\* Opening the file truncates it.
save_session ==
  IF m_session_saving_disabled
  THEN pc' = pc /\ UNCHANGED session
  ELSE pc' = "header" /\ session' = Truncated

WriteHeader ==
  /\ Running /\ pc = "header"
  /\ session' = Holding(<<>>)
  /\ pc' = "append"
  /\ UNCHANGED <<page_vars, m_session_saving_disabled, modified, dialog, pending,
                 scanning, shows, pdf, files, runs>>

\* The save of an item being restored returns to the loop over the items.
AppendItems ==
  /\ Running /\ pc = "append"
  /\ session' = Holding(serialize_items)
  /\ pc' = IF dialog = "none" /\ pending # <<>> THEN "restoring" ELSE "loop"
  /\ UNCHANGED <<page_vars, m_session_saving_disabled, modified, dialog, pending,
                 scanning, shows, pdf, files, runs>>

-----------------------------------------------------------------------------
(* Scanned pages and the buttons of the toolbars.                          *)

StartScan ==
  /\ UserEvent /\ ~scanning /\ files < MaxFiles
  /\ scanning' = TRUE
  /\ UNCHANGED <<page_vars, m_session_saving_disabled, modified, dialog, pending,
                 pc, shows, disk_vars>>

\* sl_sig_done, queued from the thread of the reader.
ScanDone ==
  /\ Running /\ pc = "loop" /\ scanning
  /\ scanning' = FALSE
  /\ \/ /\ add_image(files + 1)
        /\ files' = files + 1
        /\ modified' = TRUE
        /\ save_session
     \/ UNCHANGED <<page_vars, files, modified, pc, session>>
  /\ UNCHANGED <<m_session_saving_disabled, dialog, pending, shows, pdf, runs>>

sl_remove_image ==
  /\ UserEvent
  /\ \E i \in ToSet(layout) : remove_image(i)
  /\ IF crashed' THEN UNCHANGED <<modified, pc, session>>
     ELSE modified' = (layout' # <<>>) /\ save_session
  /\ UNCHANGED <<m_session_saving_disabled, dialog, pending, scanning, shows, pdf,
                 files, runs>>

\* Mutant: a move is not saved.
MoveUnsaved ==
  /\ UserEvent
  /\ \E i \in ToSet(layout), direction \in {"LEFT", "RIGHT"} : move_image(i, direction)
  /\ UNCHANGED <<pc, session, m_session_saving_disabled, modified, dialog, pending,
                 scanning, shows, pdf, files, runs>>

sl_move_image ==
  /\ UserEvent
  /\ \E i \in ToSet(layout), direction \in {"LEFT", "RIGHT"} : move_image(i, direction)
  /\ IF crashed' THEN UNCHANGED <<pc, session>> ELSE save_session
  /\ UNCHANGED <<m_session_saving_disabled, modified, dialog, pending, scanning,
                 shows, pdf, files, runs>>

\* Mutant: a transformation is not saved.
TransformUnsaved ==
  /\ UserEvent
  /\ \E i \in ToSet(layout), button \in Buttons :
       page[i].file \in Turned /\ press(i, button)
  /\ UNCHANGED <<pc, session, m_session_saving_disabled, modified, dialog, pending,
                 scanning, shows, pdf, files, runs>>

sl_transform ==
  /\ UserEvent
  /\ \E i \in ToSet(layout), button \in Buttons :
       page[i].file \in Turned /\ press(i, button)
  /\ save_session
  /\ UNCHANGED <<m_session_saving_disabled, modified, dialog, pending, scanning,
                 shows, pdf, files, runs>>

-----------------------------------------------------------------------------
(* Saving the document.                                                    *)

\* Mutant: the session is removed before the dialog is answered.
OpenSaveRemoves ==
  /\ UserEvent
  /\ dialog' = "save"
  /\ session' = NoFile
  /\ UNCHANGED <<page_vars, m_session_saving_disabled, modified, pending, pc,
                 scanning, shows, pdf, files, runs>>

OpenSaveDialog ==
  /\ UserEvent
  /\ dialog' = "save"
  /\ UNCHANGED <<page_vars, m_session_saving_disabled, modified, pending, pc,
                 scanning, shows, disk_vars>>

\* sl_save_pdf after its dialog.  The result of pdf.save is not looked at:
\* whether a pdf was written makes no difference to what follows.
SavePdf ==
  /\ Running /\ pc = "loop" /\ dialog = "save"
  /\ dialog' = "none"
  /\ \/ UNCHANGED <<pc, pdf>>
     \/ pc' = "saved" /\ pdf' \in {serialize_items, NotWritten}
  /\ UNCHANGED <<page_vars, m_session_saving_disabled, modified, pending, scanning,
                 shows, session, files, runs>>

\* sig_document_saved, then remove_session.
DocumentSaved ==
  /\ Running /\ pc = "saved"
  /\ modified' = FALSE
  /\ session' = NoFile
  /\ pc' = "loop"
  /\ UNCHANGED <<page_vars, m_session_saving_disabled, dialog, pending, scanning,
                 shows, pdf, files, runs>>

-----------------------------------------------------------------------------
(* Restoring a session.                                                    *)

\* std::sort by page number: the order of equal numbers is not specified.
SortedByNumber(s) ==
  {t \in {[n \in DOMAIN s |-> s[f[n]]] : f \in Bijection(DOMAIN s, DOMAIN s)} :
     \A n \in 1..Len(s)-1 : t[n].number <= t[n+1].number}

\* showEvent, with its timer: at the start, and whenever the window system
\* shows a minimised window again.
showEvent ==
  /\ Running /\ pc = "loop" /\ dialog = "none" /\ shows < MaxShows
  /\ shows' = shows + 1
  /\ IF session.header
     THEN dialog' = "restore" /\ pending' \in SortedByNumber(session.items)
     ELSE UNCHANGED <<dialog, pending>>
  /\ UNCHANGED <<page_vars, m_session_saving_disabled, modified, pc, scanning,
                 disk_vars>>

AnswerRestore ==
  /\ Running /\ pc = "loop" /\ dialog = "restore"
  /\ dialog' = "none"
  /\ \/ pc' = "restoring" /\ UNCHANGED pending
     \/ pc' = "restoring" /\ pending' = <<>>
  /\ UNCHANGED <<page_vars, m_session_saving_disabled, modified, scanning, shows,
                 disk_vars>>

\* Mutant: restored pages do not count as a change.
RestoreUnmodified ==
  /\ Running /\ pc = "restoring" /\ pending # <<>>
  /\ AddItem(Head(pending))
  /\ pending' = Tail(pending)
  /\ save_session
  /\ UNCHANGED <<m_session_saving_disabled, modified, dialog, scanning, shows, pdf,
                 files, runs>>

\* add_image of one item of the session, with the number it had.
RestoreItem ==
  /\ Running /\ pc = "restoring" /\ pending # <<>>
  /\ AddItem(Head(pending))
  /\ pending' = Tail(pending)
  /\ modified' = TRUE
  /\ save_session
  /\ UNCHANGED <<m_session_saving_disabled, dialog, scanning, shows, pdf, files, runs>>

Restored ==
  /\ Running /\ pc = "restoring" /\ pending = <<>>
  /\ m_session_saving_disabled' = FALSE
  /\ pc' = "loop"
  /\ UNCHANGED <<page_vars, modified, dialog, pending, scanning, shows, disk_vars>>

-----------------------------------------------------------------------------
(* The end of the program and the next start.                              *)

NextRun ==
  /\ runs < MaxRuns /\ runs' = runs + 1
  /\ PagesReset
  /\ m_session_saving_disabled' = TRUE /\ modified' = FALSE
  /\ dialog' = "none" /\ pending' = <<>> /\ pc' = "loop"
  /\ scanning' = FALSE /\ shows' = 0
  /\ pdf' = <<>>
  /\ UNCHANGED <<session, files>>

\* closeEvent: without a question when the window is not modified.
QuitUnasked == UserEvent /\ ~modified /\ NextRun
QuitAsked   == UserEvent /\ modified /\ NextRun

\* The program is killed, at any point, or has crashed.
Kill == NextRun

Next ==
  \/ WriteHeader \/ AppendItems
  \/ StartScan \/ ScanDone
  \/ sl_remove_image \/ sl_move_image \/ sl_transform
  \/ OpenSaveDialog \/ SavePdf \/ DocumentSaved
  \/ showEvent \/ AnswerRestore \/ RestoreItem \/ Restored
  \/ QuitUnasked \/ QuitAsked \/ Kill

Spec == Init /\ [][Next]_vars
=============================================================================
