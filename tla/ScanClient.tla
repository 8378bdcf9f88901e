----------------------------- MODULE ScanClient -----------------------------
(***************************************************************************)
(* What the client does with the server's RPCs: the Refresh and Scan       *)
(* buttons and the list of scanners between them (gui-app/src/Ui/Scan,     *)
(* Ui/Select), the services that make the calls (Service, Readers), the    *)
(* proxies that survive a change of channel (Utils/ServiceProxy) and that  *)
(* change itself (Utils/Globals.hpp).                                      *)
(*                                                                         *)
(* Calls are answered on threads of gRPC, which signal the event loop:     *)
(* a signal is queued.  A handler of the event loop is one action; OnDone  *)
(* runs beside it in three steps.  The server keeps what ScanStream        *)
(* promises.  Not modelled: the progress bar, the parameters of a scan     *)
(* beyond how much data they call for, closing the window.                 *)
(***************************************************************************)
EXTENDS TempFiles

CONSTANTS
  Scanners,
  Document,     \* the chunks of one scan
  SizeChecked,  \* how many of them make up the size sl_sig_done checks
  MaxScans, MaxFetches, MaxChannels   \* bounds: scans, refreshes and channels

ASSUME ScanClientAssumption ==
  /\ Scanners # {} /\ Document # <<>> /\ SizeChecked \in 0..Len(Document)
  /\ Document \in Seq({Document[i] : i \in DOMAIN Document})
  /\ MaxScans \in Nat \ {0} /\ MaxFetches \in Nat /\ MaxChannels \in Nat \ {0}

VARIABLES
  channel,         \* the number of the channel; its services go with it
  refresh_enabled, scan_enabled,  \* the buttons
  items,           \* the scanners shown in the list
  fetch,           \* the call for the list in flight, or what came of the last
  fetches,
  reader,          \* CScanResponseReader of this channel
  calls,           \* the Scan calls made so far
  files, disk,     \* CFile objects made for scans; what each path holds
  sequence_number,
  queue,           \* the signals queued to the event loop
  pages,           \* the pages added: for which call, and what they show
  lost,            \* the buttons whose answer went to a freed service
  crashed          \* the misuse that ended the process, or "no"

buttons == <<refresh_enabled, scan_enabled, items>>
disk_vars == <<files, disk, sequence_number>>
vars == <<channel, buttons, fetch, fetches, reader, calls, disk_vars, queue,
          pages, lost, crashed>>

Running == crashed = "no"
None == 0

IdleReader == [in_progress |-> FALSE, context |-> None, file |-> None]
NoFetch    == [rpc |-> "none", on |-> None]

Init ==
  /\ channel = 1
  /\ refresh_enabled = TRUE /\ scan_enabled = FALSE /\ items = {}
  /\ fetch = NoFetch /\ fetches = 0
  /\ reader = IdleReader /\ calls = <<>>
  /\ files = <<>> /\ disk = [n \in Names |-> <<>>] /\ sequence_number = 0
  /\ queue = <<>> /\ pages = {} /\ lost = {} /\ crashed = "no"

Signal(type) == [type |-> type]
Emit(signals) == queue' = queue \o signals

(***************************************************************************)
(* The list of scanners: refresh, then get.                                *)
(***************************************************************************)
on_clicked_get_scanners ==
  /\ Running /\ refresh_enabled /\ fetches < MaxFetches
  /\ refresh_enabled' = FALSE
  /\ fetch' = [rpc |-> "refresh_scanners", on |-> channel]
  /\ fetches' = fetches + 1
  /\ UNCHANGED <<channel, scan_enabled, items, reader, calls, disk_vars, queue,
                 pages, lost, crashed>>

refresh_scanners ==
  /\ fetch.rpc = "refresh_scanners"
  /\ \E type \in {"sig_refresh_scanners", "sig_refresh_scanners_failed"} :
       Emit(<<Signal(type)>>)

\* The list of devices is connected first, then the proxy.
get_scanners ==
  /\ fetch.rpc = "get_scanners"
  /\ \/ Emit(<<Signal("sig_get_scanners_failed")>>)
     \/ \E found \in SUBSET Scanners :
          Emit(<<[type |-> "sl_get_scanners", scanners |-> found],
                 Signal("sig_get_scanners")>>)

Answered ==
  /\ Running /\ fetch.on = channel
  /\ refresh_scanners \/ get_scanners
  /\ fetch' = NoFetch
  /\ UNCHANGED <<channel, buttons, fetches, reader, calls, disk_vars, pages,
                 lost, crashed>>

(***************************************************************************)
(* A scan.  A call is given by its state: "open", then the steps of OnDone *)
(* "cleared" and "reset", then "over".  The first message read is the      *)
(* parameters; "overtook" are the calls whose OnDone had cleared           *)
(* m_in_progress but not signalled yet when this one was made.             *)
(***************************************************************************)
InOnDone(c) == calls[c].on = channel /\ calls[c].at \in {"cleared", "reset"}
Overtakes   == {c \in DOMAIN calls : InOnDone(c)}

\* Deleting the context of a call that runs, or deleting it while another
\* thread does, is undefined: the process ends or goes on.
Resets(context, raced) ==
  crashed' \in IF raced \/ (context # None /\ calls[context].at = "open")
               THEN {"no", "context"} ELSE {"no"}

NewFile(time) == new_temp_file(generate_temp_filepath(time, sequence_number))

(* A bug: the file of the scan before is used again.                       *)
start_new_file_once(time) ==
  IF reader.file = None
  THEN [index |-> Len(files) + 1,
        files |-> Append(files, NewFile(time))]
  ELSE [index |-> reader.file, files |-> files]

start_new_file(time) ==
  [index |-> Len(files) + 1,
   files |-> Append(files, NewFile(time))]

(* A bug: a scan is started whether or not one is in progress.             *)
scan_always == TRUE

scan_allowed == ~reader.in_progress

scan ==
  \/ /\ ~scan_allowed
     /\ UNCHANGED <<reader, calls, disk_vars, crashed>>
  \/ /\ scan_allowed /\ Len(calls) < MaxScans
     /\ Resets(reader.context, Overtakes # {})
     /\ \E time \in Ticks :
          LET new == start_new_file(time) IN
          /\ files' = new.files
          /\ reader' = [in_progress |-> TRUE, context |-> Len(calls) + 1,
                        file |-> new.index]
          /\ calls' = Append(calls,
               [on |-> channel, at |-> "open", read |-> 0, status |-> "none",
                file |-> new.index, made |-> sequence_number,
                overtook |-> Overtakes])
     /\ sequence_number' = sequence_number + 1
     /\ UNCHANGED disk

\* currentData() of an empty list is null, and is dereferenced.
sl_clicked ==
  /\ Running /\ scan_enabled
  /\ scan_enabled' = FALSE
  /\ IF items = {}
     THEN crashed' = "null_scanner" /\ UNCHANGED <<reader, calls, disk_vars>>
     ELSE scan
  /\ UNCHANGED <<channel, refresh_enabled, items, fetch, fetches, queue, pages, lost>>

\* A callback into the services of the channel in use.
Callback(c) == Running /\ calls[c].on = channel

OnReadDone(c) ==
  /\ Callback(c) /\ calls[c].at = "open" /\ calls[c].read <= Len(Document)
  /\ calls' = [calls EXCEPT ![c].read = @ + 1]
  /\ IF calls[c].read = 0
     THEN UNCHANGED <<files, disk>>
     ELSE LET file == files[reader.file] IN
          /\ files' = [files EXCEPT ![reader.file] = Written(file)]
          /\ disk' = Appended(disk, file, <<c, Document[calls[c].read]>>)
  /\ UNCHANGED <<channel, buttons, fetch, fetches, reader, sequence_number, queue,
                 pages, lost, crashed>>

OnDone(c) ==
  /\ Callback(c) /\ calls[c].at = "open"
  /\ \E status \in {"OK", "failed"} :
       /\ status = "OK" => calls[c].read = Len(Document) + 1
       /\ calls' = [calls EXCEPT ![c].at = "cleared", ![c].status = status]
  /\ reader' = [reader EXCEPT !.in_progress = FALSE]
  /\ UNCHANGED <<channel, buttons, fetch, fetches, disk_vars, queue, pages, lost, crashed>>

OnDoneResets(c) ==
  /\ Callback(c) /\ calls[c].at = "cleared"
  /\ Resets(reader.context, FALSE)
  /\ reader' = [reader EXCEPT !.context = None]
  /\ calls' = [calls EXCEPT ![c].at = "reset"]
  /\ UNCHANGED <<channel, buttons, fetch, fetches, disk_vars, queue, pages, lost>>

OnDoneSignals(c) ==
  /\ Callback(c) /\ calls[c].at = "reset"
  /\ Emit(<<[type |-> "sig_done", call |-> c, file |-> reader.file]>>)
  /\ calls' = [calls EXCEPT ![c].at = "over"]
  /\ UNCHANGED <<channel, buttons, fetch, fetches, reader, disk_vars, pages, lost, crashed>>

(***************************************************************************)
(* The slots.                                                              *)
(***************************************************************************)
\* Whether the slot of the Scan button enables it.
(* A bug: only a scan that went well enables the button.                   *)
enabled_by_success(status) == status = "OK"

enabled_by_done(status) == TRUE

\* The picture is made of as much of the file as the parameters call for;
\* where the file is shorter, of whatever follows it in memory, if that can
\* be read.
AddPage(done) ==
  LET file == files[done.file]
      data == Contents(disk, file)
  IN /\ pages' = pages \cup
          {[call |-> done.call,
            shows |-> SubSeq(data, 1, IF Len(data) < Len(Document)
                                      THEN Len(data) ELSE Len(Document))]}
     /\ sequence_number' = sequence_number + 1
     /\ crashed' \in IF Len(data) < Len(Document) THEN {"no", "short_file"} ELSE {"no"}

sl_sig_done(done) ==
  /\ scan_enabled' = enabled_by_done(calls[done.call].status)
  /\ IF calls[done.call].status = "OK" /\ SizeChecked <= files[done.file].size
     THEN AddPage(done)
     ELSE UNCHANGED <<pages, sequence_number, crashed>>
  /\ UNCHANGED <<refresh_enabled, items, fetch>>

\* CDeviceList keeps the list and signals it to the list shown and the button.
sl_get_scanners(found) ==
  /\ items' = found
  /\ scan_enabled' = (found # {})
  /\ UNCHANGED <<refresh_enabled, fetch, pages, sequence_number, crashed>>

sl_refresh_scanners ==
  /\ fetch' = [rpc |-> "get_scanners", on |-> channel]
  /\ UNCHANGED <<buttons, pages, sequence_number, crashed>>

enable_button ==
  /\ refresh_enabled' = TRUE
  /\ UNCHANGED <<scan_enabled, items, fetch, pages, sequence_number, crashed>>

Exec ==
  /\ Running /\ queue # <<>>
  /\ LET signal == Head(queue) IN
       \/ signal.type = "sig_done" /\ sl_sig_done(signal)
       \/ signal.type = "sl_get_scanners" /\ sl_get_scanners(signal.scanners)
       \/ signal.type = "sig_refresh_scanners" /\ sl_refresh_scanners
       \/ /\ signal.type \in {"sig_refresh_scanners_failed", "sig_get_scanners_failed",
                              "sig_get_scanners"}
          /\ enable_button
  /\ queue' = Tail(queue)
  /\ UNCHANGED <<channel, fetches, reader, calls, files, disk, lost>>

(***************************************************************************)
(* A change of channel: new services take the place of the old in the      *)
(* proxies, and the old are freed with what was queued to their list.      *)
(* What is queued to a proxy is still delivered.                           *)
(***************************************************************************)
\* At most one signal is queued to the list: Refresh stays disabled until
\* the signal that follows it was handled.
drop_list_signal ==
  \/ \E k \in DOMAIN queue :
       /\ queue[k].type = "sl_get_scanners"
       /\ queue' = SubSeq(queue, 1, k - 1) \o SubSeq(queue, k + 1, Len(queue))
  \/ /\ \A k \in DOMAIN queue : queue[k].type # "sl_get_scanners"
     /\ UNCHANGED queue

change_channel ==
  /\ Running /\ channel < MaxChannels
  /\ channel' = channel + 1
  /\ reader' = IdleReader
  /\ drop_list_signal
  /\ UNCHANGED <<buttons, fetch, fetches, calls, disk_vars, pages, lost, crashed>>

\* A call in flight calls back into the freed service: the process ends, or
\* the signal, which is connected to nothing, is lost.
FreedFetch ==
  /\ Running /\ fetch.on \in 1..channel - 1
  /\ \/ crashed' = "freed" /\ UNCHANGED <<fetch, lost>>
     \/ fetch' = NoFetch /\ lost' = lost \cup {"refresh"} /\ UNCHANGED crashed
  /\ UNCHANGED <<channel, buttons, fetches, reader, calls, disk_vars, queue, pages>>

FreedReader(c) ==
  /\ Running /\ calls[c].on < channel /\ calls[c].at # "over"
  /\ \/ crashed' = "freed" /\ UNCHANGED <<calls, lost>>
     \/ /\ calls' = [calls EXCEPT ![c].at = "over"]
        /\ lost' = lost \cup {"scan"}
        /\ UNCHANGED crashed
  /\ UNCHANGED <<channel, buttons, fetch, fetches, reader, disk_vars, queue, pages>>

-----------------------------------------------------------------------------
User == on_clicked_get_scanners \/ sl_clicked
FetchStep == Answered \/ FreedFetch
CallStep(c) ==
  OnReadDone(c) \/ OnDone(c) \/ OnDoneResets(c) \/ OnDoneSignals(c) \/ FreedReader(c)

Next ==
  \/ User \/ FetchStep \/ Exec \/ change_channel
  \/ \E c \in DOMAIN calls : CallStep(c)

\* A call is answered and a stream ends (EveryCallEnds of ScanReactorProps, and
\* a connection that breaks fails the calls on it); the event loop runs.
Fairness ==
  /\ WF_vars(Exec) /\ WF_vars(FetchStep)
  /\ \A c \in 1..MaxScans : WF_vars(c \in DOMAIN calls /\ CallStep(c))

Spec == Init /\ [][Next]_vars /\ Fairness

-----------------------------------------------------------------------------
TypeOK ==
  /\ channel \in 1..MaxChannels
  /\ refresh_enabled \in BOOLEAN /\ scan_enabled \in BOOLEAN /\ items \subseteq Scanners
  /\ fetch.rpc \in {"none", "refresh_scanners", "get_scanners"} /\ fetch.on \in 0..channel
  /\ fetches \in 0..MaxFetches /\ Len(calls) \in 0..MaxScans
  /\ reader.in_progress \in BOOLEAN
  /\ reader.context \in {None} \cup DOMAIN calls /\ reader.file \in {None} \cup DOMAIN files
  /\ \A c \in DOMAIN calls :
       /\ calls[c].on \in 1..channel /\ calls[c].read \in 0..Len(Document) + 1
       /\ calls[c].at \in {"open", "cleared", "reset", "over"}
       /\ calls[c].status \in {"none", "OK", "failed"}
  /\ \A f \in DOMAIN files : files[f].path \in Names /\ files[f].size \in Nat
  /\ lost \subseteq {"refresh", "scan"}
  /\ crashed \in {"no", "null_scanner", "context", "short_file", "freed"}

Overtaken(c) == \E d \in DOMAIN calls : c \in calls[d].overtook

\* The name of c's file is that of an earlier one: the sequence number has
\* wrapped around, and the clock reads the same once cut to its width.
NameCameUpAgain(c) ==
  \E d \in 1..c - 1 :
    /\ files[calls[d].file].path = files[calls[c].file].path
    /\ calls[c].made - calls[d].made >= 2^SEQ_BITS

(* A page shows the scan whose status let it in, whole and nothing else,   *)
(* however calls, lists and changes of channel interleave: the file handed *)
(* over with a status is the one that call was written to.  Two cases are  *)
(* excepted.  A scan started between the two statements of OnDone that     *)
(* clear m_in_progress and signal has its own, unfinished file handed over *)
(* with the status of the one before; and a name that comes up again       *)
(* (2^12 names and a multiple of 2^44 ns later) makes the scan a           *)
(* continuation of an old file.                                            *)
FileHoldsScan ==
  \A page \in pages :
    \/ page.shows = [i \in DOMAIN Document |-> <<page.call, Document[i]>>]
    \/ Overtaken(page.call)
    \/ NameCameUpAgain(page.call)

(* What can end the process, and only that: a click on Scan with no        *)
(* scanner listed needs a list that became empty before the end of a scan  *)
(* was shown; the context of a running call is deleted, or a page made of  *)
(* a file that is too short, only where a scan was started inside OnDone;  *)
(* a freed service is called back only where the channel changed with a    *)
(* call in flight.                                                         *)
MisuseHasCause ==
  /\ crashed = "null_scanner" =>
       /\ items = {} /\ fetches > 1
       /\ \E c \in DOMAIN calls : calls[c].at = "over"
  /\ crashed \in {"context", "short_file"} =>
       \E c \in DOMAIN calls : Overtaken(c)
  /\ crashed = "freed" =>
       \/ fetch.on \in 1..channel - 1
       \/ \E c \in DOMAIN calls : calls[c].on < channel /\ calls[c].at # "over"

(* A button the user has pressed comes back: Refresh when the list came or *)
(* failed, Scan when the scan ended, also when the click started none,     *)
(* unless no scanner is left, the process ended, or the answer it waits    *)
(* for went to a service freed by a change of channel.                     *)
ButtonsComeBack ==
  /\ ~refresh_enabled ~> (refresh_enabled \/ "refresh" \in lost \/ ~Running)
  /\ ~scan_enabled /\ items # {} ~>
       (scan_enabled \/ items = {} \/ "scan" \in lost \/ ~Running)
=============================================================================
