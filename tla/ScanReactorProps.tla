-------------------------- MODULE ScanReactorProps --------------------------
(***************************************************************************)
(* What the Scan RPC must guarantee.                                       *)
(***************************************************************************)
EXTENDS ScanReactor

\* A device is used by one call after the other, as by one client that waits
\* for each scan to end; calls with different devices overlap freely.
NoSharing ==
  \A e \in Calls :
    DeviceOf[e] # NoDevice /\ pc_ctor[e] = "new" /\ pc_ctor'[e] # "new" =>
      \A o \in Calls : DeviceOf[o] = DeviceOf[e] =>
        pc_ctor[o] = "new" \/ pc_done[o] = "deleted"

NoSharingSpec == Init /\ [][Next /\ NoSharing]_vars

-----------------------------------------------------------------------------
Item(c, item) == \E i \in DOMAIN stream[c] : stream[c][i] = item
Status(c) == IF \E s \in Statuses : Item(c, s)
             THEN CHOOSE s \in Statuses : Item(c, s) ELSE "none"

\* The first n chunks of the scan behind a handle.
Scanned(h, n) == [i \in 1..n |-> <<h, i>>]

\* The threads of a call that will issue its next write.
Writing(c) ==
  {w \in WriteThreads :
     pc_write[c][w] \in {"write_ok", "write_failed", "read", "sane_read",
                         "write_more", "write_eof"}}

CtorRunning(c) == pc_ctor[c] # "returned"

\* gRPC permits one outstanding write per stream, and next_packet may only
\* run when the previous write is complete: at no time are a write and a
\* thread about to write, or two such threads, in the same call.  The members
\* m_byte_data and m_buffer have no lock and depend on it.
OneWriteAtATime ==
  \A c \in Calls :
    /\ outstanding[c] <= 1
    /\ \A w \in Writing(c) :
         Writing(c) = {w} /\ outstanding[c] = 0 /\ ~CtorRunning(c)

\* Finish can be reached by the constructor and by two OnWriteDone threads at
\* once (write failed, read failed, end of scan): the client is sent exactly
\* one status, and m_finished says whether it was.
OneStatus ==
  \A c \in Calls :
    /\ \A i, j \in DOMAIN stream[c] :
         stream[c][i] \in Statuses /\ stream[c][j] \in Statuses => i = j
    /\ m_finished[c] <=> \E s \in Statuses : Item(c, s)

\* No chunk is lost, repeated or taken from another scan: what a call sent,
\* followed by what it is about to send, is what was read from its handle.
ChunksInOrder ==
  \A c \in Calls :
    /\ \E n \in 0..Chunks : sent[c] = Scanned(c, n)
    /\ \A w \in WriteThreads :
         pc_write[c][w] \in {"sane_read", "write_more", "write_eof"} =>
           sent[c] \o m_byte_data[c] = Scanned(c, position[c])

\* The client is told OK only after the last chunk of the scan was sent:
\* next_packet must write the last packet before it finishes.
OkMeansComplete ==
  \A c \in Calls : Item(c, "OK") => sent[c] = Scanned(c, Chunks)

\* Who is to blame for a call that fails.  Once its parameters were sent it
\* fails only for a cause of its own: its client is gone or its scanner failed,
\* whatever calls use other CSaneDevice objects, of the same scanner too.
\* Before that it is ABORTED for want of a device, or CANCELLED because the
\* scanner could not be opened or started or its parameters read: to be open for
\* another call is a reason for the first of these.
FailureHasCause ==
  \A c \in Calls :
    /\ Item(c, "ABORTED") => IF Item(c, "params") THEN broken[c] \/ c \in jammed
                                                 ELSE DeviceOf[c] = NoDevice
    /\ Item(c, "UNKNOWN") => Item(c, "params") /\ broken[c]
    /\ Item(c, "CANCELLED") => ~Item(c, "params") /\ DeviceOf[c] # NoDevice

\* When a reactor has deleted itself the handle it opened is closed, and
\* unless another call is at work on it, its device is as before the first
\* open().
NoHandleLeaked ==
  \A c \in Calls :
    pc_done[c] = "deleted" /\ DeviceOf[c] # NoDevice =>
      /\ HandleOf(c) \notin opened \cup started
      /\ (\A b \in Calls : DeviceOf[b] = DeviceOf[c] =>
            pc_ctor[b] = "new" \/ pc_done[b] = "deleted")
         => /\ m_handle[DeviceOf[c]] = NoHandle
            /\ m_current_state[DeviceOf[c]] = "CLOSED"

\* The only misuse of the SANE API a lone call can commit: cancel(), unlike
\* close(), does not test m_handle, so a client that cancels a call whose
\* sane_open failed has sane_cancel called with no handle.
OnlyCancelMisuses ==
  fault # "none" =>
    /\ fault = "null_handle"
    /\ \E c \in Calls : broken[c] /\ pc_cancel[c] = "restore"
                        /\ stream[c] = <<"CANCELLED">>

\* A device is closed only by the call that opened it: no step of one call
\* takes the handle of another out of use.
OthersHandlesStay ==
  [][\A c \in Calls :
       c \in opened \ opened' => pc_done[c] = "sane_close"]_vars

\* Every call that was made comes to its end, cancelled or not, with its
\* reactor deleted (unless the process is no more).
EveryCallEnds ==
  \A c \in Calls :
    pc_ctor[c] # "new" ~> pc_done[c] = "deleted" \/ fault # "none"

\* Every call keeps the promise of a Scan RPC (ScanStream), whatever the other
\* calls do.
Stream(c) == INSTANCE ScanStream WITH
  Document  <- Scanned(c, Chunks),
  called    <- pc_ctor[c] # "new",
  announced <- Item(c, "params"),
  data      <- sent[c],
  status    <- Status(c)

KeepsPromise ==
  /\ \A c \in Calls : Stream(c)!Init
  /\ [][\A c \in Calls : [Stream(c)!Next]_(Stream(c)!vars)]_vars

\* The mock backend asserts that what is read has been started
\* (sane_wrapper/mock/SaneMock.cpp:223, "Invalid read. Reading from a device
\* that has not started.").
MockReadsStarted == fault # "not_started"

\* The mock backend asserts that a device is cancelled before it is closed
\* (sane_wrapper/mock/SaneMock.cpp:179, "Device action was not cancelled
\* before closing.").
MockClosesCancelled == fault # "not_cancelled"
=============================================================================
