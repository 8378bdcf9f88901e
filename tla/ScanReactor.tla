---------------------------- MODULE ScanReactor ----------------------------
(***************************************************************************)
(* The Scan RPC of the server: CScanResponseReactor                        *)
(* (server/src/Reactors/ScanResponseReactor.cpp) driven by the gRPC        *)
(* callback API, reading from CSaneDevice objects.                         *)
(*                                                                         *)
(* A reactor is entered by four kinds of thread, each with its own pc:     *)
(*   - the constructor, in the handler of the RPC;                         *)
(*   - OnWriteDone.  gRPC may run it as soon as the write is complete, on  *)
(*     any of its threads, so also while the OnWriteDone that issued the   *)
(*     write has not returned: WriteThreads are the threads available;     *)
(*   - OnCancel, at most once, at any time after the constructor returned; *)
(*   - OnDone, last and alone, when the status was sent, no write is       *)
(*     outstanding and every other callback has returned.                  *)
(* A step of a thread is one access to a shared object: one SANE call, one *)
(* test of the device's fields, one call of gRPC, one use of m_finished.   *)
(***************************************************************************)
EXTENDS SaneDevice

CONSTANTS
  WriteThreads,  \* the gRPC threads that can run OnWriteDone of one call
  PacketChunks   \* how many 2048 byte buffers fill a response (10240 bytes)

ASSUME ReactorAssumption ==
  /\ WriteThreads # {}
  /\ PacketChunks \in Nat \ {0}

VARIABLES
  pc_ctor,      \* the thread running the constructor, of every call
  pc_write,     \* the threads running OnWriteDone, of every call
  pc_cancel,    \* the thread running OnCancel, of every call
  pc_done,      \* the thread running OnDone, of every call
  old_state,    \* the local of CSaneDevice::cancel
  m_byte_data,  \* what was read since reset_response
  m_finished,   \* Finish was called
  outstanding,  \* writes handed to gRPC and not yet completed
  stream,       \* what was handed to gRPC, in order: responses and status
  sent,         \* the scan data of all those responses, concatenated
  broken        \* the client cancelled, or is gone

reactor_vars == <<old_state, m_byte_data, m_finished>>
grpc_vars    == <<outstanding, stream, sent>>
vars == <<sane_vars, pc_ctor, pc_write, pc_cancel, pc_done, reactor_vars,
          grpc_vars, broken>>

CtorPc   == {"new", "open", "start", "sane_start", "params", "sane_params",
             "finish_CANCELLED", "finish_ABORTED", "returned"}
WritePc  == {"idle", "write_ok", "write_failed", "read", "sane_read",
             "write_more", "write_eof",
             "finish_OK", "finish_ABORTED", "finish_UNKNOWN"}
CancelPc == {"idle", "cancel", "sane_cancel", "restore", "returned"}
DonePc   == {"idle", "close", "sane_cancel", "sane_close", "reset", "deleted"}

Statuses == {"OK", "ABORTED", "CANCELLED", "UNKNOWN"}
Items    == {"params", "data", "empty"} \cup Statuses
Chunk    == Handles \X (1..Chunks)

\* Where a thread calls Finish with a status.
FinishPc(status) ==
  CASE status = "OK"        -> "finish_OK"
    [] status = "ABORTED"   -> "finish_ABORTED"
    [] status = "CANCELLED" -> "finish_CANCELLED"
    [] status = "UNKNOWN"   -> "finish_UNKNOWN"

TypeOK ==
  /\ SaneTypeOK
  /\ pc_ctor \in [Calls -> CtorPc]
  /\ pc_write \in [Calls -> [WriteThreads -> WritePc]]
  /\ pc_cancel \in [Calls -> CancelPc]
  /\ pc_done \in [Calls -> DonePc]
  /\ old_state \in [Calls -> EState]
  /\ m_byte_data \in [Calls -> Seq(Chunk)]
  /\ m_finished \in [Calls -> BOOLEAN]
  /\ outstanding \in [Calls -> Nat]
  /\ stream \in [Calls -> Seq(Items)]
  /\ sent \in [Calls -> Seq(Chunk)]
  /\ broken \in [Calls -> BOOLEAN]

Init ==
  /\ SaneInit
  /\ pc_ctor = [c \in Calls |-> "new"]
  /\ pc_write = [c \in Calls |-> [w \in WriteThreads |-> "idle"]]
  /\ pc_cancel = [c \in Calls |-> "idle"]
  /\ pc_done = [c \in Calls |-> "idle"]
  /\ old_state = [c \in Calls |-> "CLOSED"]
  /\ m_byte_data = [c \in Calls |-> <<>>]
  /\ m_finished = [c \in Calls |-> FALSE]
  /\ outstanding = [c \in Calls |-> 0]
  /\ stream = [c \in Calls |-> <<>>]
  /\ sent = [c \in Calls |-> <<>>]
  /\ broken = [c \in Calls |-> FALSE]

\* A failed assertion or a crash stops every thread.
Running == fault = "none"

-----------------------------------------------------------------------------
(* What a thread asks of gRPC.                                             *)

StartWrite(c, item, data) ==
  /\ outstanding' = [outstanding EXCEPT ![c] = @ + 1]
  /\ stream' = [stream EXCEPT ![c] = Append(@, item)]
  /\ sent' = [sent EXCEPT ![c] = @ \o data]

\* Mutant: m_finished is not tested.
FinishAgain(c, status) ==
  /\ m_finished' = [m_finished EXCEPT ![c] = TRUE]
  /\ stream' = [stream EXCEPT ![c] = Append(@, status)]
  /\ UNCHANGED <<old_state, m_byte_data, outstanding, sent>>

\* Finish: the first call sends the status, the others return.
Finish(c, status) ==
  /\ m_finished' = [m_finished EXCEPT ![c] = TRUE]
  /\ stream' = IF m_finished[c] THEN stream
               ELSE [stream EXCEPT ![c] = Append(@, status)]
  /\ UNCHANGED <<old_state, m_byte_data, outstanding, sent>>

-----------------------------------------------------------------------------
(* The constructor: start_scan.                                            *)

CtorGoto(c, from, to) ==
  /\ Running /\ pc_ctor[c] = from
  /\ pc_ctor' = [pc_ctor EXCEPT ![c] = to]
  /\ UNCHANGED <<pc_write, pc_cancel, pc_done, broken>>

\* CScannerService::Scan: a reactor for the device, or the empty reactor.
Scan(c) ==
  /\ CtorGoto(c, "new", IF DeviceOf[c] = NoDevice
                        THEN "finish_ABORTED" ELSE "open")
  /\ UNCHANGED <<sane_vars, reactor_vars, grpc_vars>>

Open(c) ==
  /\ \/ CtorGoto(c, "open", "start") /\ OpenGood(DeviceOf[c], HandleOf(c))
     \/ CtorGoto(c, "open", "finish_CANCELLED") /\ OpenFails(DeviceOf[c])
  /\ UNCHANGED <<reactor_vars, grpc_vars>>

Start(c) ==
  /\ CtorGoto(c, "start", IF StartPermitted(DeviceOf[c])
                          THEN "sane_start" ELSE "finish_CANCELLED")
  /\ UNCHANGED <<sane_vars, reactor_vars, grpc_vars>>

SaneStart(c) ==
  /\ \/ CtorGoto(c, "sane_start", "params") /\ SaneStartGood(DeviceOf[c])
     \/ /\ CtorGoto(c, "sane_start", "finish_CANCELLED")
        /\ SaneStartFails(DeviceOf[c])
  /\ UNCHANGED <<reactor_vars, grpc_vars>>

\* refresh_parameters: the test of m_handle.
Params(c) ==
  /\ CtorGoto(c, "params", IF m_handle[DeviceOf[c]] = NoHandle
                           THEN "finish_CANCELLED" ELSE "sane_params")
  /\ UNCHANGED <<sane_vars, reactor_vars, grpc_vars>>

\* sane_get_parameters, then the first response: parameters and no data.
SaneParams(c) ==
  LET h == m_handle[DeviceOf[c]] IN
  /\ \/ /\ CtorGoto(c, "sane_params", "returned")
        /\ h # NoHandle
        /\ StartWrite(c, "params", <<>>)
     \/ /\ CtorGoto(c, "sane_params", "finish_CANCELLED")
        /\ ~Mock \/ h = NoHandle
        /\ UNCHANGED grpc_vars
  /\ fault' = Misuse(h)
  /\ UNCHANGED <<device_vars, opened, started, cancelled, position, jammed,
                 reactor_vars>>

CtorFinish(c) ==
  /\ \E status \in {"CANCELLED", "ABORTED"} :
       /\ CtorGoto(c, FinishPc(status), "returned")
       /\ Finish(c, status)
  /\ UNCHANGED sane_vars

-----------------------------------------------------------------------------
(* OnWriteDone: next_packet.                                               *)

WriteGoto(c, w, from, to) ==
  /\ Running /\ pc_write[c][w] = from
  /\ pc_write' = [pc_write EXCEPT ![c][w] = to]
  /\ UNCHANGED <<pc_ctor, pc_cancel, pc_done, broken>>

\* Mutants of OnWriteDone: the previous packet is not cleared; a failed write
\* does not finish the call; m_finished is not tested.
OnWriteDoneNoReset(c, w) ==
  /\ WriteGoto(c, w, "write_ok", IF m_finished[c] THEN "idle" ELSE "read")
  /\ UNCHANGED <<sane_vars, reactor_vars, grpc_vars>>

OnWriteDoneNoFinish(c, w) ==
  /\ UNCHANGED <<sane_vars, old_state, m_finished, grpc_vars>>
  /\ \/ /\ WriteGoto(c, w, "write_ok", IF m_finished[c] THEN "idle" ELSE "read")
        /\ m_byte_data' = [m_byte_data EXCEPT ![c] = <<>>]
     \/ WriteGoto(c, w, "write_failed", "idle") /\ UNCHANGED m_byte_data

\* The test of m_finished.  A packet is begun by reset_response.
OnWriteDone(c, w) ==
  /\ UNCHANGED <<sane_vars, old_state, m_finished, grpc_vars>>
  /\ \/ /\ ~m_finished[c]
        /\ WriteGoto(c, w, "write_ok", "read")
        /\ m_byte_data' = [m_byte_data EXCEPT ![c] = <<>>]
     \/ /\ ~m_finished[c]
        /\ WriteGoto(c, w, "write_failed", "finish_UNKNOWN")
        /\ UNCHANGED m_byte_data
     \/ /\ m_finished[c]
        /\ \E ok \in {"write_ok", "write_failed"} : WriteGoto(c, w, ok, "idle")
        /\ UNCHANGED m_byte_data

\* CSaneDevice::read: the test.
Read(c, w) ==
  /\ WriteGoto(c, w, "read", IF ReadPermitted(DeviceOf[c])
                             THEN "sane_read" ELSE "finish_ABORTED")
  /\ UNCHANGED <<sane_vars, reactor_vars, grpc_vars>>

\* Mutant: data that comes with EOF is not appended.
ReadDataNotOfEof(c, w) ==
  LET h == m_handle[DeviceOf[c]]
      data == Append(m_byte_data[c], <<h, position[h] + 1>>)
      eof == position[h] + 1 = Chunks
  IN /\ pc_write[c][w] = "sane_read"
     /\ SaneReadGood(DeviceOf[c])
     /\ \/ /\ m_byte_data' = [m_byte_data EXCEPT ![c] = data]
           /\ WriteGoto(c, w, "sane_read",
                        IF Len(data) >= PacketChunks THEN "write_more" ELSE "read")
        \/ /\ eof /\ UNCHANGED m_byte_data
           /\ WriteGoto(c, w, "sane_read", "write_eof")
     /\ UNCHANGED <<old_state, m_finished, grpc_vars>>

\* sane_read returned data.  A full packet is written whatever the status;
\* otherwise EOF (which a driver may return along with the last chunk) ends
\* the loop and GOOD goes round it.
ReadData(c, w) ==
  LET h == m_handle[DeviceOf[c]]
      data == Append(m_byte_data[c], <<h, position[h] + 1>>)
      eof == ~Mock /\ position[h] + 1 = Chunks
  IN /\ pc_write[c][w] = "sane_read"
     /\ SaneReadGood(DeviceOf[c])
     /\ m_byte_data' = [m_byte_data EXCEPT ![c] = data]
     /\ \E next \in IF Len(data) >= PacketChunks THEN {"write_more"}
                    ELSE {"read"} \cup (IF eof THEN {"write_eof"} ELSE {}) :
          WriteGoto(c, w, "sane_read", next)
     /\ UNCHANGED <<old_state, m_finished, grpc_vars>>

\* Mutant: every failure to read is taken for the end of the scan.
ReadErrorIsEof(c, w) ==
  /\ WriteGoto(c, w, "sane_read", "write_eof")
  /\ SaneReadEof(DeviceOf[c]) \/ SaneReadFails(DeviceOf[c])
  /\ UNCHANGED <<reactor_vars, grpc_vars>>

\* sane_read returned no data: EOF, or an error.
ReadNothing(c, w) ==
  /\ \/ /\ WriteGoto(c, w, "sane_read", "write_eof")
        /\ SaneReadEof(DeviceOf[c])
     \/ /\ WriteGoto(c, w, "sane_read", "finish_ABORTED")
        /\ SaneReadFails(DeviceOf[c])
  /\ UNCHANGED <<reactor_vars, grpc_vars>>

\* Mutant: reading goes on after a full packet was written.
WriteResponseGoesOn(c, w) ==
  /\ \/ WriteGoto(c, w, "write_more", "read")
     \/ WriteGoto(c, w, "write_eof", "finish_OK")
  /\ StartWrite(c, IF m_byte_data[c] = <<>> THEN "empty" ELSE "data",
                m_byte_data[c])
  /\ UNCHANGED <<sane_vars, reactor_vars>>

\* write_response: a full packet ends the callback, the last one goes on to
\* Finish while gRPC may already report the write as done.
WriteResponse(c, w) ==
  /\ \/ WriteGoto(c, w, "write_more", "idle")
     \/ WriteGoto(c, w, "write_eof", "finish_OK")
  /\ StartWrite(c, IF m_byte_data[c] = <<>> THEN "empty" ELSE "data",
                m_byte_data[c])
  /\ UNCHANGED <<sane_vars, reactor_vars>>

WriteFinish(c, w) ==
  /\ \E status \in {"OK", "ABORTED", "UNKNOWN"} :
       /\ WriteGoto(c, w, FinishPc(status), "idle")
       /\ Finish(c, status)
  /\ UNCHANGED sane_vars

-----------------------------------------------------------------------------
(* OnCancel: CSaneDevice::cancel.  The empty reactor's OnCancel does       *)
(* nothing.                                                                *)

CancelGoto(c, from, to) ==
  /\ Running /\ pc_cancel[c] = from
  /\ pc_cancel' = [pc_cancel EXCEPT ![c] = to]
  /\ UNCHANGED <<pc_ctor, pc_write, pc_done, m_byte_data, m_finished,
                 grpc_vars, broken>>

OnCancel(c) ==
  \/ /\ DeviceOf[c] # NoDevice
     /\ CancelGoto(c, "cancel", "sane_cancel")
     /\ old_state' = [old_state EXCEPT ![c] = m_current_state[DeviceOf[c]]]
     /\ BeginCancel(DeviceOf[c])
  \/ /\ DeviceOf[c] = NoDevice
     /\ CancelGoto(c, "cancel", "returned")
     /\ UNCHANGED <<sane_vars, old_state>>

CancelDevice(c) ==
  \/ /\ CancelGoto(c, "sane_cancel", "restore")
     /\ CallCancel(DeviceOf[c])
     /\ UNCHANGED old_state
  \/ /\ CancelGoto(c, "restore", "returned")
     /\ EndCancel(DeviceOf[c], old_state[c])
     /\ UNCHANGED old_state

-----------------------------------------------------------------------------
(* OnDone: CSaneDevice::close, then the reactor deletes itself.            *)

DoneGoto(c, from, to) ==
  /\ Running /\ pc_done[c] = from
  /\ pc_done' = [pc_done EXCEPT ![c] = to]
  /\ UNCHANGED <<pc_ctor, pc_write, pc_cancel, reactor_vars, grpc_vars, broken>>

\* Mutant: close() does not test m_handle.
OnDoneUntested(c) ==
  /\ DoneGoto(c, "close", IF DeviceOf[c] = NoDevice THEN "deleted"
                          ELSE "sane_cancel")
  /\ UNCHANGED sane_vars

OnDone(c) ==
  \/ /\ DeviceOf[c] # NoDevice
     /\ DoneGoto(c, "close", IF m_handle[DeviceOf[c]] = NoHandle
                             THEN "deleted" ELSE "sane_cancel")
     /\ UNCHANGED sane_vars
  \/ /\ DeviceOf[c] = NoDevice
     /\ DoneGoto(c, "close", "deleted")
     /\ UNCHANGED sane_vars

CloseDevice(c) ==
  \/ DoneGoto(c, "sane_cancel", "sane_close") /\ CallCancel(DeviceOf[c])
  \/ DoneGoto(c, "sane_close", "reset") /\ CallClose(DeviceOf[c])
  \/ DoneGoto(c, "reset", "deleted") /\ EndClose(DeviceOf[c])

-----------------------------------------------------------------------------
(* gRPC and the client (external).                                         *)

\* A write completes on a free thread; it can fail once the call is broken.
\* Writes of the constructor are held back until it has returned.
DeliverWriteDone(c, w) ==
  /\ outstanding[c] > 0 /\ pc_ctor[c] = "returned"
  /\ outstanding' = [outstanding EXCEPT ![c] = @ - 1]
  /\ \/ WriteGoto(c, w, "idle", "write_ok")
     \/ broken[c] /\ WriteGoto(c, w, "idle", "write_failed")
  /\ UNCHANGED <<sane_vars, reactor_vars, stream, sent>>

\* The client cancels or disconnects.
ClientCancels(c) ==
  /\ Running
  /\ pc_ctor[c] # "new" /\ pc_done[c] = "idle" /\ ~broken[c]
  /\ broken' = [broken EXCEPT ![c] = TRUE]
  /\ UNCHANGED <<sane_vars, pc_ctor, pc_write, pc_cancel, pc_done,
                 reactor_vars, grpc_vars>>

DeliverCancel(c) ==
  /\ broken[c] /\ pc_ctor[c] = "returned"
  /\ CancelGoto(c, "idle", "cancel")
  /\ UNCHANGED <<sane_vars, old_state>>

DeliverDone(c) ==
  /\ m_finished[c] /\ outstanding[c] = 0
  /\ pc_ctor[c] = "returned"
  /\ \A w \in WriteThreads : pc_write[c][w] = "idle"
  /\ pc_cancel[c] = IF broken[c] THEN "returned" ELSE "idle"
  /\ DoneGoto(c, "idle", "close")
  /\ UNCHANGED sane_vars

ScannerError(c) ==
  /\ Running /\ Jam(c)
  /\ UNCHANGED <<pc_ctor, pc_write, pc_cancel, pc_done, reactor_vars,
                 grpc_vars, broken>>

-----------------------------------------------------------------------------
CtorStep(c) == Open(c) \/ Start(c) \/ SaneStart(c) \/ Params(c)
               \/ SaneParams(c) \/ CtorFinish(c)

WriteStep(c, w) == OnWriteDone(c, w) \/ Read(c, w) \/ ReadData(c, w)
                   \/ ReadNothing(c, w) \/ WriteResponse(c, w)
                   \/ WriteFinish(c, w) \/ DeliverWriteDone(c, w)

CancelStep(c) == DeliverCancel(c) \/ OnCancel(c) \/ CancelDevice(c)

DoneStep(c) == DeliverDone(c) \/ OnDone(c) \/ CloseDevice(c)

ClientStep(c) == Scan(c) \/ ClientCancels(c) \/ ScannerError(c)

Next ==
  \E c \in Calls :
    \/ ClientStep(c)
    \/ CtorStep(c)
    \/ \E w \in WriteThreads : WriteStep(c, w)
    \/ CancelStep(c)
    \/ DoneStep(c)

\* gRPC keeps its callbacks coming, SANE calls return; a client need not call.
Fairness ==
  \A c \in Calls :
    /\ WF_vars(CtorStep(c))
    /\ \A w \in WriteThreads : WF_vars(WriteStep(c, w))
    /\ WF_vars(CancelStep(c))
    /\ WF_vars(DoneStep(c))

Spec     == Init /\ [][Next]_vars
FairSpec == Spec /\ Fairness
=============================================================================
