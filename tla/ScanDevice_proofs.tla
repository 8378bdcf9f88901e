--------------------------- MODULE ScanDevice_proofs ---------------------------
(***************************************************************************)
(* Proofs about the calls of ScanReactor and the devices they use, for a   *)
(* real driver (~Mock) and clients that use a device for one scan after    *)
(* the other (NoSharingSpec), whatever the number of calls, devices and    *)
(* threads, and whatever the length of a scan and of a packet.             *)
(***************************************************************************)
EXTENDS ScanReactor_proofs

Step(c) ==
  \/ ClientStep(c) \/ CtorStep(c) \/ CancelStep(c) \/ DoneStep(c)
  \/ \E w \in WriteThreads : WriteStep(c, w)

LEMMA StepFrame ==
  ASSUME TypeInv, NEW c \in Calls, Step(c)
  PROVE  OthersSame(c)
  BY FrameClient, FrameCtor, FrameWrite, FrameCancel, FrameDone DEF Step

LEMMA NextIsStep == Next <=> \E c \in Calls : Step(c)
  BY DEF Next, Step

-----------------------------------------------------------------------------
(* The order of the callbacks of one call.                                 *)

\* A packet of the call is being written, or a callback for one is at work.
Engaged(c) == outstanding[c] # 0 \/ \E w \in WriteThreads : pc_write[c][w] # "idle"

\* What a callback of gRPC may follow.
Order(c) ==
  /\ pc_ctor[c] # "returned" =>
       /\ ~Engaged(c) /\ pc_cancel[c] = "idle" /\ pc_done[c] = "idle"
       /\ stream[c] = <<>> /\ sent[c] = <<>> /\ ~m_finished[c]
  /\ pc_cancel[c] # "idle" => broken[c]
  /\ pc_done[c] # "idle" =>
       /\ ~Engaged(c) /\ m_finished[c]
       /\ pc_cancel[c] = IF broken[c] THEN "returned" ELSE "idle"
  /\ Engaged(c) => Item(c, "params")

\* What is appended to a stream is in it, with what was there.
LEMMA ItemAppended ==
  ASSUME TypeInv, NEW c \in Calls, NEW x \in Items, stream'[c] = Append(stream[c], x),
         NEW y
  PROVE  Item(c, y)' <=> Item(c, y) \/ y = x
  BY AppendItem DEF Item, TypeInv, TypeOK

\* What the constructor's steps do to the rest of the reactor.
LEMMA CtorShape ==
  ASSUME TypeInv, NEW c \in Calls, Scan(c) \/ CtorStep(c)
  PROVE  /\ pc_ctor[c] # "returned"
         /\ UNCHANGED <<pc_write, pc_cancel, pc_done, broken, old_state, m_byte_data>>
         /\ \/ /\ pc_ctor'[c] # "returned"
               /\ UNCHANGED <<outstanding, stream, sent, m_finished>>
            \/ /\ pc_ctor[c] = "sane_params" /\ pc_ctor'[c] = "returned"
               /\ StartWrite(c, "params", <<>>) /\ UNCHANGED m_finished
            \/ /\ pc_ctor'[c] = "returned"
               /\ \E status \in {"CANCELLED", "ABORTED"} :
                    pc_ctor[c] = FinishPc(status) /\ Finish(c, status)
<1>1. ASSUME NEW from, NEW to, CtorGoto(c, from, to)
      PROVE  pc_ctor[c] = from /\ pc_ctor'[c] = to
  BY <1>1 DEF CtorGoto, TypeInv, TypeOK
<1>2. CASE Scan(c) \/ Open(c) \/ Start(c) \/ SaneStart(c) \/ Params(c)
  BY <1>1, <1>2 DEF Scan, Open, Start, SaneStart, Params, CtorGoto, reactor_vars, grpc_vars
<1>3. CASE SaneParams(c)
  BY <1>1, <1>3 DEF SaneParams, CtorGoto, reactor_vars, grpc_vars
<1>4. CASE CtorFinish(c)
  BY <1>1, <1>4 DEF CtorFinish, CtorGoto, Finish, FinishPc
<1>5. QED
  BY <1>2, <1>3, <1>4 DEF CtorStep

\* What the steps of OnWriteDone do to it.
LEMMA WriteShape ==
  ASSUME TypeInv, NEW c \in Calls, NEW w \in WriteThreads, WriteStep(c, w)
  PROVE  /\ Engaged(c)
         /\ UNCHANGED <<pc_ctor, pc_cancel, pc_done, broken, old_state>>
         /\ \/ UNCHANGED <<stream, sent>>
            \/ /\ \E x \in {"data", "empty"} : stream'[c] = Append(stream[c], x)
               /\ sent'[c] = sent[c] \o m_byte_data[c]
            \/ /\ \E x \in Statuses : stream'[c] = Append(stream[c], x)
               /\ sent' = sent
<1>1. UNCHANGED <<pc_ctor, pc_cancel, pc_done, broken>>
  BY WriteGotoType
<1>2. CASE OnWriteDone(c, w) \/ Read(c, w) \/ ReadData(c, w) \/ ReadNothing(c, w)
  BY <1>1, <1>2
  DEF OnWriteDone, Read, ReadData, ReadNothing, WriteGoto, Engaged, reactor_vars, grpc_vars
<1>3. CASE WriteResponse(c, w)
  BY <1>1, <1>3
  DEF WriteResponse, WriteGoto, StartWrite, Engaged, reactor_vars, TypeInv, TypeOK
<1>4. CASE WriteFinish(c, w)
  <2>1. PICK status \in {"OK", "ABORTED", "UNKNOWN"} :
          WriteGoto(c, w, FinishPc(status), "idle") /\ Finish(c, status)
    BY <1>4 DEF WriteFinish
  <2>2. Engaged(c)
    BY <2>1 DEF WriteGoto, FinishPc, Engaged
  <2>3. QED
    BY <1>1, <2>1, <2>2 DEF Finish, Statuses, TypeInv, TypeOK
<1>5. CASE DeliverWriteDone(c, w)
  BY <1>1, <1>5 DEF DeliverWriteDone, Engaged, reactor_vars
<1>6. QED
  BY <1>2, <1>3, <1>4, <1>5 DEF WriteStep

\* What the remaining steps do to it.
LEMMA RestShape ==
  ASSUME TypeInv, NEW c \in Calls,
         ClientCancels(c) \/ ScannerError(c) \/ CancelStep(c) \/ DoneStep(c)
  PROVE  UNCHANGED <<pc_ctor, pc_write, m_byte_data, m_finished, outstanding, stream, sent>>
  BY DEF ClientCancels, ScannerError, CancelStep, DeliverCancel, OnCancel, CancelDevice,
         DoneStep, DeliverDone, OnDone, CloseDevice, CancelGoto, DoneGoto, reactor_vars,
         grpc_vars

LEMMA OrderOwn ==
  ASSUME TypeInv, NEW c \in Calls, Order(c), Step(c)
  PROVE  Order(c)'
<1>1. CASE Scan(c) \/ CtorStep(c)
  <2>1. /\ ~Engaged(c) /\ pc_cancel[c] = "idle" /\ pc_done[c] = "idle"
        /\ stream[c] = <<>> /\ sent[c] = <<>> /\ ~m_finished[c]
    BY <1>1, CtorShape DEF Order
  <2>2. /\ UNCHANGED <<pc_write, pc_cancel, pc_done, broken>>
    BY <1>1, CtorShape
  <2>3. CASE pc_ctor'[c] # "returned"
    <3>1. UNCHANGED <<outstanding, stream, sent, m_finished>>
      BY <1>1, <2>3, CtorShape
    <3>2. QED
      BY <2>1, <2>2, <3>1 DEF Order, Engaged, Item
  <2>4. CASE StartWrite(c, "params", <<>>) /\ pc_ctor'[c] = "returned"
    <3>1. stream'[c] = Append(stream[c], "params") /\ "params" \in Items
      BY <2>4 DEF StartWrite, Items, TypeInv, TypeOK
    <3>2. Item(c, "params")'
      BY <3>1, ItemAppended
    <3>3. QED
      BY <2>1, <2>2, <2>4, <3>2 DEF Order
  <2>5. CASE pc_ctor'[c] = "returned" /\ \E status \in {"CANCELLED", "ABORTED"} : Finish(c, status)
    BY <2>1, <2>2, <2>5 DEF Order, Finish, Engaged
  <2>6. QED
    BY <1>1, <2>3, <2>4, <2>5, CtorShape
<1>2. CASE \E w \in WriteThreads : WriteStep(c, w)
  <2>1. PICK w \in WriteThreads : WriteStep(c, w)
    BY <1>2
  <2>2. /\ Engaged(c) /\ UNCHANGED <<pc_ctor, pc_cancel, pc_done, broken>>
        /\ stream' = stream \/ \E x \in Items : stream'[c] = Append(stream[c], x)
    BY <2>1, WriteShape DEF Items
  <2>3. pc_ctor[c] = "returned" /\ pc_done[c] = "idle" /\ Item(c, "params")
    BY <2>2 DEF Order
  <2>4. Item(c, "params")'
    BY <2>2, <2>3, ItemAppended DEF Item
  <2>5. QED
    BY <2>2, <2>3, <2>4 DEF Order
<1>3. CASE ClientCancels(c) \/ ScannerError(c)
  BY <1>3, RestShape
  DEF ClientCancels, ScannerError, Order, Engaged, Item, TypeInv, TypeOK
<1>4. CASE CancelStep(c)
  <2>1. UNCHANGED <<pc_done, broken>> /\ pc_done[c] = "idle"
    BY <1>4 DEF CancelStep, DeliverCancel, OnCancel, CancelDevice, CancelGoto, Order
  <2>2. broken[c] /\ pc_ctor[c] = "returned"
    BY <1>4 DEF CancelStep, DeliverCancel, OnCancel, CancelDevice, CancelGoto, Order
  <2>3. QED
    BY <1>4, <2>1, <2>2, RestShape DEF Order, Engaged, Item
<1>5. CASE DoneStep(c)
  <2>1. UNCHANGED <<pc_cancel, broken>>
    BY <1>5 DEF DoneStep, DeliverDone, OnDone, CloseDevice, DoneGoto
  <2>2. /\ pc_ctor[c] = "returned" /\ ~Engaged(c) /\ m_finished[c]
        /\ pc_cancel[c] = IF broken[c] THEN "returned" ELSE "idle"
    BY <1>5 DEF DoneStep, DeliverDone, OnDone, CloseDevice, DoneGoto, Order, Engaged
  <2>3. QED
    BY <1>5, <2>1, <2>2, RestShape DEF Order, Engaged, Item
<1>6. QED
  BY <1>1, <1>2, <1>3, <1>4, <1>5 DEF Step, ClientStep

\* The steps of other calls.
LEMMA OrderOthers ==
  ASSUME NEW c \in Calls, NEW b \in Calls \ {c}, Order(b), OthersSame(c)
  PROVE  Order(b)'
  BY DEF Order, OthersSame, Engaged, Item

\* What holds of the reactors, whatever the backend and whoever shares devices.
ReactorInv == OneWriteInv /\ OneStatusInv /\ \A c \in Calls : Order(c)

LEMMA ReactorInit == Init => ReactorInv
<1>1. ASSUME Init PROVE OneWriteInv
  BY <1>1, TypeInit DEF Init, OneWriteInv, OneWrite, WritingPc
<1>2. ASSUME Init PROVE OneStatusInv
  BY <1>2, TypeInit DEF Init, OneStatusInv, OneStatusCall
<1>3. ASSUME Init, NEW c \in Calls PROVE Order(c)
  BY <1>3 DEF Init, Order, Engaged
<1>4. QED
  BY <1>1, <1>2, <1>3 DEF ReactorInv

LEMMA ReactorStep == ReactorInv /\ [Next]_vars => ReactorInv'
<1>1. ASSUME ReactorInv, UNCHANGED vars PROVE \A c \in Calls : Order(c)'
  BY <1>1 DEF ReactorInv, Order, Engaged, Item, vars, grpc_vars, reactor_vars
<1>2. ASSUME ReactorInv, NEW c \in Calls, Step(c) PROVE \A b \in Calls : Order(b)'
  BY <1>2, StepFrame, OrderOwn, OrderOthers DEF ReactorInv, OneWriteInv
<1>3. QED
  BY <1>1, <1>2, NextIsStep, OneWriteStep, OneStatusStep DEF ReactorInv
-----------------------------------------------------------------------------
(* The devices.  A call is active from Scan until its reactor is deleted,  *)
(* and no two active calls have the same device.  What the active call     *)
(* knows of its device is indexed by where its threads are; an inactive    *)
(* call has left nothing behind, and a device no active call has is as new. *)

Active(c) == DeviceOf[c] # NoDevice /\ pc_ctor[c] # "new" /\ pc_done[c] # "deleted"

Handle(c) == m_handle[DeviceOf[c]]
State(c)  == m_current_state[DeviceOf[c]]

\* The scan of a call has been started.
Scanning(c) == pc_ctor[c] \in {"params", "sane_params"} \/ Engaged(c)

\* What an active call knows of its device, which no other call uses meanwhile.
Owned(c) ==
  /\ pc_ctor[c] # "finish_ABORTED"
  /\ Handle(c) \in {NoHandle, c}
  /\ c \in opened <=> Handle(c) = c /\ pc_done[c] # "reset"
  /\ c \in started => c \in opened
  /\ pc_ctor[c] \in {"start", "sane_start"} => Handle(c) = c
  /\ pc_done[c] \in {"sane_cancel", "sane_close", "reset"} => Handle(c) = c
  /\ pc_ctor[c] = "open" => Handle(c) = NoHandle
  /\ Scanning(c) => Handle(c) = c
  /\ Scanning(c) /\ pc_cancel[c] \in {"idle", "cancel"} => State(c) = "STARTED" /\ c \in started
  /\ Handle(c) = NoHandle =>
       /\ pc_cancel[c] \in {"idle", "cancel"} => State(c) = "CLOSED"
       /\ fault = "none" => pc_cancel[c] \notin {"restore", "returned"}
       /\ pc_ctor[c] = "returned" => stream[c] = <<"CANCELLED">>

\* The devices.
DeviceInv ==
  /\ \A c \in Calls : IF Active(c) THEN Owned(c) ELSE c \notin opened \cup started
  /\ \A b, c \in Calls : Active(b) /\ Active(c) /\ DeviceOf[b] = DeviceOf[c] => b = c
  /\ \A d \in Devices : (\A c \in Calls : Active(c) => DeviceOf[c] # d) =>
       m_handle[d] = NoHandle /\ m_current_state[d] = "CLOSED"


\* A step of c touches no device but its own, and no handle but its own.
OtherDevicesSame(c) ==
  /\ \A d \in Devices \ {DeviceOf[c]} :
       m_handle'[d] = m_handle[d] /\ m_current_state'[d] = m_current_state[d]
  /\ \A b \in Calls \ {c} :
       /\ b \in opened' <=> b \in opened
       /\ b \in started' <=> b \in started
       /\ b \in jammed' <=> b \in jammed
       /\ position'[b] = position[b]

LEMMA DeviceStep ==
  ASSUME ~Mock, TypeInv, NEW c \in Calls, Step(c), DeviceOf[c] \in Devices,
         Handle(c) \in {NoHandle, c}
  PROVE  OtherDevicesSame(c)
<1>0. /\ m_handle \in [Devices -> Handles \cup {NoHandle}]
      /\ m_current_state \in [Devices -> EState]
      /\ position \in [Handles -> 0..Chunks]
      /\ Calls \subseteq Handles /\ NoHandle \notin Calls
      /\ HandleOf(c) = c
  BY SaneAssumption DEF TypeInv, TypeOK, SaneTypeOK, Handles, HandleOf
<1>1. UNCHANGED sane_vars => OtherDevicesSame(c)
  BY DEF sane_vars, OtherDevicesSame
<1>2. CASE ClientStep(c)
  BY <1>1, <1>2
  DEF ClientStep, Scan, ClientCancels, ScannerError, Jam, device_vars, OtherDevicesSame
<1>3. CASE CtorStep(c)
  <2>1. CASE Open(c)
    BY <1>0, <1>1, <2>1 DEF Open, OpenGood, OpenFails, OtherDevicesSame
  <2>2. CASE SaneStart(c)
    BY <1>0, <2>2
    DEF SaneStart, SaneStartGood, SaneStartFails, sane_start, Handle, device_vars,
        OtherDevicesSame
  <2>3. CASE SaneParams(c)
    BY <2>3 DEF SaneParams, device_vars, OtherDevicesSame
  <2>4. CASE Start(c) \/ Params(c) \/ CtorFinish(c)
    BY <1>1, <2>4 DEF Start, Params, CtorFinish
  <2>5. QED
    BY <1>3, <2>1, <2>2, <2>3, <2>4 DEF CtorStep
<1>4. CASE \E w \in WriteThreads : WriteStep(c, w)
  <2>1. PICK w \in WriteThreads : WriteStep(c, w)
    BY <1>4
  <2>2. CASE ReadData(c, w)
    BY <1>0, <2>2
    DEF ReadData, SaneReadGood, SaneReadable, Handle, device_vars, OtherDevicesSame
  <2>3. CASE ReadNothing(c, w)
    BY <1>1, <2>3
    DEF ReadNothing, SaneReadEof, SaneReadFails, device_vars, OtherDevicesSame
  <2>4. CASE ~ReadData(c, w) /\ ~ReadNothing(c, w)
    BY <1>1, <2>1, <2>4
    DEF WriteStep, OnWriteDone, Read, WriteResponse, WriteFinish, DeliverWriteDone
  <2>5. QED
    BY <2>2, <2>3, <2>4
<1>5. ASSUME CallCancel(DeviceOf[c]) \/ CallClose(DeviceOf[c]) PROVE OtherDevicesSame(c)
  BY <1>0, <1>5
  DEF CallCancel, CallClose, sane_cancel, sane_close, Handle, device_vars, OtherDevicesSame
<1>6. CASE CancelStep(c)
  BY <1>0, <1>1, <1>5, <1>6
  DEF CancelStep, DeliverCancel, OnCancel, BeginCancel, CancelDevice, EndCancel,
      backend_vars, OtherDevicesSame
<1>7. CASE DoneStep(c)
  BY <1>0, <1>1, <1>5, <1>7
  DEF DoneStep, DeliverDone, OnDone, CloseDevice, EndClose, backend_vars, OtherDevicesSame
<1>8. QED
  BY <1>2, <1>3, <1>4, <1>6, <1>7 DEF Step

\* A call without a device touches none.
LEMMA EmptyStep ==
  ASSUME ~Mock, TypeInv, NEW c \in Calls, Step(c), DeviceOf[c] = NoDevice,
         c \notin started
  PROVE  UNCHANGED sane_vars
<1>1. /\ pc_ctor[c] \in {"new", "finish_ABORTED", "returned"}
      /\ \A w \in WriteThreads : pc_write[c][w] = "idle"
      /\ outstanding[c] = 0
      /\ pc_cancel[c] \in {"idle", "cancel", "returned"}
      /\ pc_done[c] \in {"idle", "close", "deleted"}
  BY DEF TypeInv, EmptyReactor
<1>2. CASE ClientStep(c)
  BY <1>2 DEF ClientStep, Scan, ClientCancels, ScannerError, Jam
<1>3. CASE CtorStep(c)
  BY <1>1, <1>3
  DEF CtorStep, Open, Start, SaneStart, Params, SaneParams, CtorFinish, CtorGoto
<1>4. ASSUME NEW w \in WriteThreads, WriteStep(c, w) PROVE FALSE
  BY <1>1, <1>4, WriteShape DEF Engaged
<1>5. CASE CancelStep(c)
  BY <1>1, <1>5 DEF CancelStep, DeliverCancel, OnCancel, CancelDevice, CancelGoto
<1>6. CASE DoneStep(c)
  BY <1>1, <1>6 DEF DoneStep, DeliverDone, OnDone, CloseDevice, DoneGoto
<1>7. QED
  BY <1>2, <1>3, <1>4, <1>5, <1>6 DEF Step

\* Only an active call, or one about to be, takes a step on a device.
LEMMA StepActive ==
  ASSUME TypeInv, NEW c \in Calls, Order(c), Step(c), DeviceOf[c] # NoDevice,
         ~Active(c) => c \notin started
  PROVE  /\ fault = "none"
         /\ Active(c) \/ Scan(c)
<1>1. CASE pc_ctor[c] = "new"
  <2>1. ~Engaged(c) /\ pc_cancel[c] = "idle" /\ pc_done[c] = "idle" /\ c \notin started
    BY <1>1 DEF Order, Active
  <2>2. ~CtorStep(c)
    BY <1>1
    DEF CtorStep, Open, Start, SaneStart, Params, SaneParams, CtorFinish, CtorGoto, FinishPc
  <2>3. ~\E w \in WriteThreads : WriteStep(c, w)
    BY <2>1, WriteShape
  <2>4. ~CancelStep(c) /\ ~DoneStep(c)
    BY <1>1, <2>1
    DEF CancelStep, DeliverCancel, OnCancel, CancelDevice, CancelGoto, DoneStep,
        DeliverDone, OnDone, CloseDevice, DoneGoto
  <2>5. Scan(c)
    BY <1>1, <2>1, <2>2, <2>3, <2>4 DEF Step, ClientStep, ClientCancels, ScannerError, Jam
  <2>6. QED
    BY <2>5 DEF Scan, CtorGoto, Running
<1>2. CASE pc_ctor[c] # "new" /\ pc_done[c] = "deleted"
  <2>1. /\ ~Engaged(c) /\ pc_cancel[c] = (IF broken[c] THEN "returned" ELSE "idle")
        /\ pc_ctor[c] = "returned" /\ c \notin started
    BY <1>2 DEF Order, Active
  <2>2. ~Scan(c) /\ ~CtorStep(c)
    BY <2>1, CtorShape
  <2>3. ~\E w \in WriteThreads : WriteStep(c, w)
    BY <2>1, WriteShape
  <2>4. ~CancelStep(c) /\ ~DoneStep(c)
    BY <1>2, <2>1
    DEF CancelStep, DeliverCancel, OnCancel, CancelDevice, CancelGoto, DoneStep,
        DeliverDone, OnDone, CloseDevice, DoneGoto
  <2>5. QED
    BY <1>2, <2>1, <2>2, <2>3, <2>4 DEF Step, ClientStep, ClientCancels, ScannerError, Jam
<1>3. CASE Active(c)
  BY <1>3
  DEF Step, ClientStep, Scan, ClientCancels, ScannerError, CtorStep, Open, Start, SaneStart,
      Params, SaneParams, CtorFinish, WriteStep, OnWriteDone, Read, ReadData, ReadNothing,
      WriteResponse, WriteFinish, DeliverWriteDone, CancelStep, DeliverCancel, OnCancel,
      CancelDevice, DoneStep, DeliverDone, OnDone, CloseDevice, CtorGoto, WriteGoto,
      CancelGoto, DoneGoto, Running
<1>4. QED
  BY <1>1, <1>2, <1>3 DEF Active

\* What an active call knows survives the steps of others.
LEMMA OwnedOthers ==
  ASSUME TypeInv, NEW c \in Calls, NEW b \in Calls \ {c}, fault = "none",
         OthersSame(c), OtherDevicesSame(c) \/ UNCHANGED sane_vars,
         DeviceOf[b] \in Devices \ {DeviceOf[c]}, Owned(b)
  PROVE  Owned(b)'
<1>1. /\ Handle(b)' = Handle(b) /\ State(b)' = State(b)
      /\ b \in opened' <=> b \in opened
      /\ b \in started' <=> b \in started
  BY DEF OtherDevicesSame, sane_vars, Handle, State
<1>2. /\ pc_ctor'[b] = pc_ctor[b] /\ pc_cancel'[b] = pc_cancel[b]
      /\ pc_done'[b] = pc_done[b] /\ stream'[b] = stream[b]
      /\ Engaged(b)' <=> Engaged(b)
  BY DEF OthersSame, Engaged
<1>3. QED
  BY <1>1, <1>2 DEF Owned, Scanning

-----------------------------------------------------------------------------
(* What the steps of an active call do to what it knows.                   *)

\* Scan: the device is one no active call has.
LEMMA OwnedScan ==
  ASSUME TypeInv, NEW c \in Calls, Order(c), Scan(c), DeviceOf[c] \in Devices,
         c \notin opened \cup started,
         Handle(c) = NoHandle, State(c) = "CLOSED"
  PROVE  Owned(c)' /\ Active(c)'
<1>1. /\ pc_ctor[c] = "new" /\ pc_ctor'[c] = "open" /\ UNCHANGED sane_vars
      /\ UNCHANGED <<pc_write, pc_cancel, pc_done, stream, outstanding>>
  BY SaneAssumption DEF Scan, CtorGoto, grpc_vars, TypeInv, TypeOK
<1>2. ~Engaged(c) /\ pc_cancel[c] = "idle" /\ pc_done[c] = "idle"
  BY <1>1 DEF Order
<1>3. c # NoHandle
  BY SaneAssumption
<1>4. Handle(c)' = NoHandle /\ State(c)' = "CLOSED" /\ c \notin opened' \cup started'
  BY <1>1 DEF Handle, State, sane_vars
<1>5. pc_cancel'[c] = "idle" /\ pc_done'[c] = "idle" /\ ~Engaged(c)'
  BY <1>1, <1>2 DEF Engaged
<1>6. QED
  BY <1>1, <1>3, <1>4, <1>5, SaneAssumption DEF Owned, Scanning, Active
\* The constructor opens the device and starts the scan, or gives up.
LEMMA OwnedCtor ==
  ASSUME ~Mock, TypeInv, NEW c \in Calls, Order(c), CtorStep(c),
         DeviceOf[c] \in Devices, Active(c), Owned(c)
  PROVE  Owned(c)' /\ Active(c)'
<1>0. /\ pc_ctor[c] # "returned" /\ ~Engaged(c) /\ pc_cancel[c] = "idle"
      /\ pc_done[c] = "idle" /\ stream[c] = <<>> /\ ~m_finished[c]
      /\ UNCHANGED <<pc_write, pc_cancel, pc_done>>
  BY CtorShape DEF Order
<1>1. c # NoHandle /\ HandleOf(c) = c
  BY SaneAssumption DEF HandleOf
<1>2. ASSUME NEW from, NEW to, CtorGoto(c, from, to)
      PROVE  pc_ctor[c] = from /\ pc_ctor'[c] = to
  BY <1>2 DEF CtorGoto, TypeInv, TypeOK
<1>3. pc_cancel'[c] = "idle" /\ pc_done'[c] = "idle"
  BY <1>0
<1>4. UNCHANGED outstanding => ~Engaged(c)'
  BY <1>0 DEF Engaged
<1>5. CASE Open(c)
  <2>1. pc_ctor[c] = "open" /\ UNCHANGED <<outstanding, stream>>
    BY <1>2, <1>5 DEF Open, grpc_vars
  <2>2. Handle(c) = NoHandle /\ State(c) = "CLOSED" /\ c \notin opened \cup started
    BY <1>0, <1>1, <2>1 DEF Owned
  <2>3. CASE pc_ctor'[c] = "start" /\ OpenGood(DeviceOf[c], c)
    <3>1. Handle(c)' = c /\ c \in opened' /\ started' = started
      BY <2>3 DEF OpenGood, Handle, TypeInv, TypeOK, SaneTypeOK
    <3>2. QED
      BY <1>1, <1>3, <1>4, <2>1, <2>2, <2>3, <3>1 DEF Owned, Scanning, Active
  <2>4. CASE pc_ctor'[c] = "finish_CANCELLED" /\ OpenFails(DeviceOf[c])
    <3>1. Handle(c)' = NoHandle /\ State(c)' = "CLOSED" /\ c \notin opened' \cup started'
      BY <2>2, <2>4 DEF OpenFails, Handle, State, sane_vars
    <3>2. QED
      BY <1>1, <1>3, <1>4, <2>1, <2>4, <3>1 DEF Owned, Scanning, Active
  <2>5. QED
    BY <1>1, <1>2, <1>5, <2>3, <2>4 DEF Open
<1>6. CASE Start(c) \/ Params(c)
  <2>1. /\ UNCHANGED sane_vars /\ UNCHANGED <<outstanding, stream>>
        /\ \/ pc_ctor[c] = "start" /\ pc_ctor'[c] \in {"sane_start", "finish_CANCELLED"}
           \/ pc_ctor[c] = "params" /\ pc_ctor'[c] \in {"sane_params", "finish_CANCELLED"}
    BY <1>2, <1>6 DEF Start, Params, grpc_vars
  <2>2. Handle(c) = c
    BY <2>1 DEF Owned, Scanning
  <2>3. /\ Handle(c)' = Handle(c) /\ State(c)' = State(c)
        /\ opened' = opened /\ started' = started
    BY <2>1 DEF Handle, State, sane_vars
  <2>4. QED
    BY <1>0, <1>1, <1>3, <1>4, <2>1, <2>2, <2>3 DEF Owned, Scanning, Active
<1>7. CASE SaneStart(c)
  <2>1. pc_ctor[c] = "sane_start" /\ UNCHANGED <<outstanding, stream>>
    BY <1>2, <1>7 DEF SaneStart, grpc_vars
  <2>2. Handle(c) = c /\ c \in opened
    BY <1>0, <2>1 DEF Owned
  <2>3. CASE pc_ctor'[c] = "params" /\ SaneStartGood(DeviceOf[c])
    <3>1. /\ Handle(c)' = c /\ State(c)' = "STARTED"
          /\ c \in opened' /\ c \in started'
      BY <2>2, <2>3
      DEF SaneStartGood, sane_start, Handle, State, TypeInv, TypeOK, SaneTypeOK
    <3>2. QED
      BY <1>1, <1>3, <1>4, <2>1, <2>3, <3>1 DEF Owned, Scanning, Active
  <2>4. CASE pc_ctor'[c] = "finish_CANCELLED" /\ SaneStartFails(DeviceOf[c])
    <3>1. Handle(c)' = c /\ opened' = opened /\ started' = started
      BY <2>2, <2>4 DEF SaneStartFails, Handle, device_vars
    <3>2. QED
      BY <1>1, <1>3, <1>4, <2>1, <2>2, <2>4, <3>1 DEF Owned, Scanning, Active
  <2>5. QED
    BY <1>2, <1>7, <2>3, <2>4 DEF SaneStart
<1>8. CASE SaneParams(c)
  <2>1. /\ pc_ctor[c] = "sane_params" /\ pc_ctor'[c] \in {"returned", "finish_CANCELLED"}
        /\ Handle(c)' = Handle(c) /\ State(c)' = State(c)
        /\ opened' = opened /\ started' = started
    BY <1>2, <1>8 DEF SaneParams, Handle, State, device_vars
  <2>2. Handle(c) = c /\ c \in opened /\ State(c) = "STARTED" /\ c \in started
    BY <1>0, <2>1 DEF Owned, Scanning
  <2>3. QED
    BY <1>1, <1>3, <2>1, <2>2 DEF Owned, Active
<1>9. CASE CtorFinish(c)
  <2>1. /\ pc_ctor[c] = "finish_CANCELLED" /\ pc_ctor'[c] = "returned"
        /\ Finish(c, "CANCELLED") /\ UNCHANGED sane_vars
    BY <1>2, <1>9 DEF CtorFinish, FinishPc, Owned
  <2>2. stream'[c] = <<"CANCELLED">> /\ UNCHANGED outstanding
    BY <1>0, <2>1 DEF Finish, TypeInv, TypeOK
  <2>3. /\ Handle(c)' = Handle(c) /\ State(c)' = State(c)
        /\ opened' = opened /\ started' = started
    BY <2>1 DEF Handle, State, sane_vars
  <2>4. QED
    BY <1>0, <1>1, <1>3, <1>4, <2>1, <2>2, <2>3 DEF Owned, Scanning, Active
<1>10. QED
  BY <1>5, <1>6, <1>7, <1>8, <1>9 DEF CtorStep

\* OnWriteDone leaves the device open and started.
LEMMA OwnedWrite ==
  ASSUME ~Mock, TypeInv, NEW c \in Calls, Order(c), NEW w \in WriteThreads, WriteStep(c, w),
         DeviceOf[c] \in Devices, Active(c), Owned(c)
  PROVE  Owned(c)' /\ Active(c)'
<1>1. Engaged(c) /\ UNCHANGED <<pc_ctor, pc_cancel, pc_done>>
  BY WriteShape
<1>2. pc_ctor[c] = "returned" /\ pc_done[c] = "idle" /\ Handle(c) = c /\ c # NoHandle
  BY <1>1, SaneAssumption DEF Order, Owned, Scanning
<1>3. UNCHANGED <<m_handle, m_current_state, opened, started>>
  BY DEF WriteStep, OnWriteDone, Read, ReadData, ReadNothing, SaneReadGood, SaneReadEof,
         SaneReadFails, WriteResponse, WriteFinish, DeliverWriteDone, sane_vars, device_vars
<1>4. Handle(c)' = Handle(c) /\ State(c)' = State(c)
  BY <1>3 DEF Handle, State
<1>5. QED
  BY <1>1, <1>2, <1>3, <1>4 DEF Owned, Scanning, Active

\* OnCancel with no handle goes as far as sane_cancel.
LEMMA OwnedCancel ==
  ASSUME ~Mock, TypeInv, NEW c \in Calls, Order(c), CancelStep(c), fault = "none",
         DeviceOf[c] \in Devices, Active(c), Owned(c)
  PROVE  Owned(c)' /\ Active(c)'
<1>0. /\ c # NoHandle /\ DeviceOf[c] # NoDevice
      /\ UNCHANGED <<pc_ctor, pc_write, pc_done, outstanding, stream>>
  BY SaneAssumption
  DEF CancelStep, DeliverCancel, OnCancel, CancelDevice, CancelGoto, grpc_vars
<1>1. ASSUME NEW from, NEW to, CancelGoto(c, from, to)
      PROVE  pc_cancel[c] = from /\ pc_cancel'[c] = to
  BY <1>1 DEF CancelGoto, TypeInv, TypeOK
<1>2. /\ pc_ctor[c] = "returned" /\ pc_done[c] = "idle"
      /\ Engaged(c)' <=> Engaged(c)
      /\ Handle(c)' = Handle(c) /\ opened' = opened
  BY <1>0
  DEF CancelStep, DeliverCancel, OnCancel, CancelDevice, CancelGoto, Order, Engaged, Handle,
      BeginCancel, CallCancel, sane_cancel, EndCancel, sane_vars, device_vars, backend_vars
<1>3. CASE DeliverCancel(c)
  <2>1. pc_cancel[c] = "idle" /\ pc_cancel'[c] = "cancel"
    BY <1>1, <1>3 DEF DeliverCancel
  <2>2. State(c)' = State(c) /\ started' = started
    BY <1>3 DEF DeliverCancel, State, sane_vars
  <2>3. QED
    BY <1>0, <1>2, <2>1, <2>2 DEF Owned, Scanning, Active
<1>4. CASE OnCancel(c)
  <2>1. pc_cancel[c] = "cancel" /\ pc_cancel'[c] = "sane_cancel" /\ started' = started
    BY <1>0, <1>1, <1>4 DEF OnCancel, BeginCancel, backend_vars
  <2>2. QED
    BY <1>0, <1>2, <2>1 DEF Owned, Scanning, Active
<1>5. CASE CancelGoto(c, "sane_cancel", "restore") /\ CallCancel(DeviceOf[c])
  <2>1. pc_cancel'[c] = "restore" /\ started' = started \ {Handle(c)}
    BY <1>1, <1>5 DEF CallCancel, sane_cancel, Handle
  <2>2. Handle(c) = NoHandle => fault' # "none"
    BY <1>5 DEF CallCancel, sane_cancel, Misuse, Handle
  <2>3. QED
    BY <1>0, <1>2, <2>1, <2>2 DEF Owned, Scanning, Active
<1>6. CASE CancelGoto(c, "restore", "returned") /\ EndCancel(DeviceOf[c], old_state[c])
  <2>1. pc_cancel[c] = "restore" /\ pc_cancel'[c] = "returned" /\ UNCHANGED <<started, fault>>
    BY <1>1, <1>6 DEF EndCancel, backend_vars
  <2>2. Handle(c) = c
    BY <2>1 DEF Owned
  <2>3. QED
    BY <1>0, <1>2, <2>1, <2>2 DEF Owned, Scanning, Active
<1>7. QED
  BY <1>3, <1>4, <1>5, <1>6 DEF CancelStep, CancelDevice

\* OnDone closes the handle, if there is one, and the call is no longer active.
LEMMA OwnedDone ==
  ASSUME ~Mock, TypeInv, NEW c \in Calls, Order(c), DoneStep(c), fault = "none",
         DeviceOf[c] \in Devices, Active(c), Owned(c)
  PROVE  IF Active(c)' THEN Owned(c)'
         ELSE /\ c \notin opened' \cup started'
              /\ Handle(c)' = NoHandle /\ State(c)' = "CLOSED"
<1>0. /\ c # NoHandle /\ DeviceOf[c] # NoDevice
      /\ UNCHANGED <<pc_ctor, pc_write, pc_cancel, outstanding, stream>>
  BY SaneAssumption
  DEF DoneStep, DeliverDone, OnDone, CloseDevice, DoneGoto, grpc_vars
<1>1. ASSUME NEW from, NEW to, DoneGoto(c, from, to)
      PROVE  pc_done[c] = from /\ pc_done'[c] = to
  BY <1>1 DEF DoneGoto, TypeInv, TypeOK
<1>2. /\ pc_ctor[c] = "returned" /\ ~Engaged(c) /\ ~Engaged(c)'
      /\ pc_cancel[c] \in {"idle", "returned"}
  BY <1>0
  DEF DoneStep, DeliverDone, OnDone, CloseDevice, DoneGoto, Order, Engaged
<1>3. CASE DeliverDone(c) \/ OnDone(c)
  <2>1. /\ \/ pc_done[c] = "idle" /\ pc_done'[c] = "close"
           \/ pc_done[c] = "close" /\ Handle(c) = NoHandle /\ pc_done'[c] = "deleted"
           \/ pc_done[c] = "close" /\ Handle(c) # NoHandle /\ pc_done'[c] = "sane_cancel"
        /\ UNCHANGED sane_vars
    BY <1>0, <1>1, <1>3 DEF DeliverDone, OnDone, Handle
  <2>2. /\ Handle(c)' = Handle(c) /\ State(c)' = State(c)
        /\ opened' = opened /\ started' = started /\ fault' = fault
    BY <2>1 DEF Handle, State, sane_vars
  <2>3. QED
    BY <1>0, <1>2, <2>1, <2>2 DEF Owned, Scanning, Active
<1>4. CASE DoneGoto(c, "sane_cancel", "sane_close") /\ CallCancel(DeviceOf[c])
  <2>1. pc_done[c] = "sane_cancel" /\ pc_done'[c] = "sane_close"
    BY <1>1, <1>4
  <2>2. /\ Handle(c) = c /\ Handle(c)' = c
        /\ opened' = opened /\ started' = started \ {c}
    BY <1>4, <2>1 DEF CallCancel, sane_cancel, Handle, Owned, device_vars
  <2>3. QED
    BY <1>0, <1>2, <2>1, <2>2 DEF Owned, Scanning, Active
<1>5. CASE DoneGoto(c, "sane_close", "reset") /\ CallClose(DeviceOf[c])
  <2>1. pc_done[c] = "sane_close" /\ pc_done'[c] = "reset"
    BY <1>1, <1>5
  <2>2. /\ Handle(c) = c /\ Handle(c)' = c
        /\ opened' = opened \ {c} /\ started' = started \ {c}
    BY <1>5, <2>1 DEF CallClose, sane_close, Handle, Owned, device_vars
  <2>3. QED
    BY <1>0, <1>2, <2>1, <2>2 DEF Owned, Scanning, Active
<1>6. CASE DoneGoto(c, "reset", "deleted") /\ EndClose(DeviceOf[c])
  <2>1. pc_done[c] = "reset" /\ pc_done'[c] = "deleted"
    BY <1>1, <1>6
  <2>2. /\ Handle(c)' = NoHandle /\ State(c)' = "CLOSED"
        /\ opened' = opened /\ started' = started
    BY <1>6 DEF EndClose, Handle, State, backend_vars, TypeInv, TypeOK, SaneTypeOK
  <2>3. c \notin opened \cup started
    BY <2>1 DEF Owned
  <2>4. QED
    BY <2>1, <2>2, <2>3 DEF Active
<1>7. QED
  BY <1>3, <1>4, <1>5, <1>6 DEF DoneStep, CloseDevice

\* The client's cancellation and a jam leave the device as it is.
LEMMA OwnedClient ==
  ASSUME NEW c \in Calls, ClientCancels(c) \/ ScannerError(c), Active(c), Owned(c)
  PROVE  Owned(c)' /\ Active(c)'
<1>1. /\ UNCHANGED <<pc_ctor, pc_write, pc_cancel, pc_done, outstanding, stream>>
      /\ UNCHANGED <<m_handle, m_current_state, opened, started, fault>>
  BY DEF ClientCancels, ScannerError, Jam, grpc_vars, sane_vars, device_vars
<1>2. /\ Handle(c)' = Handle(c) /\ State(c)' = State(c)
      /\ Engaged(c)' <=> Engaged(c)
  BY <1>1 DEF Handle, State, Engaged
<1>3. QED
  BY <1>1, <1>2 DEF Owned, Scanning, Active
-----------------------------------------------------------------------------
(* The invariant of the devices.                                           *)

\* Every step of a call keeps what is known of the devices.  NoSharing is
\* what gives the device of a new call to no other.
LEMMA DeviceKept ==
  ASSUME ~Mock, ReactorInv, DeviceInv, NoSharing, NEW c \in Calls, Step(c)
  PROVE  DeviceInv'
<1>0. /\ TypeInv /\ \A b \in Calls : Order(b)
      /\ OthersSame(c)
      /\ DeviceOf \in [Calls -> Devices \cup {NoDevice}] /\ NoDevice \notin Devices
      /\ Calls \subseteq Handles /\ NoHandle \notin Calls
  BY StepFrame, SaneAssumption DEF ReactorInv, OneWriteInv, Handles
<1>1. \A b \in Calls \ {c} : Active(b)' <=> Active(b)
  BY <1>0 DEF OthersSame, Active
<1>2. CASE DeviceOf[c] = NoDevice
  <2>1. ~Active(c) /\ ~Active(c)' /\ c \notin opened \cup started
    BY <1>2 DEF Active, DeviceInv
  <2>2. UNCHANGED sane_vars
    BY <1>0, <1>2, <2>1, EmptyStep
  <2>3. fault = "none"
    BY DEF Step, ClientStep, Scan, ClientCancels, ScannerError, CtorStep, Open, Start,
           SaneStart, Params, SaneParams, CtorFinish, WriteStep, OnWriteDone, Read,
           ReadData, ReadNothing, WriteResponse, WriteFinish, DeliverWriteDone, CancelStep,
           DeliverCancel, OnCancel, CancelDevice, DoneStep, DeliverDone, OnDone,
           CloseDevice, CtorGoto, WriteGoto, CancelGoto, DoneGoto, Running
  <2>4. ASSUME NEW b \in Calls PROVE IF Active(b)' THEN Owned(b)' ELSE b \notin opened' \cup started'
    <3>1. CASE b = c
      BY <2>1, <2>2, <3>1 DEF sane_vars
    <3>2. CASE b # c /\ Active(b)
      <4>1. DeviceOf[b] \in Devices \ {DeviceOf[c]} /\ Owned(b)
        BY <1>0, <1>2, <3>2 DEF Active, DeviceInv
      <4>2. Owned(b)'
        BY <1>0, <2>2, <2>3, <3>2, <4>1, OwnedOthers
      <4>3. QED
        BY <1>1, <3>2, <4>2
    <3>3. CASE b # c /\ ~Active(b)
      BY <1>1, <2>2, <3>3 DEF DeviceInv, sane_vars
    <3>4. QED
      BY <3>1, <3>2, <3>3
  <2>5. \A b \in Calls : Active(b)' <=> Active(b)
    BY <1>1, <2>1
  <2>6. QED
    BY <2>2, <2>4, <2>5 DEF DeviceInv, sane_vars
<1>3. CASE DeviceOf[c] # NoDevice
  <2>1. DeviceOf[c] \in Devices
    BY <1>0, <1>3
  <2>2. fault = "none" /\ (Active(c) \/ Scan(c))
    BY <1>0, <1>3, StepActive DEF DeviceInv
  <2>3. CASE Active(c) /\ ~Scan(c)
    <3>1. Owned(c)
      BY <2>3 DEF DeviceInv
    <3>2. OtherDevicesSame(c)
      BY <1>0, <2>1, <3>1, DeviceStep DEF Owned
    <3>3. IF Active(c)' THEN Owned(c)'
          ELSE /\ c \notin opened' \cup started'
               /\ Handle(c)' = NoHandle /\ State(c)' = "CLOSED"
      BY <1>0, <2>1, <2>2, <2>3, <3>1, OwnedCtor, OwnedWrite, OwnedCancel, OwnedDone,
         OwnedClient DEF Step, ClientStep
    <3>4. \A b \in Calls \ {c} : Active(b) => DeviceOf[b] # DeviceOf[c]
      BY <2>3 DEF DeviceInv
    <3>5. ASSUME NEW b \in Calls \ {c}
          PROVE  IF Active(b)' THEN Owned(b)' ELSE b \notin opened' \cup started'
      <4>1. CASE Active(b)
        <5>1. DeviceOf[b] \in Devices \ {DeviceOf[c]} /\ Owned(b)
          BY <1>0, <3>4, <4>1 DEF Active, DeviceInv
        <5>2. QED
          BY <1>0, <1>1, <2>2, <3>2, <4>1, <5>1, OwnedOthers
      <4>2. CASE ~Active(b)
        BY <1>1, <3>2, <4>2 DEF DeviceInv, OtherDevicesSame
      <4>3. QED
        BY <4>1, <4>2
    <3>6. \A b \in Calls : Active(b)' => Active(b)
      BY <1>1, <2>3
    <3>7. ASSUME NEW d \in Devices, \A b \in Calls : Active(b)' => DeviceOf[b] # d
          PROVE  m_handle'[d] = NoHandle /\ m_current_state'[d] = "CLOSED"
      <4>1. CASE d = DeviceOf[c]
        BY <3>3, <3>7, <4>1 DEF Handle, State
      <4>2. CASE d # DeviceOf[c]
        BY <1>1, <3>2, <3>7, <4>2 DEF DeviceInv, OtherDevicesSame
      <4>3. QED
        BY <4>1, <4>2
    <3>8. QED
      BY <3>3, <3>5, <3>6, <3>7 DEF DeviceInv
  <2>4. CASE Scan(c)
    <3>1. pc_ctor[c] = "new" /\ pc_ctor'[c] # "new" /\ UNCHANGED sane_vars
      BY <1>0, <2>4 DEF Scan, CtorGoto, TypeInv, TypeOK
    <3>2. ~Active(c) /\ c \notin opened \cup started
      BY <3>1 DEF Active, DeviceInv
    <3>3. \A b \in Calls : Active(b) => DeviceOf[b] # DeviceOf[c]
      BY <1>3, <3>1 DEF NoSharing, Active
    <3>4. Handle(c) = NoHandle /\ State(c) = "CLOSED"
      BY <2>1, <3>3 DEF DeviceInv, Handle, State
    <3>5. Owned(c)' /\ Active(c)'
      BY <1>0, <2>1, <2>4, <3>2, <3>4, OwnedScan
    <3>6. ASSUME NEW b \in Calls \ {c}
          PROVE  IF Active(b)' THEN Owned(b)' ELSE b \notin opened' \cup started'
      <4>1. CASE Active(b)
        <5>1. DeviceOf[b] \in Devices \ {DeviceOf[c]} /\ Owned(b)
          BY <1>0, <3>3, <4>1 DEF Active, DeviceInv
        <5>2. QED
          BY <1>0, <1>1, <2>2, <3>1, <4>1, <5>1, OwnedOthers
      <4>2. CASE ~Active(b)
        BY <1>1, <3>1, <4>2 DEF DeviceInv, sane_vars
      <4>3. QED
        BY <4>1, <4>2
    <3>7. \A d \in Devices : (\A b \in Calls : Active(b)' => DeviceOf[b] # d) =>
            m_handle'[d] = NoHandle /\ m_current_state'[d] = "CLOSED"
      BY <1>1, <3>1, <3>2 DEF DeviceInv, sane_vars
    <3>8. \A a, b \in Calls : Active(a)' /\ Active(b)' /\ DeviceOf[a] = DeviceOf[b] => a = b
      BY <1>1, <3>3 DEF DeviceInv
    <3>9. QED
      BY <3>5, <3>6, <3>7, <3>8 DEF DeviceInv
  <2>5. QED
    BY <2>2, <2>3, <2>4
<1>4. QED
  BY <1>2, <1>3
-----------------------------------------------------------------------------
(* Misuse of the SANE API.                                                 *)

\* No thread steps once the process has stopped.
LEMMA StepRuns ==
  ASSUME NEW c \in Calls, Step(c)
  PROVE  fault = "none"
  BY DEF Step, ClientStep, Scan, ClientCancels, ScannerError, CtorStep, Open, Start,
         SaneStart, Params, SaneParams, CtorFinish, WriteStep, OnWriteDone, Read, ReadData,
         ReadNothing, WriteResponse, WriteFinish, DeliverWriteDone, CancelStep,
         DeliverCancel, OnCancel, CancelDevice, DoneStep, DeliverDone, OnDone, CloseDevice,
         CtorGoto, WriteGoto, CancelGoto, DoneGoto, Running

\* Every other SANE call is made with the handle the call opened and did not
\* close; OnCancel's is made with that or with none.
LEMMA MisuseStep ==
  ASSUME ~Mock, ReactorInv, DeviceInv, NEW c \in Calls, Step(c), fault' # "none"
  PROVE  /\ fault' = "null_handle"
         /\ broken'[c] /\ pc_cancel'[c] = "restore" /\ stream'[c] = <<"CANCELLED">>
<1>0. /\ TypeInv /\ Order(c) /\ fault = "none"
      /\ DeviceOf \in [Calls -> Devices \cup {NoDevice}] /\ NoHandle # c
  BY StepRuns, SaneAssumption DEF ReactorInv, OneWriteInv
<1>1. DeviceOf[c] \in Devices
  <2>1. CASE DeviceOf[c] = NoDevice
    <3>1. c \notin started
      BY <2>1 DEF DeviceInv, Active
    <3>2. fault' = fault
      BY <1>0, <2>1, <3>1, EmptyStep DEF sane_vars
    <3>3. QED
      BY <1>0, <3>2
  <2>2. QED
    BY <1>0, <2>1
<1>2. Active(c) \/ Scan(c)
  BY <1>0, <1>1, StepActive, SaneAssumption DEF DeviceInv
<1>3. ~Scan(c)
  BY <1>0 DEF Scan, sane_vars
<1>4. Owned(c)
  BY <1>2, <1>3 DEF DeviceInv
<1>5. Handle(c) = c /\ pc_done[c] # "reset" => Misuse(Handle(c)) = "none"
  BY <1>0, <1>4 DEF Owned, Misuse
<1>6. ~ClientStep(c)
  BY <1>0, <1>3 DEF ClientStep, ClientCancels, ScannerError, Jam, sane_vars
<1>7. ASSUME CtorStep(c) PROVE FALSE
  <2>1. pc_done[c] = "idle"
    BY <1>0, <1>7, CtorShape DEF Order
  <2>2. SaneStart(c) \/ SaneParams(c)
    BY <1>0, <1>7
    DEF CtorStep, Open, OpenGood, OpenFails, Start, Params, CtorFinish, sane_vars
  <2>3. pc_ctor[c] \in {"sane_start", "sane_params"}
    BY <2>2 DEF SaneStart, SaneParams, CtorGoto
  <2>4. Misuse(Handle(c)) = "none"
    BY <1>4, <1>5, <2>1, <2>3 DEF Owned, Scanning
  <2>5. QED
    BY <2>2, <2>4
    DEF SaneStart, SaneStartGood, SaneStartFails, sane_start, SaneParams, Handle
<1>8. ASSUME NEW w \in WriteThreads, WriteStep(c, w) PROVE FALSE
  <2>1. Engaged(c) /\ pc_done[c] = "idle"
    BY <1>0, <1>8, WriteShape DEF Order
  <2>2. Misuse(Handle(c)) = "none"
    BY <1>4, <1>5, <2>1 DEF Owned, Scanning
  <2>3. fault' = "none"
    BY <1>0, <1>8, <2>2
    DEF WriteStep, OnWriteDone, Read, ReadData, SaneReadGood, ReadNothing, SaneReadEof,
        SaneReadFails, WriteResponse, WriteFinish, DeliverWriteDone, Handle, sane_vars
  <2>4. QED
    BY <2>3
<1>9. ASSUME DoneStep(c) PROVE FALSE
  <2>1. CASE DoneGoto(c, "sane_cancel", "sane_close") /\ CallCancel(DeviceOf[c])
    BY <1>4, <1>5, <2>1 DEF DoneGoto, CallCancel, sane_cancel, Owned, Handle
  <2>2. CASE DoneGoto(c, "sane_close", "reset") /\ CallClose(DeviceOf[c])
    BY <1>4, <1>5, <2>2 DEF DoneGoto, CallClose, sane_close, Owned, Handle
  <2>3. CASE fault' = fault
    BY <1>0, <2>3
  <2>4. QED
    BY <1>9, <2>1, <2>2, <2>3
    DEF DoneStep, DeliverDone, OnDone, CloseDevice, EndClose, sane_vars, backend_vars
<1>10. CASE CancelStep(c)
  <2>1. CancelGoto(c, "sane_cancel", "restore") /\ CallCancel(DeviceOf[c])
    BY <1>0, <1>10
    DEF CancelStep, DeliverCancel, OnCancel, BeginCancel, CancelDevice, EndCancel,
        sane_vars, backend_vars
  <2>2. /\ pc_cancel[c] = "sane_cancel" /\ pc_cancel'[c] = "restore"
        /\ broken' = broken /\ stream' = stream /\ fault' = Misuse(Handle(c))
    BY <1>0, <2>1
    DEF CancelGoto, CallCancel, sane_cancel, Handle, TypeInv, TypeOK, grpc_vars
  <2>3. broken[c] /\ pc_ctor[c] = "returned" /\ pc_done[c] = "idle"
    BY <1>0, <2>2 DEF Order
  <2>4. Handle(c) = NoHandle
    BY <1>4, <1>5, <2>2, <2>3 DEF Owned
  <2>5. QED
    BY <1>4, <2>2, <2>3, <2>4 DEF Owned, Misuse
<1>11. QED
  BY <1>6, <1>7, <1>8, <1>9, <1>10 DEF Step

\* No step of another call, and none of its own but sane_close, takes a
\* handle out of use.
LEMMA CloseStep ==
  ASSUME ~Mock, ReactorInv, DeviceInv, NEW c \in Calls, Step(c),
         NEW b \in opened \ opened', b \in Calls
  PROVE  b = c /\ pc_done[c] = "sane_close"
<1>0. /\ TypeInv /\ Order(c)
      /\ DeviceOf \in [Calls -> Devices \cup {NoDevice}] /\ NoDevice \notin Devices
  BY SaneAssumption DEF ReactorInv, OneWriteInv
<1>1. DeviceOf[c] \in Devices
  <2>1. CASE DeviceOf[c] = NoDevice
    BY <1>0, <2>1, EmptyStep DEF DeviceInv, Active, sane_vars
  <2>2. QED
    BY <1>0, <2>1
<1>2. ~Scan(c)
  BY DEF Scan, sane_vars
<1>3. Owned(c)
  BY <1>0, <1>1, <1>2, StepActive DEF DeviceInv
<1>4. CASE DoneGoto(c, "sane_close", "reset") /\ CallClose(DeviceOf[c])
  BY <1>3, <1>4 DEF DoneGoto, CallClose, sane_close, Owned, Handle
<1>5. CASE ~(DoneGoto(c, "sane_close", "reset") /\ CallClose(DeviceOf[c]))
  <2>1. opened \subseteq opened'
    BY <1>5
    DEF Step, ClientStep, Scan, ClientCancels, ScannerError, Jam, CtorStep, Open, OpenGood,
        OpenFails, Start, SaneStart, SaneStartGood, SaneStartFails, sane_start, Params,
        SaneParams, CtorFinish, WriteStep, OnWriteDone, Read, ReadData, SaneReadGood,
        ReadNothing, SaneReadEof, SaneReadFails, WriteResponse, WriteFinish,
        DeliverWriteDone, CancelStep, DeliverCancel, OnCancel, BeginCancel, CancelDevice,
        CallCancel, sane_cancel, EndCancel, DoneStep, DeliverDone, OnDone, CloseDevice,
        EndClose, sane_vars, backend_vars
  <2>2. QED
    BY <2>1
<1>6. QED
  BY <1>4, <1>5

-----------------------------------------------------------------------------
(* Theorems.                                                               *)

Inv == ReactorInv /\ DeviceInv /\ OnlyCancelMisuses

LEMMA InvInit == Init => Inv
<1>1. ASSUME Init PROVE DeviceInv
  BY <1>1 DEF Init, SaneInit, DeviceInv, Active
<1>2. ASSUME Init PROVE OnlyCancelMisuses
  BY <1>2 DEF Init, SaneInit, OnlyCancelMisuses
<1>3. QED
  BY <1>1, <1>2, ReactorInit DEF Inv

LEMMA InvStep ==
  ASSUME ~Mock, Inv, [Next /\ NoSharing]_vars
  PROVE  Inv'
<1>1. ReactorInv'
  BY ReactorStep DEF Inv
<1>2. CASE UNCHANGED vars
  <2>1. UNCHANGED sane_vars /\ UNCHANGED <<pc_ctor, pc_write, pc_cancel, pc_done>>
        /\ UNCHANGED <<outstanding, stream, broken>>
    BY <1>2 DEF vars, grpc_vars
  <2>2. DeviceInv'
    BY <2>1 DEF Inv, DeviceInv, Active, Owned, Scanning, Engaged, Handle, State, sane_vars
  <2>3. OnlyCancelMisuses'
    BY <2>1 DEF Inv, OnlyCancelMisuses, sane_vars
  <2>4. QED
    BY <1>1, <2>2, <2>3 DEF Inv
<1>3. CASE Next /\ NoSharing
  <2>1. PICK c \in Calls : Step(c)
    BY <1>3, NextIsStep
  <2>2. DeviceInv'
    BY <1>3, <2>1, DeviceKept DEF Inv
  <2>3. OnlyCancelMisuses'
    BY <2>1, MisuseStep DEF Inv, OnlyCancelMisuses
  <2>4. QED
    BY <1>1, <2>2, <2>3 DEF Inv
<1>4. QED
  BY <1>2, <1>3

LEMMA InvAlways ==
  ASSUME ~Mock
  PROVE  NoSharingSpec => []Inv
<1>1. Inv /\ [Next /\ NoSharing]_vars => Inv'
  BY InvStep
<1>2. QED
  BY <1>1, InvInit, PTL DEF NoSharingSpec

\* Calls whose devices are all different share none, so whatever is proved of
\* NoSharingSpec holds of Spec for them.
THEOREM OwnDevicesAreNotShared ==
  ASSUME \A b, c \in Calls : DeviceOf[b] = DeviceOf[c] /\ DeviceOf[b] # NoDevice => b = c
  PROVE  Spec => NoSharingSpec
<1>1. [Next]_vars => [Next /\ NoSharing]_vars
  BY DEF NoSharing
<1>2. QED
  BY <1>1, PTL DEF Spec, NoSharingSpec

\* The one misuse of the SANE API is sane_cancel with no handle, by the
\* OnCancel of a call whose sane_open failed.
THEOREM MisuseIsOfCancel ==
  ASSUME ~Mock
  PROVE  NoSharingSpec => []OnlyCancelMisuses
<1>1. Inv => OnlyCancelMisuses
  BY DEF Inv
<1>2. QED
  BY <1>1, InvAlways, PTL

\* When a reactor has deleted itself its handle is closed, and a device that
\* no call is at work on is as before the first open().
THEOREM HandlesAreClosed ==
  ASSUME ~Mock
  PROVE  NoSharingSpec => []NoHandleLeaked
<1>1. Inv => NoHandleLeaked
  <2>1. SUFFICES ASSUME Inv, NEW c \in Calls, pc_done[c] = "deleted", DeviceOf[c] # NoDevice
                 PROVE  /\ HandleOf(c) \notin opened \cup started
                        /\ (\A b \in Calls : DeviceOf[b] = DeviceOf[c] =>
                              pc_ctor[b] = "new" \/ pc_done[b] = "deleted")
                           => /\ m_handle[DeviceOf[c]] = NoHandle
                              /\ m_current_state[DeviceOf[c]] = "CLOSED"
    BY DEF NoHandleLeaked
  <2>2. HandleOf(c) \notin opened \cup started
    BY <2>1 DEF Inv, DeviceInv, Active, HandleOf
  <2>3. DeviceOf[c] \in Devices
    BY <2>1, SaneAssumption
  <2>4. QED
    BY <2>1, <2>2, <2>3 DEF Inv, DeviceInv, Active
<1>2. QED
  BY <1>1, InvAlways, PTL

\* A handle is closed by sane_close in the OnDone of the call that opened it.
THEOREM OthersHandlesAreLeft ==
  ASSUME ~Mock
  PROVE  NoSharingSpec => OthersHandlesStay
<1>1. ASSUME Inv, [Next /\ NoSharing]_vars
      PROVE  [\A c \in Calls : c \in opened \ opened' => pc_done[c] = "sane_close"]_vars
  <2>1. CASE UNCHANGED vars
    BY <2>1
  <2>2. CASE Next
    <3>1. PICK c \in Calls : Step(c)
      BY <2>2, NextIsStep
    <3>2. ReactorInv /\ DeviceInv
      BY <1>1 DEF Inv
    <3>3. ASSUME NEW b \in Calls, b \in opened \ opened'
          PROVE  pc_done[b] = "sane_close"
      BY <3>1, <3>2, <3>3, CloseStep
    <3>4. QED
      BY <3>3
  <2>3. QED
    BY <1>1, <2>1, <2>2
<1>2. QED
  BY <1>1, InvAlways, PTL DEF NoSharingSpec, OthersHandlesStay
=============================================================================
