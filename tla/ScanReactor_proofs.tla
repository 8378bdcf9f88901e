-------------------------- MODULE ScanReactor_proofs --------------------------
(***************************************************************************)
(* Proofs about ScanReactor, for every set of calls, devices and threads,  *)
(* with the mock or a driver, whether or not calls share a device.         *)
(***************************************************************************)
EXTENDS ScanReactorProps, SequenceTheorems, TLAPS

\* A call whose device was not found never reaches a device.
EmptyReactor ==
  \A c \in Calls : DeviceOf[c] = NoDevice =>
    /\ pc_ctor[c] \in {"new", "finish_ABORTED", "returned"}
    /\ \A w \in WriteThreads : pc_write[c][w] = "idle"
    /\ pc_cancel[c] \in {"idle", "cancel", "returned"}
    /\ pc_done[c] \in {"idle", "close", "deleted"}
    /\ outstanding[c] = 0

TypeInv == TypeOK /\ EmptyReactor

\* An open device call: the handle it gets is a handle.
LEMMA HandleOfType ==
  ASSUME NEW c \in Calls, DeviceOf[c] # NoDevice
  PROVE  DeviceOf[c] \in Devices /\ HandleOf(c) \in Handles
  BY SaneAssumption DEF HandleOf, Handles

\* Outside its constructor, and in it once it opens, a call has a device.
LEMMA HasDevice ==
  ASSUME TypeInv, NEW c \in Calls,
         \/ pc_ctor[c] \in CtorPc \ {"new", "finish_ABORTED", "returned"}
         \/ \E w \in WriteThreads : pc_write[c][w] # "idle"
         \/ pc_cancel[c] \in {"sane_cancel", "restore"}
         \/ pc_done[c] \in {"sane_cancel", "sane_close", "reset"}
  PROVE  DeviceOf[c] \in Devices
  BY SaneAssumption DEF TypeInv, EmptyReactor, CtorPc

\* Initially everything has its type.
LEMMA TypeInit == Init => TypeInv
  BY SaneAssumption, ReactorAssumption
  DEF Init, SaneInit, TypeInv, TypeOK, SaneTypeOK, EmptyReactor, CtorPc,
      WritePc, CancelPc, DonePc, EState, Faults, Handles, Items, Chunk

\* The constants that the types are made of.
LEMMA Constants ==
  /\ NoHandle \notin Handles
  /\ Chunks \in Nat /\ PacketChunks \in Nat \ {0}
  /\ DeviceOf \in [Calls -> Devices \cup {NoDevice}]
  /\ NoDevice \notin Devices
  BY SaneAssumption, ReactorAssumption DEF Handles

-----------------------------------------------------------------------------
(* A step of one call leaves the reactors of the others alone.             *)

OthersSame(c) ==
  \A b \in Calls \ {c} :
    /\ pc_ctor'[b] = pc_ctor[b] /\ pc_write'[b] = pc_write[b]
    /\ pc_cancel'[b] = pc_cancel[b] /\ pc_done'[b] = pc_done[b]
    /\ m_byte_data'[b] = m_byte_data[b] /\ m_finished'[b] = m_finished[b]
    /\ outstanding'[b] = outstanding[b] /\ stream'[b] = stream[b]
    /\ sent'[b] = sent[b] /\ broken'[b] = broken[b]

LEMMA FrameClient ==
  ASSUME TypeInv, NEW c \in Calls, ClientStep(c)
  PROVE  OthersSame(c)
  BY DEF ClientStep, Scan, ClientCancels, ScannerError, CtorGoto, OthersSame,
         TypeInv, TypeOK, reactor_vars, grpc_vars

LEMMA FrameCtor ==
  ASSUME TypeInv, NEW c \in Calls, CtorStep(c)
  PROVE  OthersSame(c)
<1>1. CASE Open(c) \/ Start(c) \/ SaneStart(c) \/ Params(c)
  BY <1>1
  DEF Open, Start, SaneStart, Params, CtorGoto, OthersSame, TypeInv, TypeOK,
      reactor_vars, grpc_vars
<1>2. CASE SaneParams(c)
  BY <1>2
  DEF SaneParams, CtorGoto, StartWrite, OthersSame, TypeInv, TypeOK,
      reactor_vars, grpc_vars
<1>3. CASE CtorFinish(c)
  BY <1>3 DEF CtorFinish, CtorGoto, Finish, OthersSame, TypeInv, TypeOK
<1>4. QED
  BY <1>1, <1>2, <1>3 DEF CtorStep

LEMMA FrameWrite ==
  ASSUME TypeInv, NEW c \in Calls, NEW w \in WriteThreads, WriteStep(c, w)
  PROVE  OthersSame(c)
<1>1. CASE OnWriteDone(c, w)
  BY <1>1 DEF OnWriteDone, WriteGoto, OthersSame, TypeInv, TypeOK, grpc_vars
<1>2. CASE Read(c, w) \/ ReadNothing(c, w)
  BY <1>2
  DEF Read, ReadNothing, WriteGoto, OthersSame, TypeInv, TypeOK,
      reactor_vars, grpc_vars
<1>3. CASE ReadData(c, w)
  BY <1>3 DEF ReadData, WriteGoto, OthersSame, TypeInv, TypeOK, grpc_vars
<1>4. CASE WriteResponse(c, w)
  BY <1>4
  DEF WriteResponse, WriteGoto, StartWrite, OthersSame, TypeInv, TypeOK,
      reactor_vars
<1>5. CASE WriteFinish(c, w)
  BY <1>5 DEF WriteFinish, WriteGoto, Finish, OthersSame, TypeInv, TypeOK
<1>6. CASE DeliverWriteDone(c, w)
  BY <1>6
  DEF DeliverWriteDone, WriteGoto, OthersSame, TypeInv, TypeOK, reactor_vars
<1>7. QED
  BY <1>1, <1>2, <1>3, <1>4, <1>5, <1>6 DEF WriteStep

LEMMA FrameCancel ==
  ASSUME TypeInv, NEW c \in Calls, CancelStep(c)
  PROVE  OthersSame(c)
  BY DEF CancelStep, DeliverCancel, OnCancel, CancelDevice, CancelGoto,
         OthersSame, TypeInv, TypeOK, grpc_vars

LEMMA FrameDone ==
  ASSUME TypeInv, NEW c \in Calls, DoneStep(c)
  PROVE  OthersSame(c)
  BY DEF DoneStep, DeliverDone, OnDone, CloseDevice, DoneGoto, OthersSame,
         TypeInv, TypeOK, reactor_vars, grpc_vars

\* So the empty reactors stay empty when a call with a device takes a step.
LEMMA EmptyFrame ==
  ASSUME TypeInv, NEW c \in Calls, DeviceOf[c] # NoDevice, OthersSame(c)
  PROVE  EmptyReactor'
  BY DEF TypeInv, EmptyReactor, OthersSame

-----------------------------------------------------------------------------
(* Type correctness.                                                       *)

\* A write has the type of a write.
LEMMA StartWriteType ==
  ASSUME TypeInv, NEW c \in Calls, NEW item \in Items, NEW data \in Seq(Chunk),
         StartWrite(c, item, data)
  PROVE  /\ outstanding' \in [Calls -> Nat]
         /\ stream' \in [Calls -> Seq(Items)]
         /\ sent' \in [Calls -> Seq(Chunk)]
<1>1. sent[c] \o data \in Seq(Chunk)
  BY ConcatProperties DEF TypeInv, TypeOK
<1>2. Append(stream[c], item) \in Seq(Items)
  BY AppendProperties DEF TypeInv, TypeOK
<1>3. QED
  BY <1>1, <1>2 DEF StartWrite, TypeInv, TypeOK

\* What a client does keeps the types.
LEMMA TypeClient ==
  ASSUME TypeInv, NEW c \in Calls, ClientStep(c)
  PROVE  TypeInv'
<1>1. CASE Scan(c)
  BY <1>1, Constants
  DEF Scan, CtorGoto, TypeInv, TypeOK, SaneTypeOK, EmptyReactor, CtorPc,
      sane_vars, reactor_vars, grpc_vars
<1>2. CASE ClientCancels(c)
  BY <1>2, Constants
  DEF ClientCancels, TypeInv, TypeOK, SaneTypeOK, EmptyReactor,
      sane_vars, reactor_vars, grpc_vars
<1>3. CASE ScannerError(c)
  BY <1>3, Constants
  DEF ScannerError, Jam, TypeInv, TypeOK, SaneTypeOK, EmptyReactor,
      device_vars, reactor_vars, grpc_vars
<1>4. QED
  BY <1>1, <1>2, <1>3 DEF ClientStep

\* The constructor keeps the types.
LEMMA TypeCtor ==
  ASSUME TypeInv, NEW c \in Calls, CtorStep(c)
  PROVE  TypeInv'
<1> USE DEF TypeOK
<1>a. OthersSame(c)
  BY FrameCtor
<1>1. CASE Open(c)
  <2>1. DeviceOf[c] \in Devices /\ HandleOf(c) \in Handles /\ DeviceOf[c] # NoDevice
    BY <1>1, HasDevice, HandleOfType, Constants DEF Open, CtorGoto, CtorPc
  <2>2. SaneTypeOK'
    BY <1>1, <2>1
    DEF Open, OpenGood, OpenFails, TypeInv, SaneTypeOK, EState, sane_vars
  <2>3. TypeOK'
    BY <1>1, <2>2
    DEF Open, CtorGoto, TypeInv, CtorPc, reactor_vars, grpc_vars
  <2>4. QED
    BY <1>a, <2>1, <2>3, EmptyFrame DEF TypeInv
<1>2. CASE Start(c)
  BY <1>2, Constants
  DEF Start, CtorGoto, TypeInv, SaneTypeOK, EmptyReactor, CtorPc,
      sane_vars, reactor_vars, grpc_vars
<1>3. CASE SaneStart(c)
  <2>1. DeviceOf[c] \in Devices /\ DeviceOf[c] # NoDevice
    BY <1>3, HasDevice, Constants DEF SaneStart, CtorGoto, CtorPc
  <2>2. ASSUME SaneStartGood(DeviceOf[c]) PROVE SaneTypeOK'
    <3>1. m_handle[DeviceOf[c]] \in Handles
      BY <2>1, <2>2 DEF SaneStartGood, TypeInv, SaneTypeOK
    <3>2. QED
      BY <2>1, <2>2, <3>1, Constants
      DEF SaneStartGood, sane_start, TypeInv, SaneTypeOK, EState, Faults
  <2>3. ASSUME SaneStartFails(DeviceOf[c]) PROVE SaneTypeOK'
    BY <2>1, <2>3
    DEF SaneStartFails, Misuse, TypeInv, SaneTypeOK, Faults, device_vars
  <2>4. TypeOK'
    BY <1>3, <2>2, <2>3
    DEF SaneStart, CtorGoto, TypeInv, CtorPc, reactor_vars, grpc_vars
  <2>5. QED
    BY <1>a, <2>1, <2>4, EmptyFrame DEF TypeInv
<1>4. CASE Params(c)
  BY <1>4, Constants
  DEF Params, CtorGoto, TypeInv, SaneTypeOK, EmptyReactor, CtorPc,
      sane_vars, reactor_vars, grpc_vars
<1>5. CASE SaneParams(c)
  <2>1. DeviceOf[c] # NoDevice
    BY <1>5, HasDevice, Constants DEF SaneParams, CtorGoto, CtorPc
  <2>2. SaneTypeOK'
    BY <1>5
    DEF SaneParams, Misuse, TypeInv, SaneTypeOK, Faults, device_vars
  <2>3. /\ outstanding' \in [Calls -> Nat]
        /\ stream' \in [Calls -> Seq(Items)]
        /\ sent' \in [Calls -> Seq(Chunk)]
    <3>1. "params" \in Items /\ <<>> \in Seq(Chunk)
      BY DEF Items
    <3>2. CASE StartWrite(c, "params", <<>>)
      BY <3>1, <3>2, StartWriteType
    <3>3. CASE UNCHANGED grpc_vars
      BY <3>3 DEF grpc_vars, TypeInv
    <3>4. QED
      BY <1>5, <3>2, <3>3 DEF SaneParams
  <2>4. TypeOK'
    BY <1>5, <2>2, <2>3
    DEF SaneParams, CtorGoto, TypeInv, CtorPc, reactor_vars
  <2>5. QED
    BY <1>a, <2>1, <2>4, EmptyFrame DEF TypeInv
<1>6. CASE CtorFinish(c)
  <2>1. TypeOK'
    BY <1>6
    DEF CtorFinish, CtorGoto, Finish, TypeInv, SaneTypeOK, CtorPc, Items,
        Statuses, sane_vars
  <2>2. EmptyReactor'
    BY <1>6, Constants
    DEF CtorFinish, CtorGoto, Finish, TypeInv, EmptyReactor
  <2>3. QED
    BY <2>1, <2>2 DEF TypeInv
<1>7. QED
  BY <1>1, <1>2, <1>3, <1>4, <1>5, <1>6 DEF CtorStep

\* A thread of OnWriteDone moves to a label of OnWriteDone.
LEMMA WriteGotoType ==
  ASSUME TypeInv, NEW c \in Calls, NEW w \in WriteThreads, WriteStep(c, w)
  PROVE  /\ pc_write' \in [Calls -> [WriteThreads -> WritePc]]
         /\ UNCHANGED <<pc_ctor, pc_cancel, pc_done, broken>>
<1>1. ASSUME NEW from, NEW to \in WritePc, WriteGoto(c, w, from, to)
      PROVE  /\ pc_write' \in [Calls -> [WriteThreads -> WritePc]]
             /\ UNCHANGED <<pc_ctor, pc_cancel, pc_done, broken>>
  BY <1>1 DEF WriteGoto, TypeInv, TypeOK
<1>2. \E from : \E to \in WritePc : WriteGoto(c, w, from, to)
  <2>1. CASE OnWriteDone(c, w)
    BY <2>1 DEF OnWriteDone, WritePc
  <2>2. CASE Read(c, w) \/ ReadNothing(c, w)
    BY <2>2 DEF Read, ReadNothing, WritePc
  <2>3. CASE ReadData(c, w)
    BY <2>3 DEF ReadData, WritePc
  <2>4. CASE WriteResponse(c, w)
    BY <2>4 DEF WriteResponse, WritePc
  <2>5. CASE WriteFinish(c, w)
    BY <2>5 DEF WriteFinish, WritePc
  <2>6. CASE DeliverWriteDone(c, w)
    BY <2>6 DEF DeliverWriteDone, WritePc
  <2>7. QED
    BY <2>1, <2>2, <2>3, <2>4, <2>5, <2>6 DEF WriteStep
<1>3. QED
  BY <1>1, <1>2

\* OnWriteDone keeps the types.
LEMMA TypeWrite ==
  ASSUME TypeInv, NEW c \in Calls, NEW w \in WriteThreads, WriteStep(c, w)
  PROVE  TypeInv'
<1> USE DEF TypeOK
<1>a. OthersSame(c)
  BY FrameWrite
<1>b. DeviceOf[c] \in Devices /\ DeviceOf[c] # NoDevice
  <2>1. pc_write[c][w] # "idle" \/ outstanding[c] # 0
    BY DEF WriteStep, OnWriteDone, Read, ReadData, ReadNothing, WriteResponse,
           WriteFinish, DeliverWriteDone, WriteGoto, FinishPc, TypeInv
  <2>2. QED
    BY <2>1, Constants DEF TypeInv, EmptyReactor
<1>c. SUFFICES TypeOK'
  BY <1>a, <1>b, EmptyFrame DEF TypeInv
<1>d. /\ pc_write' \in [Calls -> [WriteThreads -> WritePc]]
      /\ UNCHANGED <<pc_ctor, pc_cancel, pc_done, broken>>
  BY WriteGotoType
<1>1. CASE OnWriteDone(c, w)
  <2>1. <<>> \in Seq(Chunk)
    OBVIOUS
  <2>2. m_byte_data' \in [Calls -> Seq(Chunk)]
    BY <1>1, <2>1 DEF OnWriteDone, TypeInv
  <2>3. QED
    BY <1>1, <1>d, <2>2
    DEF OnWriteDone, TypeInv, SaneTypeOK, sane_vars, grpc_vars
<1>2. CASE Read(c, w)
  BY <1>2, <1>d
  DEF Read, TypeInv, SaneTypeOK, sane_vars, reactor_vars, grpc_vars
<1>3. CASE ReadData(c, w)
  <2> DEFINE h == m_handle[DeviceOf[c]]
  <2>1. h \in Handles /\ position[h] \in 0..Chunks /\ position[h] < Chunks
    BY <1>3, <1>b DEF ReadData, SaneReadGood, SaneReadable, TypeInv, SaneTypeOK
  <2>2. position[h] + 1 \in 1..Chunks
    BY <2>1, Constants
  <2>3. <<h, position[h] + 1>> \in Chunk
    BY <2>1, <2>2 DEF Chunk
  <2>4. Append(m_byte_data[c], <<h, position[h] + 1>>) \in Seq(Chunk)
    BY <2>3, AppendProperties DEF TypeInv
  <2>5. m_byte_data' \in [Calls -> Seq(Chunk)]
    BY <1>3, <2>4 DEF ReadData, TypeInv
  <2>6. SaneTypeOK'
    BY <1>3, <2>1, <2>2 DEF ReadData, SaneReadGood, TypeInv, SaneTypeOK, device_vars
  <2>7. QED
    BY <1>3, <1>d, <2>5, <2>6 DEF ReadData, TypeInv, grpc_vars
<1>4. CASE ReadNothing(c, w)
  <2>1. SaneTypeOK'
    BY <1>4
    DEF ReadNothing, SaneReadEof, SaneReadFails, Misuse, TypeInv, SaneTypeOK,
        Faults, sane_vars, device_vars
  <2>2. QED
    BY <1>4, <1>d, <2>1 DEF ReadNothing, TypeInv, reactor_vars, grpc_vars
<1>5. CASE WriteResponse(c, w)
  <2> DEFINE item == IF m_byte_data[c] = <<>> THEN "empty" ELSE "data"
  <2>1. item \in Items /\ m_byte_data[c] \in Seq(Chunk)
    BY DEF Items, TypeInv
  <2>2. /\ outstanding' \in [Calls -> Nat]
        /\ stream' \in [Calls -> Seq(Items)]
        /\ sent' \in [Calls -> Seq(Chunk)]
    BY <1>5, <2>1, StartWriteType DEF WriteResponse
  <2>3. QED
    BY <1>5, <1>d, <2>2
    DEF WriteResponse, TypeInv, SaneTypeOK, sane_vars, reactor_vars
<1>6. CASE WriteFinish(c, w)
  <2>1. \A status \in {"OK", "ABORTED", "UNKNOWN"} :
          Append(stream[c], status) \in Seq(Items)
    BY AppendProperties DEF TypeInv, Items, Statuses
  <2>2. stream' \in [Calls -> Seq(Items)]
    BY <1>6, <2>1 DEF WriteFinish, Finish, TypeInv
  <2>3. QED
    BY <1>6, <1>d, <2>2
    DEF WriteFinish, Finish, TypeInv, SaneTypeOK, sane_vars
<1>7. CASE DeliverWriteDone(c, w)
  <2>1. outstanding' \in [Calls -> Nat]
    BY <1>7 DEF DeliverWriteDone, TypeInv
  <2>2. QED
    BY <1>7, <1>d, <2>1
    DEF DeliverWriteDone, TypeInv, SaneTypeOK, sane_vars, reactor_vars
<1>8. QED
  BY <1>1, <1>2, <1>3, <1>4, <1>5, <1>6, <1>7 DEF WriteStep

\* OnCancel keeps the types.
LEMMA TypeCancel ==
  ASSUME TypeInv, NEW c \in Calls, CancelStep(c)
  PROVE  TypeInv'
<1> USE DEF TypeOK
<1>1. CASE DeliverCancel(c)
  BY <1>1, Constants
  DEF DeliverCancel, CancelGoto, TypeInv, SaneTypeOK, EmptyReactor, CancelPc,
      sane_vars, grpc_vars
<1>2. CASE DeviceOf[c] = NoDevice /\ OnCancel(c)
  <2>1. CancelGoto(c, "cancel", "returned") /\ UNCHANGED <<sane_vars, old_state>>
    BY <1>2 DEF OnCancel
  <2>2. TypeOK'
    BY <2>1 DEF CancelGoto, TypeInv, SaneTypeOK, CancelPc, sane_vars, grpc_vars
  <2>3. EmptyReactor'
    BY <2>1 DEF CancelGoto, TypeInv, EmptyReactor, grpc_vars
  <2>4. QED
    BY <2>2, <2>3 DEF TypeInv
<1>3. CASE DeviceOf[c] # NoDevice /\ OnCancel(c)
  <2>1. DeviceOf[c] \in Devices
    BY <1>3, Constants
  <2>2. SaneTypeOK'
    BY <1>3, <2>1
    DEF OnCancel, BeginCancel, TypeInv, SaneTypeOK, EState, backend_vars
  <2>3. m_current_state[DeviceOf[c]] \in EState
    BY <2>1 DEF TypeInv, SaneTypeOK
  <2>4. TypeOK'
    BY <1>3, <2>2, <2>3 DEF OnCancel, CancelGoto, TypeInv, CancelPc, grpc_vars
  <2>5. QED
    BY <1>3, <2>4, FrameCancel, EmptyFrame DEF CancelStep, TypeInv
<1>4. CASE CancelDevice(c)
  <2>1. DeviceOf[c] \in Devices /\ DeviceOf[c] # NoDevice
    BY <1>4, HasDevice, Constants DEF CancelDevice, CancelGoto
  <2>2. SaneTypeOK'
    <3>1. ASSUME CallCancel(DeviceOf[c]) PROVE SaneTypeOK'
      BY <2>1, <3>1
      DEF CallCancel, sane_cancel, Misuse, TypeInv, SaneTypeOK, Faults,
          device_vars
    <3>2. ASSUME EndCancel(DeviceOf[c], old_state[c]) PROVE SaneTypeOK'
      BY <2>1, <3>2 DEF EndCancel, TypeInv, SaneTypeOK, backend_vars
    <3>3. QED
      BY <1>4, <3>1, <3>2 DEF CancelDevice
  <2>3. TypeOK'
    BY <1>4, <2>2
    DEF CancelDevice, CancelGoto, TypeInv, CancelPc, grpc_vars
  <2>4. QED
    BY <1>4, <2>1, <2>3, FrameCancel, EmptyFrame DEF CancelStep, TypeInv
<1>5. QED
  BY <1>1, <1>2, <1>3, <1>4 DEF CancelStep

\* OnDone keeps the types.
LEMMA TypeDone ==
  ASSUME TypeInv, NEW c \in Calls, DoneStep(c)
  PROVE  TypeInv'
<1> USE DEF TypeOK
<1>1. CASE DeliverDone(c) \/ OnDone(c)
  <2>1. UNCHANGED sane_vars
    BY <1>1 DEF DeliverDone, OnDone
  <2>2. \E from : \E to \in DonePc : DoneGoto(c, from, to)
    BY <1>1 DEF DeliverDone, OnDone, DonePc
  <2>3. TypeOK'
    BY <2>1, <2>2
    DEF DoneGoto, TypeInv, SaneTypeOK, sane_vars, reactor_vars, grpc_vars
  <2>4. CASE DeviceOf[c] = NoDevice
    <3>1. DoneGoto(c, "idle", "close") \/ DoneGoto(c, "close", "deleted")
      BY <1>1, <2>4 DEF DeliverDone, OnDone
    <3>2. pc_done'[c] \in {"close", "deleted"}
      BY <3>1 DEF DoneGoto, TypeInv
    <3>3. UNCHANGED <<pc_ctor, pc_write, pc_cancel, outstanding>>
      BY <3>1 DEF DoneGoto, grpc_vars
    <3>4. \A b \in Calls \ {c} : pc_done'[b] = pc_done[b]
      BY <1>1, FrameDone DEF DoneStep, OthersSame
    <3>5. EmptyReactor'
      BY <3>2, <3>3, <3>4 DEF TypeInv, EmptyReactor
    <3>6. QED
      BY <2>3, <3>5 DEF TypeInv
  <2>5. CASE DeviceOf[c] # NoDevice
    BY <1>1, <2>3, <2>5, FrameDone, EmptyFrame DEF DoneStep, TypeInv
  <2>6. QED
    BY <2>4, <2>5
<1>2. CASE CloseDevice(c)
  <2>1. DeviceOf[c] \in Devices /\ DeviceOf[c] # NoDevice
    BY <1>2, HasDevice, Constants DEF CloseDevice, DoneGoto
  <2>2. ASSUME CallCancel(DeviceOf[c]) PROVE SaneTypeOK'
    BY <2>1, <2>2
    DEF CallCancel, sane_cancel, Misuse, TypeInv, SaneTypeOK, Faults, device_vars
  <2>3. ASSUME CallClose(DeviceOf[c]) PROVE SaneTypeOK'
    BY <2>1, <2>3
    DEF CallClose, sane_close, Misuse, TypeInv, SaneTypeOK, Faults, device_vars
  <2>4. ASSUME EndClose(DeviceOf[c]) PROVE SaneTypeOK'
    BY <2>1, <2>4 DEF EndClose, TypeInv, SaneTypeOK, EState, backend_vars
  <2>5. TypeOK'
    BY <1>2, <2>2, <2>3, <2>4
    DEF CloseDevice, DoneGoto, TypeInv, DonePc, reactor_vars, grpc_vars
  <2>6. QED
    BY <1>2, <2>1, <2>5, FrameDone, EmptyFrame DEF DoneStep, TypeInv
<1>3. QED
  BY <1>1, <1>2 DEF DoneStep

\* A step that changes nothing keeps the types.
LEMMA TypeStutter == TypeInv /\ UNCHANGED vars => TypeInv'
  BY DEF TypeInv, TypeOK, SaneTypeOK, EmptyReactor, vars, sane_vars,
         reactor_vars, grpc_vars

LEMMA TypeStep == TypeInv /\ [Next]_vars => TypeInv'
  BY TypeClient, TypeCtor, TypeWrite, TypeCancel, TypeDone, TypeStutter DEF Next

LEMMA TypeAlways == Spec => []TypeInv
  BY TypeInit, TypeStep, PTL DEF Spec

\* The variables of the devices, the backend, the reactors and gRPC always
\* have their types.
THEOREM TypeCorrect == Spec => []TypeOK
<1>1. TypeInv => TypeOK
  BY DEF TypeInv
<1>2. QED
  BY <1>1, TypeAlways, PTL

-----------------------------------------------------------------------------
(* One write at a time.  A call holds one permission to write: the         *)
(* constructor has it until it returns, then gRPC while the write is       *)
(* outstanding, then the OnWriteDone thread gRPC completes it on, up to    *)
(* its own StartWrite.  OneWriteAtATime does not say that a constructor    *)
(* at work leaves no permission to others, which the invariant needs.      *)

WritingPc == {"write_ok", "write_failed", "read", "sane_read", "write_more",
              "write_eof"}

OneWrite(c) ==
  /\ outstanding[c] \in {0, 1}
  /\ CtorRunning(c) => outstanding[c] = 0
  /\ \A w \in WriteThreads : pc_write[c][w] \in WritingPc =>
       /\ outstanding[c] = 0 /\ ~CtorRunning(c)
       /\ \A v \in WriteThreads : pc_write[c][v] \in WritingPc => v = w

OneWriteInv == TypeInv /\ \A c \in Calls : OneWrite(c)

\* The steps that neither issue nor complete a write.
LEMMA OneWriteKept ==
  ASSUME NEW c \in Calls, OneWrite(c),
         outstanding'[c] = outstanding[c],
         CtorRunning(c)' => CtorRunning(c),
         \A w \in WriteThreads :
           pc_write'[c][w] \in WritingPc => pc_write[c][w] \in WritingPc
  PROVE  OneWrite(c)'
  BY DEF OneWrite

\* The calls a step is not about.
LEMMA OneWriteOthers ==
  ASSUME NEW c \in Calls, NEW b \in Calls \ {c}, OneWrite(b), OthersSame(c)
  PROVE  OneWrite(b)'
  BY OneWriteKept DEF OthersSame, CtorRunning

LEMMA OneWriteCtor ==
  ASSUME OneWriteInv, NEW c \in Calls, CtorStep(c)
  PROVE  OneWrite(c)'
<1>0. OneWrite(c) /\ TypeInv
  BY DEF OneWriteInv
<1>1. CASE outstanding'[c] = outstanding[c]
  <2>1. CtorRunning(c) /\ pc_write' = pc_write
    BY <1>0
    DEF CtorStep, Open, Start, SaneStart, Params, SaneParams, CtorFinish,
        CtorGoto, CtorRunning, FinishPc
  <2>2. QED
    BY <1>0, <1>1, <2>1, OneWriteKept
<1>2. CASE outstanding'[c] # outstanding[c]
  <2>1. SaneParams(c)
    BY <1>2
    DEF CtorStep, Open, Start, SaneStart, Params, CtorFinish, Finish,
        grpc_vars
  <2>2. /\ pc_ctor[c] = "sane_params" /\ pc_ctor'[c] = "returned"
        /\ pc_write' = pc_write
        /\ outstanding'[c] = outstanding[c] + 1
    BY <1>0, <1>2, <2>1
    DEF SaneParams, CtorGoto, StartWrite, TypeInv, TypeOK, grpc_vars
  <2>3. QED
    BY <1>0, <2>2 DEF OneWrite, CtorRunning
<1>3. QED
  BY <1>1, <1>2

LEMMA OneWriteWrite ==
  ASSUME OneWriteInv, NEW c \in Calls, NEW w \in WriteThreads, WriteStep(c, w)
  PROVE  OneWrite(c)'
<1>0. OneWrite(c) /\ TypeInv
  BY DEF OneWriteInv
<1>1. ASSUME NEW from, NEW to, WriteGoto(c, w, from, to)
      PROVE  /\ pc_write[c][w] = from /\ pc_write'[c][w] = to
             /\ pc_ctor' = pc_ctor
             /\ \A v \in WriteThreads \ {w} : pc_write'[c][v] = pc_write[c][v]
  BY <1>0, <1>1 DEF WriteGoto, TypeInv, TypeOK
<1>2. CASE \E from, to : /\ WriteGoto(c, w, from, to)
                         /\ to \in WritingPc => from \in WritingPc
                         /\ outstanding' = outstanding
  <2>1. \A v \in WriteThreads :
          pc_write'[c][v] \in WritingPc => pc_write[c][v] \in WritingPc
    BY <1>1, <1>2
  <2>2. pc_ctor' = pc_ctor
    BY <1>1, <1>2
  <2>3. QED
    BY <1>0, <1>2, <2>1, <2>2, OneWriteKept DEF CtorRunning
<1>3. CASE OnWriteDone(c, w)
  BY <1>2, <1>3 DEF OnWriteDone, WritingPc, grpc_vars
<1>4. CASE Read(c, w) \/ ReadNothing(c, w)
  BY <1>2, <1>4 DEF Read, ReadNothing, WritingPc, grpc_vars
<1>5. CASE ReadData(c, w)
  BY <1>2, <1>5 DEF ReadData, WritingPc, grpc_vars
<1>6. CASE WriteResponse(c, w)
  <2>1. /\ pc_write[c][w] \in WritingPc /\ pc_write'[c][w] \notin WritingPc
        /\ pc_ctor' = pc_ctor
        /\ \A v \in WriteThreads \ {w} : pc_write'[c][v] = pc_write[c][v]
    BY <1>1, <1>6 DEF WriteResponse, WritingPc
  <2>2. outstanding'[c] = outstanding[c] + 1
    BY <1>0, <1>6 DEF WriteResponse, StartWrite, TypeInv, TypeOK
  <2>3. QED
    BY <1>0, <2>1, <2>2 DEF OneWrite, CtorRunning
<1>7. CASE WriteFinish(c, w)
  BY <1>2, <1>7 DEF WriteFinish, Finish, FinishPc, WritingPc
<1>8. CASE DeliverWriteDone(c, w)
  <2>1. /\ pc_ctor'[c] = "returned"
        /\ \A v \in WriteThreads \ {w} : pc_write'[c][v] = pc_write[c][v]
    BY <1>1, <1>8 DEF DeliverWriteDone
  <2>2. outstanding[c] > 0 /\ outstanding'[c] = outstanding[c] - 1
    BY <1>0, <1>8 DEF DeliverWriteDone, TypeInv, TypeOK
  <2>3. QED
    BY <1>0, <2>1, <2>2 DEF OneWrite, CtorRunning
<1>9. QED
  BY <1>3, <1>4, <1>5, <1>6, <1>7, <1>8 DEF WriteStep

LEMMA OneWriteRest ==
  ASSUME OneWriteInv, NEW c \in Calls,
         ClientStep(c) \/ CancelStep(c) \/ DoneStep(c)
  PROVE  OneWrite(c)'
<1>0. OneWrite(c) /\ TypeInv
  BY DEF OneWriteInv
<1>1. UNCHANGED <<pc_write, outstanding>>
  BY DEF ClientStep, Scan, ClientCancels, ScannerError, CancelStep,
         DeliverCancel, OnCancel, CancelDevice, DoneStep, DeliverDone, OnDone,
         CloseDevice, CtorGoto, CancelGoto, DoneGoto, grpc_vars
<1>2. CtorRunning(c)' => CtorRunning(c)
  <2>1. CASE Scan(c)
    BY <2>1 DEF Scan, CtorGoto, CtorRunning
  <2>2. CASE ~Scan(c)
    BY <2>2
    DEF ClientStep, ClientCancels, ScannerError, CancelStep, DeliverCancel,
        OnCancel, CancelDevice, DoneStep, DeliverDone, OnDone, CloseDevice,
        CancelGoto, DoneGoto, CtorRunning
  <2>3. QED
    BY <2>1, <2>2
<1>3. QED
  BY <1>0, <1>1, <1>2, OneWriteKept

LEMMA OneWriteStep == OneWriteInv /\ [Next]_vars => OneWriteInv'
<1>1. ASSUME OneWriteInv, UNCHANGED vars PROVE OneWriteInv'
  BY <1>1, TypeStutter DEF OneWriteInv, OneWrite, CtorRunning, vars, grpc_vars
<1>2. ASSUME OneWriteInv, NEW c \in Calls,
             \/ ClientStep(c) \/ CtorStep(c) \/ CancelStep(c) \/ DoneStep(c)
             \/ \E w \in WriteThreads : WriteStep(c, w)
      PROVE  \A b \in Calls : OneWrite(b)'
  <2>1. OneWrite(c)'
    BY <1>2, OneWriteCtor, OneWriteWrite, OneWriteRest
  <2>2. OthersSame(c)
    BY <1>2, FrameClient, FrameCtor, FrameWrite, FrameCancel, FrameDone
    DEF OneWriteInv
  <2>3. QED
    BY <1>2, <2>1, <2>2, OneWriteOthers DEF OneWriteInv
<1>3. QED
  BY <1>1, <1>2, TypeStep DEF Next, OneWriteInv

\* gRPC never has two writes of one call, and no two threads are in
\* next_packet of one reactor, however many threads gRPC has, whatever the
\* client cancels and whoever else uses the device.
THEOREM WritesAreExclusive == Spec => []OneWriteAtATime
<1>1. Init => OneWriteInv
  <2>1. ASSUME Init, NEW c \in Calls PROVE OneWrite(c)
    BY <2>1 DEF Init, OneWrite, WritingPc
  <2>2. QED
    BY <2>1, TypeInit DEF OneWriteInv
<1>2. OneWriteInv => OneWriteAtATime
  <2>1. ASSUME NEW c \in Calls, OneWrite(c), NEW w \in Writing(c)
        PROVE  Writing(c) = {w} /\ outstanding[c] = 0 /\ ~CtorRunning(c)
    <3>1. w \in WriteThreads /\ pc_write[c][w] \in WritingPc
      BY DEF Writing, WritingPc
    <3>2. \A v \in Writing(c) : v = w
      BY <2>1, <3>1 DEF OneWrite, Writing, WritingPc
    <3>3. QED
      BY <2>1, <3>1, <3>2 DEF OneWrite
  <2>2. ASSUME NEW c \in Calls, OneWrite(c) PROVE outstanding[c] <= 1
    BY <2>2 DEF OneWrite
  <2>3. QED
    BY <2>1, <2>2 DEF OneWriteInv, OneWriteAtATime
<1>3. QED
  BY <1>1, <1>2, OneWriteStep, PTL DEF Spec

-----------------------------------------------------------------------------
(* One status.  m_finished records whether a status is in the stream.      *)

StatusAt(c, i) == stream[c][i] \in Statuses

OneStatusCall(c) ==
  /\ \A i, j \in DOMAIN stream[c] : StatusAt(c, i) /\ StatusAt(c, j) => i = j
  /\ m_finished[c] <=> \E i \in DOMAIN stream[c] : StatusAt(c, i)

OneStatusInv == TypeInv /\ \A c \in Calls : OneStatusCall(c)

\* What Append does to a stream.
LEMMA AppendItem ==
  ASSUME NEW s \in Seq(Items), NEW x \in Items
  PROVE  /\ DOMAIN Append(s, x) = DOMAIN s \cup {Len(s) + 1}
         /\ Len(s) + 1 \notin DOMAIN s
         /\ \A i \in DOMAIN s : Append(s, x)[i] = s[i]
         /\ Append(s, x)[Len(s) + 1] = x
  BY AppendProperties

\* A response is not a status.
LEMMA OneStatusResponse ==
  ASSUME TypeInv, NEW c \in Calls, OneStatusCall(c),
         NEW x \in Items \ Statuses, stream'[c] = Append(stream[c], x),
         m_finished'[c] = m_finished[c]
  PROVE  OneStatusCall(c)'
  BY AppendItem DEF OneStatusCall, StatusAt, TypeInv, TypeOK

\* A status is only appended to a stream without one.
LEMMA OneStatusFinish ==
  ASSUME TypeInv, NEW c \in Calls, OneStatusCall(c),
         NEW x \in Statuses, Finish(c, x)
  PROVE  OneStatusCall(c)'
<1>1. m_finished'[c] = TRUE
  BY DEF Finish, TypeInv, TypeOK
<1>2. CASE m_finished[c]
  BY <1>1, <1>2 DEF Finish, OneStatusCall, StatusAt
<1>3. CASE ~m_finished[c]
  <2>1. stream'[c] = Append(stream[c], x)
    BY <1>3 DEF Finish, TypeInv, TypeOK
  <2>2. stream[c] \in Seq(Items) /\ x \in Items
    BY DEF TypeInv, TypeOK, Items
  <2>3. \A i \in DOMAIN stream[c] : ~StatusAt(c, i)
    BY <1>3 DEF OneStatusCall
  <2>4. QED
    BY <1>1, <2>1, <2>2, <2>3, AppendItem DEF OneStatusCall, StatusAt
<1>4. QED
  BY <1>2, <1>3

\* The other steps neither finish nor write.
LEMMA OneStatusKept ==
  ASSUME NEW c \in Calls, OneStatusCall(c),
         stream'[c] = stream[c], m_finished'[c] = m_finished[c]
  PROVE  OneStatusCall(c)'
  BY DEF OneStatusCall, StatusAt

LEMMA OneStatusOwn ==
  ASSUME OneStatusInv, NEW c \in Calls,
         \/ ClientStep(c) \/ CtorStep(c) \/ CancelStep(c) \/ DoneStep(c)
         \/ \E w \in WriteThreads : WriteStep(c, w)
  PROVE  OneStatusCall(c)'
<1>0. TypeInv /\ OneStatusCall(c)
  BY DEF OneStatusInv
<1>1. CASE \E x \in Statuses : Finish(c, x)
  BY <1>0, <1>1, OneStatusFinish
<1>2. CASE \E x \in Items \ Statuses : \E data :
             StartWrite(c, x, data) /\ m_finished' = m_finished
  <2>1. \E x \in Items \ Statuses : stream'[c] = Append(stream[c], x)
    BY <1>0, <1>2 DEF StartWrite, TypeInv, TypeOK
  <2>2. QED
    BY <1>0, <1>2, <2>1, OneStatusResponse
<1>3. CASE UNCHANGED <<stream, m_finished>>
  BY <1>0, <1>3, OneStatusKept
<1>4. ClientStep(c) \/ CancelStep(c) \/ DoneStep(c)
      => UNCHANGED <<stream, m_finished>>
  BY DEF ClientStep, Scan, ClientCancels, ScannerError, CancelStep,
         DeliverCancel, OnCancel, CancelDevice, DoneStep, DeliverDone, OnDone,
         CloseDevice, CancelGoto, DoneGoto, reactor_vars, grpc_vars
<1>5. ASSUME CtorStep(c) PROVE OneStatusCall(c)'
  <2>1. CASE Open(c) \/ Start(c) \/ SaneStart(c) \/ Params(c)
    BY <1>3, <2>1 DEF Open, Start, SaneStart, Params, reactor_vars, grpc_vars
  <2>2. CASE SaneParams(c)
    BY <1>2, <1>3, <2>2 DEF SaneParams, Items, Statuses, reactor_vars, grpc_vars
  <2>3. CASE CtorFinish(c)
    BY <1>1, <2>3 DEF CtorFinish, Statuses
  <2>4. QED
    BY <1>5, <2>1, <2>2, <2>3 DEF CtorStep
<1>6. ASSUME NEW w \in WriteThreads, WriteStep(c, w) PROVE OneStatusCall(c)'
  <2>1. CASE WriteResponse(c, w)
    BY <1>2, <2>1 DEF WriteResponse, Items, Statuses, reactor_vars
  <2>2. CASE WriteFinish(c, w)
    BY <1>1, <2>2 DEF WriteFinish, Statuses
  <2>3. CASE ~WriteResponse(c, w) /\ ~WriteFinish(c, w)
    BY <1>3, <1>6, <2>3
    DEF WriteStep, OnWriteDone, Read, ReadData, ReadNothing, DeliverWriteDone,
        reactor_vars, grpc_vars
  <2>4. QED
    BY <2>1, <2>2, <2>3
<1>7. QED
  BY <1>3, <1>4, <1>5, <1>6

LEMMA OneStatusStep == OneStatusInv /\ [Next]_vars => OneStatusInv'
<1>1. ASSUME OneStatusInv, UNCHANGED vars PROVE OneStatusInv'
  BY <1>1, TypeStutter, OneStatusKept
  DEF OneStatusInv, vars, grpc_vars, reactor_vars
<1>2. ASSUME OneStatusInv, NEW c \in Calls,
             \/ ClientStep(c) \/ CtorStep(c) \/ CancelStep(c) \/ DoneStep(c)
             \/ \E w \in WriteThreads : WriteStep(c, w)
      PROVE  \A b \in Calls : OneStatusCall(b)'
  <2>1. OneStatusCall(c)'
    BY <1>2, OneStatusOwn
  <2>2. OthersSame(c)
    BY <1>2, FrameClient, FrameCtor, FrameWrite, FrameCancel, FrameDone
    DEF OneStatusInv
  <2>3. \A b \in Calls \ {c} : OneStatusCall(b)'
    BY <1>2, <2>2, OneStatusKept DEF OneStatusInv, OthersSame
  <2>4. QED
    BY <2>1, <2>3
<1>3. QED
  BY <1>1, <1>2, TypeStep DEF Next, OneStatusInv

\* However many of its threads reach Finish, a call is given one status.
THEOREM StatusIsUnique == Spec => []OneStatus
<1>1. Init => OneStatusInv
  <2>1. ASSUME Init, NEW c \in Calls PROVE OneStatusCall(c)
    BY <2>1 DEF Init, OneStatusCall
  <2>2. QED
    BY <2>1, TypeInit DEF OneStatusInv
<1>2. OneStatusInv => OneStatus
  <2>1. ASSUME NEW c \in Calls
        PROVE  (\E i \in DOMAIN stream[c] : StatusAt(c, i))
               <=> \E s \in Statuses : Item(c, s)
    BY DEF StatusAt, Item
  <2>2. QED
    BY <2>1 DEF OneStatusInv, OneStatusCall, OneStatus, StatusAt
<1>3. QED
  BY <1>1, <1>2, OneStatusStep, PTL DEF Spec
=============================================================================
