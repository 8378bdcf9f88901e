--------------------------- MODULE ScanStream_proofs ---------------------------
(***************************************************************************)
(* Proofs about what a call of ScanReactor sends its client: every chunk   *)
(* once and in order, OK for a whole scan only, ABORTED for a reason of    *)
(* its own; and that it implements ScanStream.  As in ScanDevice_proofs    *)
(* the backend is a driver and a device is used by one call at a time.     *)
(***************************************************************************)
EXTENDS ScanDevice_proofs

-----------------------------------------------------------------------------
(* Scans and their beginnings.                                             *)

LEMMA ScannedIsSeq ==
  ASSUME NEW c \in Calls, NEW n \in 0..Chunks
  PROVE  /\ Scanned(c, n) \in Seq(Chunk) /\ Len(Scanned(c, n)) = n
         /\ \A i \in 1..n : Scanned(c, n)[i] = <<c, i>>
<1>1. n \in Nat /\ \A i \in 1..n : i \in 1..Chunks /\ c \in Handles
  BY Constants DEF Handles
<1>2. \A i \in 1..n : <<c, i>> \in Chunk
  BY <1>1 DEF Chunk
<1>3. Scanned(c, n) \in Seq(Chunk)
  BY <1>1, <1>2, IsASeq DEF Scanned
<1>4. QED
  BY <1>1, <1>3 DEF Scanned

LEMMA ScannedNone ==
  ASSUME NEW c \in Calls
  PROVE  Scanned(c, 0) = <<>>
<1>1. 0 \in 0..Chunks
  BY Constants
<1>2. QED
  BY <1>1, ScannedIsSeq, EmptySeq

\* The next chunk.
LEMMA ScannedNext ==
  ASSUME NEW c \in Calls, NEW n \in 0..Chunks, n < Chunks,
         NEW s \in Seq(Chunk), NEW m \in Seq(Chunk), s \o m = Scanned(c, n)
  PROVE  s \o Append(m, <<c, n + 1>>) = Scanned(c, n + 1)
<1> DEFINE x == <<c, n + 1>>
<1>1. n + 1 \in 0..Chunks /\ n \in Nat
  BY Constants
<1>2. x \in Chunk
  BY <1>1, Constants DEF Chunk, Handles
<1>3. Append(m, x) \in Seq(Chunk) /\ s \o Append(m, x) \in Seq(Chunk)
  BY <1>2, AppendProperties, ConcatProperties
<1>4. Len(s \o Append(m, x)) = n + 1
  BY <1>1, <1>2, <1>3, ScannedIsSeq
<1>5. \A i \in 1..n+1 : (s \o Append(m, x))[i] = <<c, i>>
  <2>1. ASSUME NEW i \in 1..n PROVE (s \o Append(m, x))[i] = (s \o m)[i]
    BY <1>1, <1>2, ScannedIsSeq
  <2>2. \A i \in 1..n : (s \o m)[i] = <<c, i>>
    BY ScannedIsSeq
  <2>3. (s \o Append(m, x))[n + 1] = x
    <3>1. Len(s \o m) = n
      BY ScannedIsSeq
    <3>2. Len(s) \in Nat /\ Len(m) \in Nat /\ Len(s) + Len(m) = n
      BY <3>1, LenProperties, ConcatProperties
    <3>3. QED
      BY <1>1, <1>2, <3>2
  <2>4. \A i \in 1..n+1 : i \in 1..n \/ i = n + 1
    BY <1>1
  <2>5. QED
    BY <2>1, <2>2, <2>3, <2>4
<1>6. /\ Scanned(c, n + 1) \in Seq(Chunk) /\ Len(Scanned(c, n + 1)) = n + 1
      /\ \A i \in 1..n+1 : Scanned(c, n + 1)[i] = <<c, i>>
  BY <1>1, ScannedIsSeq
<1> DEFINE t == s \o Append(m, x)
           u == Scanned(c, n + 1)
<1>7. t \in Seq(Chunk) /\ u \in Seq(Chunk) /\ Len(t) = Len(u)
  BY <1>3, <1>4, <1>6
<1>8. \A i \in 1..Len(t) : t[i] = u[i]
  BY <1>4, <1>5, <1>6
<1> HIDE DEF t, u
<1>9. t = u
  BY <1>7, <1>8, SeqEqual
<1>10. QED
  BY <1>9 DEF t, u

\* Nothing follows a whole scan.
LEMMA ScannedWhole ==
  ASSUME NEW c \in Calls, NEW n \in 0..Chunks, NEW m \in Seq(Chunk),
         Scanned(c, Chunks) \o m = Scanned(c, n)
  PROVE  m = <<>> /\ n = Chunks
<1>1. Chunks \in 0..Chunks /\ Chunks \in Nat
  BY Constants
<1>2. Scanned(c, Chunks) \in Seq(Chunk) /\ Len(Scanned(c, Chunks)) = Chunks
  BY <1>1, ScannedIsSeq
<1>3. Chunks + Len(m) = n
  BY <1>2, ScannedIsSeq, ConcatProperties
<1>4. Len(m) \in Nat
  BY LenProperties
<1>5. Len(m) = 0 /\ n = Chunks
  BY <1>1, <1>3, <1>4
<1>6. QED
  BY <1>5, EmptySeq

\* The beginnings of a scan are its subsequences from 1.
LEMMA ScannedBegins ==
  ASSUME NEW c \in Calls, NEW n \in 0..Chunks
  PROVE  Scanned(c, n) = SubSeq(Scanned(c, Chunks), 1, n)
<1> DEFINE D == Scanned(c, Chunks)
<1>1. Chunks \in 0..Chunks /\ Chunks \in Nat /\ n \in Nat /\ n <= Chunks
  BY Constants
<1>2. D \in Seq(Chunk) /\ Len(D) = Chunks /\ \A i \in 1..Chunks : D[i] = <<c, i>>
  BY <1>1, ScannedIsSeq
<1>3. /\ Scanned(c, n) \in Seq(Chunk) /\ Len(Scanned(c, n)) = n
      /\ \A i \in 1..n : Scanned(c, n)[i] = <<c, i>>
  BY ScannedIsSeq
<1>4. /\ SubSeq(D, 1, n) \in Seq(Chunk) /\ Len(SubSeq(D, 1, n)) = n
      /\ \A i \in 1..n : SubSeq(D, 1, n)[i] = D[i]
  <2> HIDE DEF D
  <2>1. QED
    BY <1>1, <1>2
<1>5. \A i \in 1..n : SubSeq(D, 1, n)[i] = Scanned(c, n)[i]
  <2> HIDE DEF D
  <2>1. \A i \in 1..n : i \in 1..Chunks
    BY <1>1
  <2>2. QED
    BY <1>2, <1>3, <1>4, <2>1
<1>6. QED
  BY <1>3, <1>4, <1>5, SeqEqual
-----------------------------------------------------------------------------
(* What a call sent and read.  Its permission to write (OneWrite) carries  *)
(* the position of the scan: where the permission is, sent is what was     *)
(* read, up to the packet under construction.                              *)

ReadingPc == {"read", "sane_read", "write_more", "write_eof"}

SentInv(c) ==
  /\ \E n \in 0..Chunks : sent[c] = Scanned(c, n)
  /\ pc_ctor[c] \in {"params", "sane_params"} => position[c] = 0
  /\ outstanding[c] # 0 => sent[c] = Scanned(c, position[c])
  /\ \A w \in WriteThreads :
       /\ pc_write[c][w] = "write_ok" => sent[c] = Scanned(c, position[c])
       /\ pc_write[c][w] \in ReadingPc =>
            sent[c] \o m_byte_data[c] = Scanned(c, position[c])
       /\ pc_write[c][w] = "write_eof" => position[c] = Chunks

\* What a step relies on.
LEMMA StepFacts ==
  ASSUME ~Mock, Inv, NEW c \in Calls, Step(c)
  PROVE  /\ TypeInv /\ Order(c) /\ OneWrite(c) /\ OneStatusCall(c)
         /\ OthersSame(c)
         /\ OtherDevicesSame(c) \/ UNCHANGED sane_vars
         /\ DeviceOf[c] \in Devices \/ DeviceOf[c] = NoDevice
         /\ DeviceOf[c] \in Devices /\ ~Scan(c) => Owned(c)
<1>1. TypeInv /\ Order(c) /\ OneWrite(c) /\ OneStatusCall(c) /\ OthersSame(c)
  BY StepFrame DEF Inv, ReactorInv, OneWriteInv, OneStatusInv
<1>2. (DeviceOf[c] \in Devices /\ DeviceOf[c] # NoDevice) \/ DeviceOf[c] = NoDevice
  BY SaneAssumption
<1>3. CASE DeviceOf[c] = NoDevice
  <2>1. c \notin started
    BY <1>3 DEF Inv, DeviceInv, Active
  <2>2. UNCHANGED sane_vars
    BY <1>1, <1>3, <2>1, EmptyStep
  <2>3. DeviceOf[c] \notin Devices
    BY <1>3, SaneAssumption
  <2>4. QED
    BY <1>1, <1>3, <2>2, <2>3
<1>4. CASE DeviceOf[c] \in Devices /\ DeviceOf[c] # NoDevice /\ ~Scan(c)
  <2>1. Owned(c)
    BY <1>1, <1>4, StepActive DEF Inv, DeviceInv
  <2>2. OtherDevicesSame(c)
    BY <1>1, <1>4, <2>1, DeviceStep DEF Owned
  <2>3. QED
    BY <1>1, <1>4, <2>1, <2>2
<1>5. CASE Scan(c)
  <2>1. UNCHANGED sane_vars
    BY <1>5 DEF Scan
  <2>2. QED
    BY <1>1, <1>2, <1>5, <2>1
<1>6. QED
  BY <1>2, <1>3, <1>4, <1>5

\* The steps that neither read nor send.
LEMMA SentKept ==
  ASSUME NEW c \in Calls, SentInv(c),
         position'[c] = position[c], sent'[c] = sent[c], m_byte_data'[c] = m_byte_data[c],
         outstanding'[c] = outstanding[c], pc_write'[c] = pc_write[c],
         pc_ctor'[c] \in {"params", "sane_params"} => pc_ctor[c] \in {"params", "sane_params"}
  PROVE  SentInv(c)'
  BY DEF SentInv

LEMMA SentOthers ==
  ASSUME NEW c \in Calls, NEW b \in Calls \ {c}, SentInv(b), OthersSame(c),
         OtherDevicesSame(c) \/ UNCHANGED sane_vars
  PROVE  SentInv(b)'
<1>1. position'[b] = position[b]
  BY DEF OtherDevicesSame, sane_vars
<1>2. QED
  BY <1>1, SentKept DEF OthersSame

\* The constructor starts the scan at 0 and sends no data.
LEMMA SentCtor ==
  ASSUME ~Mock, Inv, NEW c \in Calls, SentInv(c), Scan(c) \/ CtorStep(c)
  PROVE  SentInv(c)'
<1>0. TypeInv /\ Order(c) /\ (DeviceOf[c] \in Devices /\ ~Scan(c) => Owned(c))
  BY StepFacts DEF Step, ClientStep
<1>1. /\ ~Engaged(c) /\ sent[c] = <<>> /\ pc_done[c] = "idle"
      /\ UNCHANGED <<pc_write, m_byte_data>>
  BY <1>0, CtorShape DEF Order
<1>2. ASSUME NEW from, NEW to, CtorGoto(c, from, to)
      PROVE  pc_ctor[c] = from /\ pc_ctor'[c] = to
  BY <1>0, <1>2 DEF CtorGoto, TypeInv, TypeOK
<1>3. CASE \/ Scan(c) \/ Open(c) \/ Start(c) \/ Params(c) \/ CtorFinish(c)
           \/ /\ CtorGoto(c, "sane_start", "finish_CANCELLED")
              /\ SaneStartFails(DeviceOf[c]) /\ UNCHANGED grpc_vars
  <2>1. UNCHANGED <<position, sent, outstanding>>
    BY <1>3
    DEF Scan, Open, OpenGood, OpenFails, Start, Params, CtorFinish, Finish,
        SaneStartFails, sane_vars, grpc_vars
  <2>2. pc_ctor'[c] \in {"params", "sane_params"} => pc_ctor[c] \in {"params", "sane_params"}
    BY <1>2, <1>3 DEF Scan, Open, Start, Params, CtorFinish
  <2>3. QED
    BY <1>1, <2>1, <2>2, SentKept
<1>4. CASE /\ CtorGoto(c, "sane_start", "params")
           /\ SaneStartGood(DeviceOf[c]) /\ UNCHANGED grpc_vars
  <2>1. pc_ctor[c] = "sane_start" /\ UNCHANGED <<sent, outstanding>>
    BY <1>2, <1>4 DEF grpc_vars
  <2>2. DeviceOf[c] \in Devices
    BY <1>0, <2>1, HasDevice DEF CtorPc
  <2>3. Handle(c) = c
    BY <1>0, <1>1, <1>4, <2>1, <2>2 DEF Owned, Scan, CtorGoto
  <2>4. position'[c] = 0
    BY <1>0, <1>4, <2>3
    DEF SaneStartGood, sane_start, Handle, Handles, TypeInv, TypeOK, SaneTypeOK
  <2>5. QED
    BY <1>1, <2>1, <2>4 DEF SentInv, Engaged, ReadingPc
<1>5. CASE SaneParams(c)
  <2>1. pc_ctor[c] = "sane_params" /\ position' = position /\ position[c] = 0
    BY <1>2, <1>5 DEF SaneParams, SentInv
  <2>2. CASE CtorGoto(c, "sane_params", "returned") /\ StartWrite(c, "params", <<>>)
    <3>1. pc_ctor'[c] = "returned"
      BY <1>2, <2>2
    <3>2. sent'[c] = <<>>
      BY <1>0, <1>1, <2>2, ConcatEmptySeq DEF StartWrite, TypeInv, TypeOK
    <3>3. sent'[c] = Scanned(c, 0) /\ 0 \in 0..Chunks
      BY <3>2, ScannedNone, Constants
    <3>4. position'[c] = 0
      BY <2>1
    <3>5. \A w \in WriteThreads : pc_write'[c][w] = "idle"
      BY <1>1 DEF Engaged
    <3>6. sent'[c] = Scanned(c, position'[c])
      BY <3>3, <3>4
    <3>7. QED
      BY <3>1, <3>3, <3>5, <3>6 DEF SentInv, ReadingPc
  <2>3. CASE UNCHANGED grpc_vars
    BY <1>1, <2>1, <2>3, SentKept DEF grpc_vars
  <2>4. QED
    BY <1>5, <2>2, <2>3 DEF SaneParams
<1>6. QED
  BY <1>3, <1>4, <1>5 DEF CtorStep, SaneStart

\* What the thread that may write does to the reading: the others do not
\* depend on it.
LEMMA SentWriter ==
  ASSUME NEW c \in Calls, NEW w \in WriteThreads, OneWrite(c),
         pc_write[c][w] \in WritingPc
  PROVE  /\ outstanding[c] = 0 /\ pc_ctor[c] = "returned"
         /\ \A v \in WriteThreads \ {w} : pc_write[c][v] \notin WritingPc
  BY DEF OneWrite, CtorRunning

\* Where the handle of a call at work is.
LEMMA EngagedDevice ==
  ASSUME ~Mock, Inv, NEW c \in Calls, NEW w \in WriteThreads, WriteStep(c, w)
  PROVE  /\ DeviceOf[c] \in Devices /\ Owned(c) /\ Handle(c) = c /\ c \in opened
         /\ Engaged(c) /\ pc_ctor[c] = "returned" /\ pc_done[c] = "idle"
         /\ Item(c, "params")
<1>1. TypeInv /\ Order(c) /\ (DeviceOf[c] \in Devices /\ ~Scan(c) => Owned(c))
  BY StepFacts DEF Step
<1>2. Engaged(c)
  BY <1>1, WriteShape
<1>3. DeviceOf[c] \in Devices
  BY <1>1, <1>2, SaneAssumption DEF TypeInv, EmptyReactor, Engaged
<1>4. pc_ctor[c] = "returned" /\ pc_done[c] = "idle" /\ Item(c, "params")
  BY <1>1, <1>2 DEF Order
<1>5. ~Scan(c)
  BY <1>4 DEF Scan, CtorGoto
<1>6. QED
  BY <1>1, <1>2, <1>3, <1>4, <1>5 DEF Owned, Scanning
\* OnWriteDone appends each chunk it reads to the packet, and writes it.
LEMMA SentWrite ==
  ASSUME ~Mock, Inv, NEW c \in Calls, NEW w \in WriteThreads, WriteStep(c, w), SentInv(c)
  PROVE  SentInv(c)'
<1>0. TypeInv /\ OneWrite(c) /\ Handle(c) = c /\ pc_ctor[c] = "returned"
  BY StepFacts, EngagedDevice DEF Step
<1>1. /\ sent[c] \in Seq(Chunk) /\ m_byte_data[c] \in Seq(Chunk)
      /\ position[c] \in 0..Chunks /\ Chunks \in Nat
  BY <1>0, Constants DEF TypeInv, TypeOK, SaneTypeOK, Handles
<1>2. pc_ctor'[c] = "returned"
  BY <1>0, WriteShape
<1>3. ASSUME NEW from, NEW to, WriteGoto(c, w, from, to)
      PROVE  /\ pc_write[c][w] = from /\ pc_write'[c][w] = to
             /\ \A v \in WriteThreads \ {w} : pc_write'[c][v] = pc_write[c][v]
  BY <1>0, <1>3 DEF WriteGoto, TypeInv, TypeOK
<1>4. ASSUME pc_write[c][w] \in WritingPc
      PROVE  /\ outstanding[c] = 0
             /\ \A v \in WriteThreads \ {w} : pc_write[c][v] \notin WritingPc
  BY <1>0, <1>4, SentWriter
<1> DEFINE Quiet == \A v \in WriteThreads \ {w} : pc_write'[c][v] \notin WritingPc
<1>5. CASE OnWriteDone(c, w)
  <2>1. UNCHANGED <<position, sent, outstanding>>
    BY <1>5 DEF OnWriteDone, sane_vars, grpc_vars
  <2>2. pc_write[c][w] \in {"write_ok", "write_failed"} /\ Quiet /\ outstanding[c] = 0
    BY <1>3, <1>4, <1>5 DEF OnWriteDone, WritingPc
  <2>3. CASE pc_write'[c][w] = "read"
    <3>1. pc_write[c][w] = "write_ok" /\ m_byte_data'[c] = <<>>
      BY <1>0, <1>3, <1>5, <2>3 DEF OnWriteDone, TypeInv, TypeOK
    <3>2. sent[c] \o <<>> = sent[c]
      BY <1>1, ConcatEmptySeq
    <3>3. sent'[c] \o m_byte_data'[c] = Scanned(c, position'[c])
      BY <2>1, <3>1, <3>2 DEF SentInv
    <3>4. QED
      BY <1>2, <2>1, <2>2, <2>3, <3>3 DEF SentInv, ReadingPc, WritingPc
  <2>4. CASE pc_write'[c][w] # "read"
    <3>1. pc_write'[c][w] \in {"finish_UNKNOWN", "idle"}
      BY <1>3, <1>5, <2>4 DEF OnWriteDone
    <3>2. QED
      BY <1>2, <2>1, <2>2, <3>1 DEF SentInv, ReadingPc, WritingPc
  <2>5. QED
    BY <2>3, <2>4
<1>6. CASE Read(c, w) \/ ReadNothing(c, w)
  <2>1. UNCHANGED <<position, sent, outstanding, m_byte_data>>
    BY <1>6
    DEF Read, ReadNothing, SaneReadEof, SaneReadFails, sane_vars, reactor_vars, grpc_vars
  <2>2. /\ pc_write[c][w] \in {"read", "sane_read"} /\ Quiet /\ outstanding[c] = 0
        /\ pc_write'[c][w] \in {"sane_read", "write_eof", "finish_ABORTED"}
    BY <1>3, <1>4, <1>6 DEF Read, ReadNothing, WritingPc
  <2>3. pc_write'[c][w] = "write_eof" => position[c] = Chunks
    BY <1>0, <1>3, <1>6 DEF Read, ReadNothing, SaneReadEof, Handle
  <2>4. sent[c] \o m_byte_data[c] = Scanned(c, position[c])
    BY <2>2 DEF SentInv, ReadingPc
  <2>5. QED
    BY <1>2, <2>1, <2>2, <2>3, <2>4 DEF SentInv, ReadingPc, WritingPc
<1>7. CASE ReadData(c, w)
  <2> DEFINE next == position[c] + 1
  <2>1. UNCHANGED <<sent, outstanding>>
    BY <1>7 DEF ReadData, grpc_vars
  <2>2. /\ pc_write[c][w] = "sane_read" /\ Quiet /\ outstanding[c] = 0
        /\ pc_write'[c][w] \in {"read", "write_more", "write_eof"}
    BY <1>3, <1>4, <1>7 DEF ReadData, WritingPc
  <2>3. position[c] < Chunks /\ position'[c] = next
    BY <1>0, <1>7
    DEF ReadData, SaneReadGood, Handle, Handles, TypeInv, TypeOK, SaneTypeOK
  <2>4. m_byte_data'[c] = Append(m_byte_data[c], <<c, next>>)
    BY <1>0, <1>7 DEF ReadData, Handle, TypeInv, TypeOK
  <2>5. sent[c] \o m_byte_data[c] = Scanned(c, position[c])
    BY <2>2 DEF SentInv, ReadingPc
  <2>6. sent[c] \o m_byte_data'[c] = Scanned(c, next)
    BY <1>1, <2>3, <2>4, <2>5, ScannedNext
  <2>7. pc_write'[c][w] = "write_eof" => next = Chunks
    BY <1>0, <1>3, <1>7 DEF ReadData, Handle
  <2>8. sent'[c] \o m_byte_data'[c] = Scanned(c, position'[c])
    BY <2>1, <2>3, <2>6
  <2>9. QED
    BY <1>2, <2>1, <2>2, <2>3, <2>7, <2>8 DEF SentInv, ReadingPc, WritingPc
<1>8. CASE WriteResponse(c, w)
  <2>1. position' = position /\ sent'[c] = sent[c] \o m_byte_data[c]
    BY <1>0, <1>8 DEF WriteResponse, StartWrite, sane_vars, TypeInv, TypeOK
  <2>2. /\ pc_write[c][w] \in {"write_more", "write_eof"} /\ Quiet
        /\ pc_write'[c][w] \in {"idle", "finish_OK"}
    BY <1>3, <1>4, <1>8 DEF WriteResponse, WritingPc
  <2>3. sent'[c] = Scanned(c, position'[c])
    BY <2>1, <2>2 DEF SentInv, ReadingPc
  <2>4. \E n \in 0..Chunks : sent'[c] = Scanned(c, n)
    BY <1>1, <2>1, <2>3
  <2>5. \A v \in WriteThreads : pc_write'[c][v] \notin ReadingPc \cup {"write_ok"}
    BY <2>2 DEF ReadingPc, WritingPc
  <2>6. QED
    BY <1>2, <2>3, <2>4, <2>5 DEF SentInv, ReadingPc
<1>9. CASE WriteFinish(c, w)
  <2>1. UNCHANGED <<position, sent, outstanding, m_byte_data>>
    BY <1>9 DEF WriteFinish, Finish, sane_vars
  <2>2. pc_write'[c][w] = "idle" /\ \A v \in WriteThreads \ {w} : pc_write'[c][v] = pc_write[c][v]
    BY <1>3, <1>9 DEF WriteFinish
  <2>3. QED
    BY <1>2, <2>1, <2>2 DEF SentInv, ReadingPc
<1>10. CASE DeliverWriteDone(c, w)
  <2>1. UNCHANGED <<position, sent, m_byte_data>>
    BY <1>10 DEF DeliverWriteDone, sane_vars, reactor_vars
  <2>2. /\ pc_write'[c][w] \in {"write_ok", "write_failed"}
        /\ \A v \in WriteThreads \ {w} : pc_write'[c][v] = pc_write[c][v]
    BY <1>3, <1>10 DEF DeliverWriteDone
  <2>3. outstanding[c] = 1 /\ outstanding'[c] = 0
    BY <1>0, <1>10 DEF DeliverWriteDone, OneWrite, TypeInv, TypeOK
  <2>4. \A v \in WriteThreads : pc_write'[c][v] \notin ReadingPc
    BY <1>0, <2>2, <2>3 DEF OneWrite, ReadingPc, WritingPc
  <2>5. sent'[c] = Scanned(c, position'[c])
    BY <2>1, <2>3 DEF SentInv
  <2>6. \E n \in 0..Chunks : sent'[c] = Scanned(c, n)
    BY <1>1, <2>1, <2>5
  <2>7. QED
    BY <1>2, <2>3, <2>4, <2>5, <2>6 DEF SentInv, ReadingPc
<1>11. QED
  BY <1>5, <1>6, <1>7, <1>8, <1>9, <1>10 DEF WriteStep

\* The remaining steps.
LEMMA SentRest ==
  ASSUME TypeInv, NEW c \in Calls, SentInv(c),
         ClientCancels(c) \/ ScannerError(c) \/ CancelStep(c) \/ DoneStep(c)
  PROVE  SentInv(c)'
<1>1. position' = position
  BY DEF ClientCancels, ScannerError, Jam, CancelStep, DeliverCancel, OnCancel, BeginCancel,
         CancelDevice, CallCancel, sane_cancel, EndCancel, DoneStep, DeliverDone, OnDone,
         CloseDevice, CallClose, sane_close, EndClose, sane_vars, backend_vars
<1>2. QED
  BY <1>1, RestShape, SentKept
-----------------------------------------------------------------------------
(* OK.  The thread that read the end of the scan writes the last packet    *)
(* and then finishes, while another may already be told that the packet    *)
(* was written: it is what a call may still write once it is ending that   *)
(* has to be empty.                                                        *)

FinishPcs == {"finish_OK", "finish_ABORTED", "finish_UNKNOWN"}

AllSent(c) == sent[c] = Scanned(c, Chunks)

Ending(c) == m_finished[c] \/ \E w \in WriteThreads : pc_write[c][w] \in FinishPcs

MayWrite(c) ==
  outstanding[c] # 0 \/ \E w \in WriteThreads : pc_write[c][w] \in WritingPc

WholeInv(c) ==
  /\ Item(c, "OK") \/ (\E w \in WriteThreads : pc_write[c][w] = "finish_OK") => AllSent(c)
  /\ Ending(c) /\ MayWrite(c) => AllSent(c)

LEMMA WholeKept ==
  ASSUME NEW c \in Calls, WholeInv(c),
         sent'[c] = sent[c], stream'[c] = stream[c], m_finished'[c] = m_finished[c],
         outstanding'[c] = outstanding[c], pc_write'[c] = pc_write[c]
  PROVE  WholeInv(c)'
  BY DEF WholeInv, Item, Ending, MayWrite, AllSent

\* The constructor ends a call only before anything is written.
LEMMA WholeCtor ==
  ASSUME TypeInv, NEW c \in Calls, Order(c), Scan(c) \/ CtorStep(c)
  PROVE  WholeInv(c)'
<1>1. /\ ~Engaged(c) /\ stream[c] = <<>> /\ ~m_finished[c] /\ pc_write' = pc_write
  BY CtorShape DEF Order
<1>2. \A w \in WriteThreads : pc_write'[c][w] = "idle"
  BY <1>1 DEF Engaged
<1>3. ~Item(c, "OK")
  BY <1>1 DEF Item
<1>4. CASE UNCHANGED <<outstanding, stream, m_finished>>
  BY <1>1, <1>2, <1>3, <1>4 DEF WholeInv, Item, Ending, FinishPcs
<1>5. CASE StartWrite(c, "params", <<>>) /\ UNCHANGED m_finished
  <2>1. stream'[c] = Append(stream[c], "params") /\ "params" \in Items
    BY <1>5 DEF StartWrite, Items, TypeInv, TypeOK
  <2>2. ~Item(c, "OK")'
    BY <1>3, <2>1, ItemAppended
  <2>3. ~Ending(c)'
    BY <1>1, <1>2, <1>5 DEF Ending, FinishPcs
  <2>4. QED
    BY <1>2, <2>2, <2>3 DEF WholeInv
<1>6. CASE \E status \in {"CANCELLED", "ABORTED"} : Finish(c, status)
  <2>1. PICK status \in {"CANCELLED", "ABORTED"} : Finish(c, status)
    BY <1>6
  <2>2. stream'[c] = Append(stream[c], status) /\ status \in Items
    BY <1>1, <2>1 DEF Finish, Items, Statuses, TypeInv, TypeOK
  <2>3. ~Item(c, "OK")'
    BY <1>3, <2>2, ItemAppended
  <2>4. ~MayWrite(c)'
    BY <1>1, <1>2, <2>1 DEF MayWrite, Engaged, WritingPc, Finish
  <2>5. QED
    BY <1>2, <2>3, <2>4 DEF WholeInv
<1>7. QED
  BY <1>4, <1>5, <1>6, CtorShape

\* A packet begun after the last chunk was sent is empty.
LEMMA PacketEmpty ==
  ASSUME TypeInv, NEW c \in Calls, NEW w \in WriteThreads, SentInv(c),
         pc_write[c][w] \in ReadingPc, AllSent(c)
  PROVE  m_byte_data[c] = <<>>
<1>1. m_byte_data[c] \in Seq(Chunk) /\ position[c] \in 0..Chunks
  BY DEF TypeInv, TypeOK, SaneTypeOK, Handles
<1>2. Scanned(c, Chunks) \o m_byte_data[c] = Scanned(c, position[c])
  BY DEF SentInv, AllSent
<1>3. QED
  BY <1>1, <1>2, ScannedWhole

LEMMA WholeWrite ==
  ASSUME ~Mock, Inv, NEW c \in Calls, NEW w \in WriteThreads, WriteStep(c, w),
         SentInv(c), WholeInv(c)
  PROVE  WholeInv(c)'
<1>0. TypeInv /\ OneWrite(c)
  BY StepFacts DEF Step
<1>1. ASSUME NEW from, NEW to, WriteGoto(c, w, from, to)
      PROVE  /\ pc_write[c][w] = from /\ pc_write'[c][w] = to
             /\ \A v \in WriteThreads \ {w} : pc_write'[c][v] = pc_write[c][v]
  BY <1>0, <1>1 DEF WriteGoto, TypeInv, TypeOK
<1>2. ASSUME pc_write[c][w] \in WritingPc
      PROVE  /\ outstanding[c] = 0
             /\ \A v \in WriteThreads \ {w} : pc_write[c][v] \notin WritingPc
  BY <1>0, <1>2, SentWriter
<1>3. ASSUME UNCHANGED <<stream, sent>>
      PROVE  (Item(c, "OK")' <=> Item(c, "OK")) /\ (AllSent(c)' <=> AllSent(c))
  BY <1>3 DEF Item, AllSent
<1>4. CASE \/ OnWriteDone(c, w) \/ Read(c, w) \/ ReadData(c, w) \/ ReadNothing(c, w)
  <2>1. UNCHANGED <<stream, sent, outstanding, m_finished>>
    BY <1>4 DEF OnWriteDone, Read, ReadData, ReadNothing, reactor_vars, grpc_vars
  <2>2. /\ pc_write[c][w] \in WritingPc
        /\ pc_write'[c][w] \in WritingPc \cup {"idle", "finish_ABORTED", "finish_UNKNOWN"}
        /\ \A v \in WriteThreads \ {w} : pc_write'[c][v] = pc_write[c][v]
    BY <1>1, <1>4 DEF OnWriteDone, Read, ReadData, ReadNothing, WritingPc
  <2>3. (\E v \in WriteThreads : pc_write'[c][v] = "finish_OK")
        => \E v \in WriteThreads : pc_write[c][v] = "finish_OK"
    BY <2>2 DEF WritingPc
  <2>4. MayWrite(c)' => pc_write'[c][w] \in WritingPc
    BY <1>2, <2>1, <2>2 DEF MayWrite
  <2>5. pc_write'[c][w] \in WritingPc /\ Ending(c)' => Ending(c) /\ MayWrite(c)
    BY <2>1, <2>2 DEF Ending, MayWrite, FinishPcs, WritingPc
  <2>6. QED
    BY <1>3, <2>1, <2>3, <2>4, <2>5 DEF WholeInv
<1>5. CASE WriteResponse(c, w)
  <2>1. /\ pc_write[c][w] \in {"write_more", "write_eof"}
        /\ pc_write'[c][w] = IF pc_write[c][w] = "write_eof" THEN "finish_OK" ELSE "idle"
        /\ \A v \in WriteThreads \ {w} : pc_write'[c][v] = pc_write[c][v]
        /\ m_finished' = m_finished
    BY <1>1, <1>5 DEF WriteResponse, reactor_vars
  <2>2. sent'[c] = sent[c] \o m_byte_data[c]
    BY <1>0, <1>5 DEF WriteResponse, StartWrite, TypeInv, TypeOK
  <2>3. \E x \in {"data", "empty"} : stream'[c] = Append(stream[c], x)
    BY <1>0, <1>5 DEF WriteResponse, StartWrite, TypeInv, TypeOK
  <2>4. Item(c, "OK")' => Item(c, "OK")
    BY <1>0, <2>3, ItemAppended DEF Items
  <2>5. AllSent(c) => AllSent(c)'
    <3>1. SUFFICES ASSUME AllSent(c) PROVE AllSent(c)'
      OBVIOUS
    <3>2. m_byte_data[c] = <<>>
      BY <1>0, <2>1, <3>1, PacketEmpty DEF ReadingPc
    <3>3. sent[c] \o <<>> = sent[c]
      BY <1>0, ConcatEmptySeq DEF TypeInv, TypeOK
    <3>4. QED
      BY <2>2, <3>1, <3>2, <3>3 DEF AllSent
  <2>6. pc_write[c][w] = "write_eof" => AllSent(c)'
    BY <2>2 DEF SentInv, ReadingPc, AllSent
  <2>7. MayWrite(c)
    BY <2>1 DEF MayWrite, WritingPc
  <2>8. CASE pc_write[c][w] = "write_eof"
    BY <2>6, <2>8 DEF WholeInv
  <2>9. CASE pc_write[c][w] = "write_more"
    <3>1. Ending(c)' => Ending(c)
      BY <2>1, <2>9 DEF Ending, FinishPcs
    <3>2. (\E v \in WriteThreads : pc_write'[c][v] = "finish_OK")
          => \E v \in WriteThreads : pc_write[c][v] = "finish_OK"
      BY <2>1, <2>9
    <3>3. QED
      BY <2>4, <2>5, <2>7, <3>1, <3>2 DEF WholeInv
  <2>10. QED
    BY <2>1, <2>8, <2>9
<1>6. CASE WriteFinish(c, w)
  <2>1. PICK status \in {"OK", "ABORTED", "UNKNOWN"} :
          WriteGoto(c, w, FinishPc(status), "idle") /\ Finish(c, status)
    BY <1>6 DEF WriteFinish
  <2>2. /\ pc_write[c][w] = FinishPc(status) /\ pc_write'[c][w] = "idle"
        /\ \A v \in WriteThreads \ {w} : pc_write'[c][v] = pc_write[c][v]
        /\ UNCHANGED <<outstanding, sent>>
    BY <1>1, <2>1 DEF Finish
  <2>3. Item(c, "OK")' => Item(c, "OK") \/ status = "OK"
    <3>1. stream'[c] = stream[c] \/ stream'[c] = Append(stream[c], status)
      BY <1>0, <2>1 DEF Finish, TypeInv, TypeOK
    <3>2. QED
      BY <1>0, <3>1, ItemAppended DEF Items, Statuses, Item
  <2>4. status = "OK" => pc_write[c][w] = "finish_OK"
    BY <2>2 DEF FinishPc
  <2>5. Ending(c)
    BY <2>2 DEF Ending, FinishPc, FinishPcs
  <2>6. MayWrite(c)' => MayWrite(c)
    BY <2>2 DEF MayWrite, WritingPc
  <2>7. (\E v \in WriteThreads : pc_write'[c][v] = "finish_OK")
        => \E v \in WriteThreads : pc_write[c][v] = "finish_OK"
    BY <2>2
  <2>8. AllSent(c)' <=> AllSent(c)
    BY <2>2 DEF AllSent
  <2>9. QED
    BY <2>3, <2>4, <2>5, <2>6, <2>7, <2>8 DEF WholeInv
<1>7. CASE DeliverWriteDone(c, w)
  <2>1. /\ UNCHANGED <<stream, sent, m_finished>>
        /\ outstanding[c] > 0
    BY <1>7 DEF DeliverWriteDone, reactor_vars
  <2>2. /\ pc_write[c][w] = "idle" /\ pc_write'[c][w] \in {"write_ok", "write_failed"}
        /\ \A v \in WriteThreads \ {w} : pc_write'[c][v] = pc_write[c][v]
    BY <1>1, <1>7 DEF DeliverWriteDone
  <2>3. MayWrite(c)
    BY <1>0, <2>1 DEF MayWrite, TypeInv, TypeOK
  <2>4. Ending(c)' => Ending(c)
    BY <2>1, <2>2 DEF Ending, FinishPcs
  <2>5. (\E v \in WriteThreads : pc_write'[c][v] = "finish_OK")
        => \E v \in WriteThreads : pc_write[c][v] = "finish_OK"
    BY <2>2
  <2>6. QED
    BY <1>3, <2>1, <2>3, <2>4, <2>5 DEF WholeInv
<1>8. QED
  BY <1>4, <1>5, <1>6, <1>7 DEF WriteStep

-----------------------------------------------------------------------------
(* The causes of failures.                                                 *)

\* FailureHasCause, and what a thread that is about to fail the call knows.
CauseInv(c) ==
  /\ Item(c, "ABORTED") \/ (\E w \in WriteThreads : pc_write[c][w] = "finish_ABORTED") =>
       IF Item(c, "params") THEN broken[c] \/ c \in jammed ELSE DeviceOf[c] = NoDevice
  /\ \/ Item(c, "UNKNOWN")
     \/ \E w \in WriteThreads : pc_write[c][w] \in {"write_failed", "finish_UNKNOWN"}
     => Item(c, "params") /\ broken[c]
  /\ Item(c, "CANCELLED") => ~Item(c, "params") /\ DeviceOf[c] # NoDevice

LEMMA CauseKept ==
  ASSUME NEW c \in Calls, CauseInv(c),
         stream'[c] = stream[c], pc_write'[c] = pc_write[c],
         broken[c] => broken'[c], c \in jammed => c \in jammed'
  PROVE  CauseInv(c)'
<1>1. ASSUME NEW x PROVE Item(c, x)' <=> Item(c, x)
  BY DEF Item
<1>2. /\ Item(c, "params")' <=> Item(c, "params")
      /\ Item(c, "ABORTED")' <=> Item(c, "ABORTED")
      /\ Item(c, "UNKNOWN")' <=> Item(c, "UNKNOWN")
      /\ Item(c, "CANCELLED")' <=> Item(c, "CANCELLED")
  BY <1>1
<1>3. QED
  BY <1>2 DEF CauseInv

\* The constructor announces the scan, or fails before: ABORTED when it has no
\* device, and then only.
LEMMA CauseCtor ==
  ASSUME ~Mock, Inv, NEW c \in Calls, Scan(c) \/ CtorStep(c), CauseInv(c)
  PROVE  CauseInv(c)'
<1>0. /\ TypeInv /\ Order(c)
      /\ DeviceOf[c] \in Devices \/ DeviceOf[c] = NoDevice
      /\ DeviceOf[c] \in Devices /\ ~Scan(c) => Owned(c)
  BY StepFacts DEF Step, ClientStep
<1>1. ~Engaged(c) /\ stream[c] = <<>> /\ pc_write' = pc_write
  BY <1>0, CtorShape DEF Order
<1>2. \A w \in WriteThreads : pc_write'[c][w] = "idle"
  BY <1>1 DEF Engaged
<1>3. ASSUME NEW x PROVE ~Item(c, x)
  BY <1>1 DEF Item
<1>4. CASE stream' = stream
  <2>1. ~Item(c, "ABORTED")' /\ ~Item(c, "UNKNOWN")' /\ ~Item(c, "CANCELLED")'
    BY <1>1, <1>4 DEF Item
  <2>2. QED
    BY <1>2, <2>1 DEF CauseInv
<1>5. CASE StartWrite(c, "params", <<>>)
  <2>1. stream'[c] = Append(stream[c], "params") /\ "params" \in Items
    BY <1>0, <1>5 DEF StartWrite, Items, TypeInv, TypeOK
  <2>2. ~Item(c, "ABORTED")' /\ ~Item(c, "UNKNOWN")' /\ ~Item(c, "CANCELLED")'
    BY <1>0, <1>3, <2>1, ItemAppended
  <2>3. QED
    BY <1>2, <2>2 DEF CauseInv
<1>6. CASE \E status \in {"CANCELLED", "ABORTED"} :
             pc_ctor[c] = FinishPc(status) /\ Finish(c, status)
  <2>1. PICK status \in {"CANCELLED", "ABORTED"} :
          pc_ctor[c] = FinishPc(status) /\ Finish(c, status)
    BY <1>6
  <2>2. stream'[c] = stream[c] \/ stream'[c] = Append(stream[c], status)
    BY <1>0, <2>1 DEF Finish, TypeInv, TypeOK
  <2>3. status \in Items
    BY DEF Items, Statuses
  <2>4. ASSUME NEW x, x # status PROVE ~Item(c, x)'
    <3>1. CASE stream'[c] = stream[c]
      BY <1>1, <3>1 DEF Item
    <3>2. CASE stream'[c] = Append(stream[c], status)
      BY <1>0, <1>3, <2>3, <2>4, <3>2, ItemAppended
    <3>3. QED
      BY <2>2, <3>1, <3>2
  <2>5. ~Item(c, "params")' /\ ~Item(c, "UNKNOWN")'
    BY <2>4
  <2>6. CASE status = "ABORTED"
    <3>1. DeviceOf[c] = NoDevice
      BY <1>0, <2>1, <2>6 DEF Owned, FinishPc, Scan, CtorGoto
    <3>2. ~Item(c, "CANCELLED")'
      BY <2>4, <2>6
    <3>3. QED
      BY <1>2, <2>5, <3>1, <3>2 DEF CauseInv
  <2>7. CASE status = "CANCELLED"
    <3>1. DeviceOf[c] # NoDevice
      BY <1>0, <2>1, <2>7 DEF FinishPc, TypeInv, EmptyReactor
    <3>2. ~Item(c, "ABORTED")'
      BY <2>4, <2>7
    <3>3. QED
      BY <1>2, <2>5, <3>1, <3>2 DEF CauseInv
  <2>8. QED
    BY <2>6, <2>7
<1>7. QED
  BY <1>0, <1>4, <1>5, <1>6, CtorShape

\* What a step of OnWriteDone adds to the stream, its thread at status if it is
\* Finish.
LEMMA WriteAppends ==
  ASSUME TypeInv, NEW c \in Calls, NEW w \in WriteThreads, WriteStep(c, w)
  PROVE  \/ stream'[c] = stream[c]
         \/ \E x \in {"data", "empty"} : stream'[c] = Append(stream[c], x)
         \/ \E x \in {"OK", "ABORTED", "UNKNOWN"} :
              stream'[c] = Append(stream[c], x) /\ pc_write[c][w] = FinishPc(x)
<1>1. CASE OnWriteDone(c, w) \/ Read(c, w) \/ ReadData(c, w) \/ ReadNothing(c, w)
           \/ DeliverWriteDone(c, w)
  BY <1>1 DEF OnWriteDone, Read, ReadData, ReadNothing, DeliverWriteDone, grpc_vars
<1>2. CASE WriteResponse(c, w)
  BY <1>2 DEF WriteResponse, StartWrite, TypeInv, TypeOK
<1>3. CASE WriteFinish(c, w)
  <2>1. PICK x \in {"OK", "ABORTED", "UNKNOWN"} :
          WriteGoto(c, w, FinishPc(x), "idle") /\ Finish(c, x)
    BY <1>3 DEF WriteFinish
  <2>2. stream'[c] = stream[c] \/ stream'[c] = Append(stream[c], x)
    BY <2>1 DEF Finish, TypeInv, TypeOK
  <2>3. pc_write[c][w] = FinishPc(x)
    BY <2>1 DEF WriteGoto
  <2>4. QED
    BY <2>2, <2>3
<1>4. QED
  BY <1>1, <1>2, <1>3 DEF WriteStep

\* A read is refused or fails only when the call is cancelled or its scanner
\* jammed, and a write only when the client is gone: nobody else stops the scan.
LEMMA CauseWrite ==
  ASSUME ~Mock, Inv, NEW c \in Calls, NEW w \in WriteThreads, WriteStep(c, w), CauseInv(c)
  PROVE  CauseInv(c)'
<1>0. /\ TypeInv /\ Order(c) /\ Owned(c) /\ Handle(c) = c /\ c \in opened /\ Engaged(c)
      /\ c # NoHandle /\ Item(c, "params")
  BY StepFacts, EngagedDevice, SaneAssumption DEF Step
<1>1. ASSUME NEW from, NEW to, WriteGoto(c, w, from, to)
      PROVE  /\ pc_write[c][w] = from /\ pc_write'[c][w] = to
             /\ \A v \in WriteThreads \ {w} : pc_write'[c][v] = pc_write[c][v]
  BY <1>0, <1>1 DEF WriteGoto, TypeInv, TypeOK
<1>2. broken' = broken /\ jammed' = jammed
  BY WriteShape, <1>0
  DEF WriteStep, OnWriteDone, Read, ReadData, ReadNothing, SaneReadGood, SaneReadEof,
      SaneReadFails, WriteResponse, WriteFinish, DeliverWriteDone, sane_vars
<1>3. pc_cancel[c] \in {"idle", "cancel"} \/ broken[c]
  BY <1>0 DEF Order
<1>4. Scanning(c)
  BY <1>0 DEF Scanning
\* The stream.
<1> DEFINE Accounted ==
      /\ Item(c, "params")' /\ ~Item(c, "CANCELLED")'
      /\ Item(c, "ABORTED")' => Item(c, "ABORTED") \/ pc_write[c][w] = "finish_ABORTED"
      /\ Item(c, "UNKNOWN")' => Item(c, "UNKNOWN") \/ pc_write[c][w] = "finish_UNKNOWN"
<1>5. Accounted
  <2>1. ~Item(c, "CANCELLED")
    BY <1>0 DEF CauseInv
  <2>2. CASE stream'[c] = stream[c]
    BY <1>0, <2>1, <2>2 DEF Item
  <2>3. ASSUME NEW x \in {"data", "empty"}, stream'[c] = Append(stream[c], x)
        PROVE  Accounted
    BY <1>0, <2>1, <2>3, ItemAppended DEF Items
  <2>4. ASSUME NEW x \in {"OK", "ABORTED", "UNKNOWN"}, stream'[c] = Append(stream[c], x),
               pc_write[c][w] = FinishPc(x)
        PROVE  Accounted
    BY <1>0, <2>1, <2>4, ItemAppended DEF Items, Statuses, FinishPc
  <2>5. QED
    BY <1>0, <2>2, <2>3, <2>4, WriteAppends
\* The threads.
<1>6. \A v \in WriteThreads \ {w} : pc_write'[c][v] = pc_write[c][v]
  BY <1>1 DEF WriteStep, OnWriteDone, Read, ReadData, ReadNothing, WriteResponse,
              WriteFinish, DeliverWriteDone
<1>7. pc_write'[c][w] = "finish_ABORTED" => broken[c] \/ c \in jammed
  <2>1. CASE Read(c, w)
    <3>1. pc_write'[c][w] = "finish_ABORTED" => ~ReadPermitted(DeviceOf[c])
      BY <1>1, <2>1 DEF Read
    <3>2. QED
      BY <1>0, <1>3, <1>4, <3>1 DEF ReadPermitted, Owned, Handle, State
  <2>2. CASE ReadNothing(c, w)
    <3>1. pc_write'[c][w] = "finish_ABORTED" => SaneReadFails(DeviceOf[c])
      BY <1>1, <2>2 DEF ReadNothing
    <3>2. SaneReadFails(DeviceOf[c]) => c \notin started \/ c \in jammed
      BY <1>0 DEF SaneReadFails, Misuse, Handle
    <3>3. QED
      BY <1>0, <1>3, <1>4, <3>1, <3>2 DEF Owned
  <2>3. CASE \/ OnWriteDone(c, w) \/ ReadData(c, w) \/ DeliverWriteDone(c, w)
            \/ WriteResponse(c, w) \/ WriteFinish(c, w)
    BY <1>1, <2>3 DEF OnWriteDone, ReadData, DeliverWriteDone, WriteResponse, WriteFinish
  <2>4. QED
    BY <2>1, <2>2, <2>3 DEF WriteStep
<1>8. pc_write'[c][w] \in {"write_failed", "finish_UNKNOWN"} => broken[c]
  <2>1. CASE OnWriteDone(c, w)
    <3>1. pc_write'[c][w] \in {"write_failed", "finish_UNKNOWN"} =>
            pc_write[c][w] = "write_failed"
      BY <1>1, <2>1 DEF OnWriteDone
    <3>2. QED
      BY <3>1 DEF CauseInv
  <2>2. CASE DeliverWriteDone(c, w)
    BY <1>1, <2>2 DEF DeliverWriteDone
  <2>3. CASE \/ Read(c, w) \/ ReadData(c, w) \/ ReadNothing(c, w)
            \/ WriteResponse(c, w) \/ WriteFinish(c, w)
    BY <1>1, <2>3 DEF Read, ReadData, ReadNothing, WriteResponse, WriteFinish
  <2>4. QED
    BY <2>1, <2>2, <2>3 DEF WriteStep
<1>9. QED
  BY <1>0, <1>2, <1>5, <1>6, <1>7, <1>8 DEF CauseInv

\* The remaining steps.
LEMMA CauseRest ==
  ASSUME TypeInv, NEW c \in Calls, CauseInv(c),
         ClientCancels(c) \/ ScannerError(c) \/ CancelStep(c) \/ DoneStep(c)
  PROVE  CauseInv(c)'
<1>1. broken[c] => broken'[c]
  BY DEF ClientCancels, ScannerError, CancelStep, DeliverCancel, OnCancel, CancelDevice,
         DoneStep, DeliverDone, OnDone, CloseDevice, CancelGoto, DoneGoto, TypeInv, TypeOK
<1>2. jammed \subseteq jammed'
  BY DEF ClientCancels, ScannerError, Jam, CancelStep, DeliverCancel, OnCancel, BeginCancel,
         CancelDevice, CallCancel, sane_cancel, EndCancel, DoneStep, DeliverDone, OnDone,
         CloseDevice, CallClose, sane_close, EndClose, sane_vars, backend_vars
<1>3. QED
  BY <1>1, <1>2, RestShape, CauseKept
-----------------------------------------------------------------------------
(* Theorems.                                                               *)

StreamInv == Inv /\ \A c \in Calls : SentInv(c) /\ WholeInv(c) /\ CauseInv(c)

LEMMA StreamInit == Init => StreamInv
<1>1. ASSUME Init, NEW c \in Calls PROVE SentInv(c) /\ WholeInv(c) /\ CauseInv(c)
  <2>1. /\ sent[c] = <<>> /\ stream[c] = <<>> /\ ~m_finished[c] /\ outstanding[c] = 0
        /\ pc_ctor[c] = "new" /\ \A w \in WriteThreads : pc_write[c][w] = "idle"
    BY <1>1 DEF Init
  <2>2. sent[c] = Scanned(c, 0) /\ 0 \in 0..Chunks
    BY <2>1, ScannedNone, Constants
  <2>3. SentInv(c)
    BY <2>1, <2>2 DEF SentInv, ReadingPc
  <2>4. QED
    BY <2>1, <2>3 DEF WholeInv, CauseInv, Item, Ending, FinishPcs
<1>2. QED
  BY <1>1, InvInit DEF StreamInv

LEMMA StreamStep ==
  ASSUME ~Mock, StreamInv, [Next /\ NoSharing]_vars
  PROVE  StreamInv'
<1>1. Inv /\ Inv'
  BY InvStep DEF StreamInv
<1>2. CASE UNCHANGED vars
  <2>1. UNCHANGED <<position, jammed, sent, m_byte_data, m_finished, outstanding,
                    stream, pc_write, pc_ctor, broken>>
    BY <1>2 DEF vars, sane_vars, reactor_vars, grpc_vars
  <2>2. QED
    BY <1>1, <2>1, SentKept, WholeKept, CauseKept DEF StreamInv
<1>3. CASE Next
  <2>1. PICK c \in Calls : Step(c)
    BY <1>3, NextIsStep
  <2>2. /\ TypeInv /\ Order(c) /\ OthersSame(c)
        /\ OtherDevicesSame(c) \/ UNCHANGED sane_vars
    BY <1>1, <2>1, StepFacts
  <2>3. SentInv(c)' /\ WholeInv(c)' /\ CauseInv(c)'
    <3>0. SentInv(c) /\ WholeInv(c) /\ CauseInv(c)
      BY DEF StreamInv
    <3>1. CASE Scan(c) \/ CtorStep(c)
      BY <1>1, <2>2, <3>0, <3>1, SentCtor, WholeCtor, CauseCtor
    <3>2. CASE \E w \in WriteThreads : WriteStep(c, w)
      BY <1>1, <2>2, <3>0, <3>2, SentWrite, WholeWrite, CauseWrite
    <3>3. CASE ClientCancels(c) \/ ScannerError(c) \/ CancelStep(c) \/ DoneStep(c)
      BY <2>2, <3>0, <3>3, RestShape, SentRest, WholeKept, CauseRest
    <3>4. QED
      BY <2>1, <3>1, <3>2, <3>3 DEF Step, ClientStep
  <2>4. ASSUME NEW b \in Calls \ {c} PROVE SentInv(b)' /\ WholeInv(b)' /\ CauseInv(b)'
    <3>1. SentInv(b) /\ WholeInv(b) /\ CauseInv(b)
      BY DEF StreamInv
    <3>2. b \in jammed => b \in jammed'
      BY <2>2 DEF OtherDevicesSame, sane_vars
    <3>3. QED
      BY <2>2, <3>1, <3>2, SentOthers, WholeKept, CauseKept DEF OthersSame
  <2>5. QED
    BY <1>1, <2>3, <2>4 DEF StreamInv
<1>4. QED
  BY <1>2, <1>3

LEMMA StreamAlways ==
  ASSUME ~Mock
  PROVE  NoSharingSpec => []StreamInv
<1>1. StreamInv /\ [Next /\ NoSharing]_vars => StreamInv'
  BY StreamStep
<1>2. QED
  BY <1>1, StreamInit, PTL DEF NoSharingSpec

\* No chunk is lost, repeated or taken from another scan, however many threads
\* gRPC uses and whatever other calls do.
THEOREM NoChunkIsLost ==
  ASSUME ~Mock
  PROVE  NoSharingSpec => []ChunksInOrder
<1>1. StreamInv => ChunksInOrder
  BY DEF StreamInv, SentInv, ReadingPc, ChunksInOrder
<1>2. QED
  BY <1>1, StreamAlways, PTL

\* The client is told OK only after the last chunk was sent.
THEOREM OkIsOfWholeScan ==
  ASSUME ~Mock
  PROVE  NoSharingSpec => []OkMeansComplete
<1>1. StreamInv => OkMeansComplete
  BY DEF StreamInv, WholeInv, AllSent, OkMeansComplete
<1>2. QED
  BY <1>1, StreamAlways, PTL

\* Whatever other calls do, with the same scanner too, a call whose parameters
\* were sent is ABORTED only when its client is gone or its scanner failed,
\* UNKNOWN only when its client is gone, and never CANCELLED; a call that fails
\* before is CANCELLED, or ABORTED for want of a device.  (That its scanner is
\* open for another call is a reason for the CANCELLED, and for that only.)
THEOREM FailuresHaveCauses ==
  ASSUME ~Mock
  PROVE  NoSharingSpec => []FailureHasCause
<1>1. StreamInv => FailureHasCause
  BY DEF StreamInv, CauseInv, FailureHasCause
<1>2. QED
  BY <1>1, StreamAlways, PTL
-----------------------------------------------------------------------------
(* ScanReactor implements ScanStream, call by call.                        *)

\* The status in a stream.
StatusIn(q) ==
  IF \E s \in Statuses : \E i \in DOMAIN q : q[i] = s
  THEN CHOOSE s \in Statuses : \E i \in DOMAIN q : q[i] = s ELSE "none"

LEMMA StatusOfStream ==
  ASSUME NEW c \in Calls
  PROVE  Status(c) = StatusIn(stream[c]) /\ Status(c)' = StatusIn(stream'[c])
  BY DEF Status, StatusIn, Item

LEMMA StatusInOne ==
  ASSUME NEW q, NEW i \in DOMAIN q, q[i] \in Statuses,
         \A j, k \in DOMAIN q : q[j] \in Statuses /\ q[k] \in Statuses => j = k
  PROVE  StatusIn(q) = q[i]
<1>1. \A s \in Statuses : (\E j \in DOMAIN q : q[j] = s) <=> s = q[i]
  OBVIOUS
<1>2. QED
  BY <1>1 DEF StatusIn

\* The status of a call before and after a step.
LEMMA StatusStep ==
  ASSUME NEW c \in Calls, TypeInv, OneStatusCall(c), OneStatusCall(c)'
  PROVE  /\ ~m_finished[c] => Status(c) = "none"
         /\ \A x \in Statuses : stream'[c] = Append(stream[c], x) => Status(c)' = x
         /\ \A x \in Items \ Statuses :
              stream'[c] = Append(stream[c], x) => Status(c)' = Status(c)
         /\ stream'[c] = stream[c] => Status(c)' = Status(c)
<1> DEFINE q == stream[c]
           r == stream'[c]
<1>0. q \in Seq(Items)
  BY DEF TypeInv, TypeOK
<1>1. /\ Status(c) = StatusIn(q) /\ Status(c)' = StatusIn(r)
      /\ \A j, k \in DOMAIN q : q[j] \in Statuses /\ q[k] \in Statuses => j = k
      /\ \A j, k \in DOMAIN r : r[j] \in Statuses /\ r[k] \in Statuses => j = k
      /\ m_finished[c] <=> \E i \in DOMAIN q : q[i] \in Statuses
  BY StatusOfStream DEF OneStatusCall, StatusAt
<1> HIDE DEF q, r
<1>2. (\A i \in DOMAIN q : q[i] \notin Statuses) => StatusIn(q) = "none"
  BY DEF StatusIn
<1>3. ASSUME NEW x \in Statuses, r = Append(q, x) PROVE StatusIn(r) = x
  <2>1. x \in Items
    BY DEF Items
  <2>2. Len(q) + 1 \in DOMAIN r /\ r[Len(q) + 1] = x
    BY <1>0, <1>3, <2>1, AppendItem
  <2>3. QED
    BY <1>1, <2>2, StatusInOne
<1>4. ASSUME NEW x \in Items \ Statuses, r = Append(q, x) PROVE StatusIn(r) = StatusIn(q)
  <2>1. /\ DOMAIN r = DOMAIN q \cup {Len(q) + 1} /\ r[Len(q) + 1] = x
        /\ \A i \in DOMAIN q : r[i] = q[i]
    BY <1>0, <1>4, AppendItem
  <2>2. CASE \E i \in DOMAIN q : q[i] \in Statuses
    <3>1. PICK i \in DOMAIN q : q[i] \in Statuses
      BY <2>2
    <3>2. i \in DOMAIN r /\ r[i] = q[i]
      BY <2>1
    <3>3. StatusIn(q) = q[i]
      BY <1>1, <3>1, StatusInOne
    <3>4. StatusIn(r) = r[i]
      BY <1>1, <3>1, <3>2, StatusInOne
    <3>5. QED
      BY <3>2, <3>3, <3>4
  <2>3. CASE \A i \in DOMAIN q : q[i] \notin Statuses
    <3>1. \A i \in DOMAIN r : r[i] \notin Statuses
      BY <2>1, <2>3
    <3>2. StatusIn(r) = "none"
      BY <3>1 DEF StatusIn
    <3>3. QED
      BY <1>2, <2>3, <3>2
  <2>4. QED
    BY <2>2, <2>3
<1>5. QED
  BY <1>1, <1>2, <1>3, <1>4 DEF q, r

\* A step that neither sends nor calls is invisible to the client.
LEMMA Invisible ==
  ASSUME NEW c \in Calls, TypeInv, OneStatusCall(c), OneStatusCall(c)',
         stream'[c] = stream[c], sent'[c] = sent[c],
         pc_ctor'[c] # "new" <=> pc_ctor[c] # "new"
  PROVE  UNCHANGED Stream(c)!vars
<1>1. Status(c)' = Status(c)
  BY StatusStep
<1>2. Item(c, "params")' <=> Item(c, "params")
  BY DEF Item
<1>3. (Item(c, "params"))' = Item(c, "params")
  BY <1>2 DEF Item
<1>4. (pc_ctor[c] # "new")' = (pc_ctor[c] # "new")
  OBVIOUS
<1>5. QED
  BY <1>1, <1>3, <1>4 DEF Stream!vars

\* The constructor.
LEMMA PromiseCtor ==
  ASSUME NEW c \in Calls, TypeInv, Order(c), OneStatusCall(c), OneStatusCall(c)',
         Scan(c) \/ CtorStep(c)
  PROVE  [Stream(c)!Next]_(Stream(c)!vars)
<1>1. stream[c] = <<>> /\ ~m_finished[c]
  BY CtorShape DEF Order
<1>2. Status(c) = "none" /\ ~Item(c, "params")
  BY <1>1, StatusStep DEF Item
<1>3. pc_ctor'[c] # "new" /\ (CtorStep(c) => pc_ctor[c] # "new")
  <2>1. ASSUME NEW from, NEW to, CtorGoto(c, from, to)
        PROVE  pc_ctor[c] = from /\ pc_ctor'[c] = to
    BY <2>1 DEF CtorGoto, TypeInv, TypeOK
  <2>2. CASE Scan(c)
    BY <2>1, <2>2
    DEF Scan, CtorStep, Open, Start, SaneStart, Params, SaneParams, CtorFinish, FinishPc
  <2>3. CASE CtorStep(c)
    BY <2>1, <2>3
    DEF CtorStep, Open, Start, SaneStart, Params, SaneParams, CtorFinish, FinishPc
  <2>4. QED
    BY <2>2, <2>3
<1>4. CASE UNCHANGED <<outstanding, stream, sent, m_finished>>
  <2>1. CASE pc_ctor[c] # "new"
    BY <1>3, <1>4, <2>1, Invisible
  <2>2. CASE pc_ctor[c] = "new"
    <3>1. Status(c)' = Status(c)
      BY <1>4, StatusStep
    <3>2. Stream(c)!Call
      BY <1>3, <1>4, <2>2, <3>1 DEF Stream!Call, Item
    <3>3. QED
      BY <3>2 DEF Stream!Next
  <2>3. QED
    BY <2>1, <2>2
<1>5. CASE pc_ctor[c] = "sane_params" /\ StartWrite(c, "params", <<>>)
  <2>1. /\ stream'[c] = Append(stream[c], "params")
        /\ "params" \in Items \ Statuses
    BY <1>5 DEF StartWrite, Items, Statuses, TypeInv, TypeOK
  <2>2. Item(c, "params")' /\ Status(c)' = Status(c)
    BY <2>1, ItemAppended, StatusStep
  <2>3. sent'[c] = sent[c]
    BY <1>5, ConcatEmptySeq DEF StartWrite, TypeInv, TypeOK
  <2>4. Stream(c)!Announce
    BY <1>2, <1>3, <1>5, <2>2, <2>3 DEF Stream!Announce, Stream!Open
  <2>5. QED
    BY <2>4 DEF Stream!Next
<1>6. CASE \E status \in {"CANCELLED", "ABORTED"} :
             pc_ctor[c] = FinishPc(status) /\ Finish(c, status)
  <2>1. PICK status \in {"CANCELLED", "ABORTED"} :
          pc_ctor[c] = FinishPc(status) /\ Finish(c, status)
    BY <1>6
  <2>2. stream'[c] = Append(stream[c], status) /\ sent' = sent
    BY <1>1, <2>1 DEF Finish, TypeInv, TypeOK
  <2>3. Status(c)' = status
    BY <2>2, StatusStep DEF Statuses
  <2>4. Item(c, "params")' <=> Item(c, "params")
    BY <2>2, ItemAppended DEF Items, Statuses
  <2>5. pc_ctor[c] # "new"
    BY <2>1 DEF FinishPc
  <2>6. Stream(c)!End
    BY <1>2, <1>3, <2>2, <2>3, <2>4, <2>5 DEF Stream!End, Stream!Open, Item
  <2>7. QED
    BY <2>6 DEF Stream!Next
<1>7. QED
  BY <1>4, <1>5, <1>6, CtorShape
\* A packet delivers the chunks that were read since the last, if any; the
\* thread that finishes first ends the call.
LEMMA PromiseWrite ==
  ASSUME ~Mock, Inv, NEW c \in Calls, NEW w \in WriteThreads, WriteStep(c, w),
         SentInv(c), WholeInv(c), OneStatusCall(c)'
  PROVE  [Stream(c)!Next]_(Stream(c)!vars)
<1>0. /\ TypeInv /\ OneStatusCall(c) /\ Item(c, "params") /\ pc_ctor[c] = "returned"
      /\ pc_ctor' = pc_ctor
  BY StepFacts, EngagedDevice, WriteShape DEF Step
<1>1. /\ sent[c] \in Seq(Chunk) /\ m_byte_data[c] \in Seq(Chunk)
      /\ position[c] \in 0..Chunks /\ Chunks \in 0..Chunks
  BY <1>0, Constants DEF TypeInv, TypeOK, SaneTypeOK, Handles
<1>2. CASE UNCHANGED <<stream, sent>>
  BY <1>0, <1>2, Invisible
<1>3. CASE WriteResponse(c, w)
  <2>1. /\ sent'[c] = sent[c] \o m_byte_data[c]
        /\ \E x \in {"data", "empty"} : stream'[c] = Append(stream[c], x)
    BY <1>0, <1>3 DEF WriteResponse, StartWrite, TypeInv, TypeOK
  <2>2. PICK x \in Items \ Statuses : stream'[c] = Append(stream[c], x) /\ x # "params"
    BY <2>1 DEF Items, Statuses
  <2>3. Status(c)' = Status(c) /\ (Item(c, "params")' <=> Item(c, "params"))
    BY <1>0, <2>2, StatusStep, ItemAppended
  <2>4. pc_write[c][w] \in ReadingPc /\ MayWrite(c)
    BY <1>3 DEF WriteResponse, WriteGoto, ReadingPc, MayWrite, WritingPc
  <2>5. sent[c] \o m_byte_data[c] = Scanned(c, position[c])
    BY <2>4 DEF SentInv
  <2>6. CASE m_byte_data[c] = <<>>
    <3>1. sent'[c] = sent[c]
      BY <1>1, <2>1, <2>6, ConcatEmptySeq
    <3>2. UNCHANGED Stream(c)!vars
      BY <1>0, <2>3, <3>1 DEF Stream!vars, Item
    <3>3. QED
      BY <3>2
  <2>7. CASE m_byte_data[c] # <<>>
    <3>1. ~m_finished[c]
      BY <1>0, <2>4, <2>7, PacketEmpty DEF WholeInv, Ending
    <3>2. Status(c) = "none"
      BY <1>0, <3>1, StatusStep
    <3>3. /\ Len(sent[c]) + Len(m_byte_data[c]) = position[c]
          /\ Len(Scanned(c, Chunks)) = Chunks
      <4>1. Len(sent[c] \o m_byte_data[c]) = Len(sent[c]) + Len(m_byte_data[c])
        BY <1>1, ConcatProperties
      <4>2. Len(Scanned(c, position[c])) = position[c] /\ Len(Scanned(c, Chunks)) = Chunks
        BY <1>1, ScannedIsSeq
      <4>3. QED
        BY <2>5, <4>1, <4>2
    <3>4. Len(m_byte_data[c]) \in Nat \ {0} /\ Len(sent[c]) \in Nat
      BY <1>1, <2>7, EmptySeq, LenProperties
    <3>5. position[c] \in Len(sent[c])+1..Len(Scanned(c, Chunks))
      <4>1. position[c] \in Nat /\ Chunks \in Nat /\ position[c] <= Chunks
        BY <1>1, Constants
      <4>2. ASSUME NEW i \in Nat, NEW j \in Nat \ {0}, NEW p \in Nat, NEW m \in Nat,
                   i + j = p, p <= m
            PROVE  p \in i+1..m
        BY <4>2
      <4>3. QED
        BY <3>3, <3>4, <4>1, <4>2
    <3>6. sent'[c] = SubSeq(Scanned(c, Chunks), 1, position[c])
      BY <1>1, <2>1, <2>5, ScannedBegins
    <3>7. Stream(c)!Deliver
      <4>1. \E n \in Len(sent[c])+1..Len(Scanned(c, Chunks)) :
              sent'[c] = SubSeq(Scanned(c, Chunks), 1, n)
        BY <3>5, <3>6
      <4>2. (pc_ctor[c] # "new") /\ Status(c) = "none" /\ Item(c, "params")
        BY <1>0, <3>2
      <4>3. (pc_ctor[c] # "new")' = (pc_ctor[c] # "new") /\ Status(c)' = Status(c)
        BY <1>0, <2>3
      <4>4. Item(c, "params")' = Item(c, "params")
        BY <2>3 DEF Item
      <4>5. QED
        BY <4>1, <4>2, <4>3, <4>4 DEF Stream!Deliver, Stream!Open
    <3>8. QED
      BY <3>7 DEF Stream!Next
  <2>8. QED
    BY <2>6, <2>7
<1>4. CASE WriteFinish(c, w)
  <2>1. PICK status \in {"OK", "ABORTED", "UNKNOWN"} :
          WriteGoto(c, w, FinishPc(status), "idle") /\ Finish(c, status)
    BY <1>4 DEF WriteFinish
  <2>2. CASE m_finished[c]
    BY <1>2, <2>1, <2>2 DEF Finish
  <2>3. CASE ~m_finished[c]
    <3>1. stream'[c] = Append(stream[c], status) /\ sent' = sent
      BY <1>0, <2>1, <2>3 DEF Finish, TypeInv, TypeOK
    <3>2. Status(c) = "none" /\ Status(c)' = status
      BY <1>0, <2>3, <3>1, StatusStep DEF Statuses
    <3>3. Item(c, "params")' <=> Item(c, "params")
      BY <1>0, <3>1, ItemAppended DEF Items, Statuses
    <3>4. status = "OK" => sent[c] = Scanned(c, Chunks)
      BY <2>1 DEF WriteGoto, FinishPc, WholeInv, AllSent
    <3>5. Stream(c)!End
      BY <1>0, <3>1, <3>2, <3>3, <3>4 DEF Stream!End, Stream!Open, Item
    <3>6. QED
      BY <3>5 DEF Stream!Next
  <2>4. QED
    BY <2>2, <2>3
<1>5. QED
  BY <1>2, <1>3, <1>4
  DEF WriteStep, OnWriteDone, Read, ReadData, ReadNothing, DeliverWriteDone, grpc_vars

\* Every step of a call is a step of its ScanStream, or invisible there.
LEMMA PromiseStep ==
  ASSUME ~Mock, StreamInv, StreamInv', [Next]_vars, NEW b \in Calls
  PROVE  [Stream(b)!Next]_(Stream(b)!vars)
<1>0. /\ Inv /\ TypeInv /\ Order(b) /\ OneStatusCall(b) /\ OneStatusCall(b)'
      /\ SentInv(b) /\ WholeInv(b)
  BY DEF StreamInv, Inv, ReactorInv, OneWriteInv, OneStatusInv
<1>1. CASE UNCHANGED vars
  BY <1>0, <1>1, Invisible DEF vars, grpc_vars
<1>2. CASE Next
  <2>1. PICK c \in Calls : Step(c)
    BY <1>2, NextIsStep
  <2>2. CASE b # c
    BY <1>0, <2>1, <2>2, StepFrame, Invisible DEF OthersSame
  <2>3. CASE b = c
    <3>1. CASE Scan(b) \/ CtorStep(b)
      BY <1>0, <3>1, PromiseCtor
    <3>2. CASE \E w \in WriteThreads : WriteStep(b, w)
      BY <1>0, <3>2, PromiseWrite
    <3>3. CASE ClientCancels(b) \/ ScannerError(b) \/ CancelStep(b) \/ DoneStep(b)
      BY <1>0, <3>3, RestShape, Invisible
    <3>4. QED
      BY <2>1, <2>3, <3>1, <3>2, <3>3 DEF Step, ClientStep
  <2>4. QED
    BY <2>2, <2>3
<1>3. QED
  BY <1>1, <1>2

\* Every call keeps the promise of a Scan RPC: the parameters, the pieces of
\* the scan in order and without gaps, one status, and OK for a whole scan.
THEOREM ScanImplementsStream ==
  ASSUME ~Mock
  PROVE  NoSharingSpec => KeepsPromise
<1>1. Init => \A c \in Calls : Stream(c)!Init
  <2>1. ASSUME Init, NEW c \in Calls PROVE Stream(c)!Init
    <3>1. pc_ctor[c] = "new" /\ stream[c] = <<>> /\ sent[c] = <<>>
      BY <2>1 DEF Init
    <3>2. \A x : ~Item(c, x)
      BY <3>1 DEF Item
    <3>3. Status(c) = "none"
      BY <3>2 DEF Status
    <3>4. QED
      BY <3>1, <3>2, <3>3 DEF Stream!Init
  <2>2. QED
    BY <2>1
<1>2. ASSUME StreamInv, StreamInv', [Next /\ NoSharing]_vars
      PROVE  [\A c \in Calls : [Stream(c)!Next]_(Stream(c)!vars)]_vars
  <2>1. ASSUME NEW c \in Calls PROVE [Stream(c)!Next]_(Stream(c)!vars)
    BY <1>2, PromiseStep
  <2>2. QED
    BY <2>1
<1>3. QED
  BY <1>1, <1>2, StreamAlways, PTL DEF NoSharingSpec, KeepsPromise
=============================================================================
