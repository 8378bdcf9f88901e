----------------------------- MODULE SaneDevice -----------------------------
(***************************************************************************)
(* CSaneDevice (sane_wrapper/src/SaneDevice.cpp) on top of the SANE C API. *)
(*                                                                         *)
(* One CSaneDevice object is reached by every reactor that was handed its  *)
(* shared_ptr, and has no lock.  Each operator below is therefore one      *)
(* access: a test of m_handle / m_current_state, one SANE call together    *)
(* with the assignment of its result, or one assignment.  The threads that *)
(* perform them in sequence are in ScanReactor.                            *)
(*                                                                         *)
(* The backend is one of two.  Mock = TRUE is sane_wrapper/mock, linked    *)
(* into the tests: one handle per scanner, never busy, never failing, with *)
(* two assertions.  Mock = FALSE is a real libsane driver: every sane_open *)
(* returns a handle of its own, a scanner is open at most once, any call   *)
(* may fail, and a NULL or a closed handle is undefined behaviour (the     *)
(* dispatch in libsane dereferences the handle), taken to be a crash.      *)
(***************************************************************************)
EXTENDS Naturals, Sequences

CONSTANTS
  Calls,       \* the Scan RPCs of a behaviour; each opens a device at most once
  Devices,     \* the CSaneDevice objects the service handed out
  Scanners,    \* the physical scanners
  DeviceOf,    \* the object find_device returned to a call, or NoDevice
  ScannerOf,   \* the scanner a CSaneDevice names (m_device_name)
  NoDevice,    \* find_device found nothing
  NoHandle,    \* m_handle == nullptr
  Chunks,      \* how many 2048 byte buffers one scan yields
  Mock         \* the mock backend (TRUE) or a real driver (FALSE)

ASSUME SaneAssumption ==
  /\ DeviceOf \in [Calls -> Devices \cup {NoDevice}]
  /\ ScannerOf \in [Devices -> Scanners]
  /\ NoDevice \notin Devices
  /\ NoHandle \notin Calls \cup Scanners
  /\ Chunks \in Nat
  /\ Mock \in BOOLEAN

VARIABLES
  m_handle,         \* CSaneDevice::m_handle of every device
  m_current_state,  \* CSaneDevice::m_current_state of every device
  opened,           \* handles between sane_open and sane_close (m_open)
  started,          \* handles with a scan running (m_started)
  cancelled,        \* handles cancelled since sane_start (m_cancelled)
  position,         \* how many chunks were read from a handle (m_bytes_read)
  jammed,           \* handles whose scanner reported an error while reading
  fault             \* what stopped the process: a failed assertion, a crash

device_vars  == <<m_handle, m_current_state>>
backend_vars == <<opened, started, cancelled, position, jammed, fault>>
sane_vars    == <<m_handle, m_current_state, opened, started, cancelled,
                  position, jammed, fault>>

EState  == {"CLOSED", "OPENED", "STARTED", "CANCELLING"}
Handles == Calls \cup Scanners
Faults  == {"none", "not_started", "not_cancelled",
            "null_handle", "closed_handle"}

SaneTypeOK ==
  /\ m_handle \in [Devices -> Handles \cup {NoHandle}]
  /\ m_current_state \in [Devices -> EState]
  /\ opened \subseteq Handles
  /\ started \subseteq Handles
  /\ cancelled \subseteq Handles
  /\ position \in [Handles -> 0..Chunks]
  /\ jammed \subseteq Handles
  /\ fault \in Faults

SaneInit ==
  /\ m_handle = [d \in Devices |-> NoHandle]
  /\ m_current_state = [d \in Devices |-> "CLOSED"]
  /\ opened = {} /\ started = {} /\ cancelled = {} /\ jammed = {}
  /\ position = [h \in Handles |-> 0]
  /\ fault = "none"

-----------------------------------------------------------------------------
(* The backend.                                                            *)

\* The handle sane_open returns to a call: the mock has one per device name.
HandleOf(c) == IF Mock THEN ScannerOf[DeviceOf[c]] ELSE c

\* A real driver refuses to open a scanner twice.
Busy(s) == ~Mock /\ \E c \in opened \cap Calls : ScannerOf[DeviceOf[c]] = s

\* Passing h to a call that needs an open handle: the mock looks h up in its
\* table and ignores what it does not find, a driver dereferences it.
Misuse(h) == IF Mock THEN "none"
             ELSE IF h = NoHandle THEN "null_handle"
             ELSE IF h \notin opened THEN "closed_handle" ELSE "none"

sane_cancel(h) ==
  /\ fault' = Misuse(h)
  /\ started' = started \ {h}
  /\ cancelled' = cancelled \cup ({h} \ {NoHandle})
  /\ UNCHANGED <<opened, position, jammed>>

sane_close(h) ==
  /\ fault' = IF Mock /\ h # NoHandle /\ h \notin cancelled
              THEN "not_cancelled" ELSE Misuse(h)
  /\ opened' = opened \ {h}
  /\ started' = IF Mock THEN started ELSE started \ {h}
  /\ cancelled' = cancelled \ {h}
  /\ UNCHANGED <<position, jammed>>

\* sane_start succeeds.  The mock never rewinds m_bytes_read.
sane_start(h) ==
  /\ fault' = "none"
  /\ started' = started \cup {h}
  /\ cancelled' = cancelled \ {h}
  /\ position' = IF Mock THEN position ELSE [position EXCEPT ![h] = 0]
  /\ UNCHANGED <<opened, jammed>>

-----------------------------------------------------------------------------
(* CSaneDevice, one access at a time.                                      *)

\* open(): sane_open writes m_handle; on GOOD the state follows.
OpenGood(d, h) ==
  /\ ~Busy(ScannerOf[d])
  /\ m_handle' = [m_handle EXCEPT ![d] = h]
  /\ m_current_state' = [m_current_state EXCEPT ![d] = "OPENED"]
  /\ opened' = opened \cup {h}
  /\ UNCHANGED <<started, cancelled, position, jammed, fault>>

\* open() of a scanner that is busy, unplugged, ...: nothing is written.
OpenFails(d) == ~Mock /\ UNCHANGED sane_vars

\* start(): the test, then the call.
StartPermitted(d) == m_handle[d] # NoHandle /\ m_current_state[d] = "OPENED"

\* Mutant: the state is not advanced.
SaneStartKeepsState(d) ==
  /\ Misuse(m_handle[d]) = "none" /\ m_handle[d] # NoHandle
  /\ sane_start(m_handle[d])
  /\ UNCHANGED device_vars

SaneStartGood(d) ==
  /\ Misuse(m_handle[d]) = "none" /\ m_handle[d] # NoHandle
  /\ sane_start(m_handle[d])
  /\ m_current_state' = [m_current_state EXCEPT ![d] = "STARTED"]
  /\ UNCHANGED m_handle

\* The driver refuses (no paper, cover open), the mock does not know the
\* handle, or the handle is gone and the call crashes.
SaneStartFails(d) ==
  /\ ~Mock \/ m_handle[d] = NoHandle
  /\ fault' = Misuse(m_handle[d])
  /\ UNCHANGED <<device_vars, opened, started, cancelled, position, jammed>>

\* read(): the test, then sane_read on whatever m_handle is by then.
ReadPermitted(d) == m_handle[d] # NoHandle /\ m_current_state[d] = "STARTED"

\* sane_read fails: CANCELLED or an I/O error from a driver, INVAL from the
\* mock, or the process stops.
SaneReadFails(d) ==
  LET h == m_handle[d] IN
  /\ \/ Misuse(h) # "none"
     \/ h = NoHandle
     \/ h \notin started
     \/ h \in jammed
  /\ fault' = IF Mock /\ h # NoHandle /\ h \notin started
              THEN "not_started" ELSE Misuse(h)
  /\ UNCHANGED <<device_vars, opened, started, cancelled, position, jammed>>

SaneReadable(d) ==
  LET h == m_handle[d] IN
  /\ h # NoHandle /\ Misuse(h) = "none"
  /\ h \in started \ jammed

\* Mutant: the end of the scan is not noticed.
SaneReadGoodPastEnd(d) ==
  /\ SaneReadable(d)
  /\ position' = [position EXCEPT ![m_handle[d]] = @ + 1]
  /\ UNCHANGED <<device_vars, opened, started, cancelled, jammed, fault>>

\* sane_read delivers the next chunk.
SaneReadGood(d) ==
  /\ SaneReadable(d) /\ position[m_handle[d]] < Chunks
  /\ position' = [position EXCEPT ![m_handle[d]] = @ + 1]
  /\ UNCHANGED <<device_vars, opened, started, cancelled, jammed, fault>>

\* sane_read delivers nothing and says EOF.
SaneReadEof(d) ==
  /\ SaneReadable(d) /\ position[m_handle[d]] = Chunks
  /\ UNCHANGED sane_vars

\* The scanner reports an error: every read from now on fails.
Jam(h) ==
  /\ ~Mock
  /\ h \in started \ jammed
  /\ jammed' = jammed \cup {h}
  /\ UNCHANGED <<device_vars, opened, started, cancelled, position, fault>>

\* cancel(), in three parts: old_state is the caller's.
BeginCancel(d) ==
  /\ m_current_state' = [m_current_state EXCEPT ![d] = "CANCELLING"]
  /\ UNCHANGED <<m_handle, backend_vars>>

\* Mutant: the handle is closed instead of cancelled.
CallCancelCloses(d) == sane_close(m_handle[d]) /\ UNCHANGED device_vars

CallCancel(d) == sane_cancel(m_handle[d]) /\ UNCHANGED device_vars

EndCancel(d, old_state) ==
  /\ m_current_state' = [m_current_state EXCEPT ![d] = old_state]
  /\ UNCHANGED <<m_handle, backend_vars>>

\* close(), after its test of m_handle: sane_cancel, sane_close, the reset.
CallClose(d) == sane_close(m_handle[d]) /\ UNCHANGED device_vars

\* Mutant: the state is not reset.
EndCloseKeepsState(d) ==
  /\ m_handle' = [m_handle EXCEPT ![d] = NoHandle]
  /\ UNCHANGED <<m_current_state, backend_vars>>

EndClose(d) ==
  /\ m_handle' = [m_handle EXCEPT ![d] = NoHandle]
  /\ m_current_state' = [m_current_state EXCEPT ![d] = "CLOSED"]
  /\ UNCHANGED backend_vars
=============================================================================
