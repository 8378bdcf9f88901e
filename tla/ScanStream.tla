----------------------------- MODULE ScanStream -----------------------------
(***************************************************************************)
(* What one Scan RPC promises its client (proto/scanner/v1/scanner.proto   *)
(* and the reader of the client): the parameters of the scan come first,   *)
(* then pieces of the scan in order and without gaps, then one status, and *)
(* OK only when the whole scan was sent.  No data follows the status, and  *)
(* a call that was made ends.                                              *)
(***************************************************************************)
EXTENDS Naturals, Sequences

CONSTANT Document  \* the chunks of the scan, in order

VARIABLES
  called,     \* the client made the call
  announced,  \* the parameters were sent
  data,       \* the chunks sent so far
  status      \* the status sent, or "none"

vars == <<called, announced, data, status>>

TypeOK ==
  /\ called \in BOOLEAN /\ announced \in BOOLEAN
  /\ data \in {SubSeq(Document, 1, n) : n \in 0..Len(Document)}
  /\ status \in {"none", "OK", "ABORTED", "CANCELLED", "UNKNOWN"}

Init == ~called /\ ~announced /\ data = <<>> /\ status = "none"

Call == ~called /\ called' = TRUE /\ UNCHANGED <<announced, data, status>>

Open == called /\ status = "none"

Announce ==
  /\ Open /\ ~announced
  /\ announced' = TRUE
  /\ UNCHANGED <<called, data, status>>

Deliver ==
  /\ Open /\ announced
  /\ \E n \in Len(data)+1..Len(Document) : data' = SubSeq(Document, 1, n)
  /\ UNCHANGED <<called, announced, status>>

End ==
  /\ Open
  /\ \/ status' = "OK" /\ announced /\ data = Document
     \/ status' \in {"ABORTED", "UNKNOWN", "CANCELLED"}
  /\ UNCHANGED <<called, announced, data>>

Next == Call \/ Announce \/ Deliver \/ End

Spec == Init /\ [][Next]_vars /\ WF_vars(Announce \/ Deliver \/ End)
=============================================================================
