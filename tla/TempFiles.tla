----------------------------- MODULE TempFiles -----------------------------
(***************************************************************************)
(* The temporary files of the client and how they get their names          *)
(* (CFileManager, CFile and CUniqueIdGenerator).  A name is a number made  *)
(* of a clock reading, a sequence number and a hash of the thread, each    *)
(* cut to its width; a file is opened for appending, so a name that comes  *)
(* up again continues the file of the earlier one.                         *)
(***************************************************************************)
EXTENDS Naturals, Sequences

CONSTANTS
  TIME_BITS, SEQ_BITS, THREAD_BITS,  \* 44, 12 and 8 in the code
  Ticks                              \* what the clock may read

ASSUME TempFilesAssumption ==
  /\ TIME_BITS \in Nat /\ SEQ_BITS \in Nat /\ THREAD_BITS \in Nat
  /\ Ticks \subseteq Nat

(* A bug the widths guard against: the clock reading is not cut.           *)
id_uncut(time, sequence, thread) ==
  time * 2^(SEQ_BITS + THREAD_BITS)
    + (sequence % 2^SEQ_BITS) * 2^THREAD_BITS + (thread % 2^THREAD_BITS)

(* The three parts occupy disjoint bits, so their OR is their sum.         *)
id(time, sequence, thread) ==
  (time % 2^TIME_BITS) * 2^(SEQ_BITS + THREAD_BITS)
    + (sequence % 2^SEQ_BITS) * 2^THREAD_BITS + (thread % 2^THREAD_BITS)

Names == 0..2^(TIME_BITS + SEQ_BITS + THREAD_BITS) - 1

(* All names are made by the GUI thread.                                   *)
generate_temp_filepath(time, sequence) == id(time, sequence, 0)

(* CFile: its size counts what was written through it, not what was on the *)
(* disk when it was opened.                                                *)
new_temp_file(path) == [path |-> path, size |-> 0]

Written(file) == [file EXCEPT !.size = @ + 1]

Appended(disk, file, data) == [disk EXCEPT ![file.path] = Append(@, data)]

(* read() takes the whole file of that name.                               *)
Contents(disk, file) == disk[file.path]
=============================================================================
