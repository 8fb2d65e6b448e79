----------------------------- MODULE RingIndex ------------------------------
(***************************************************************************)
(* The index arithmetic of C_RING_BUFFER (Library/Ring_Buffer): a buffer   *)
(* of FullSize cells of which one always stays unused, so that equal       *)
(* indexes mean empty.  In is the next cell to write, Out the next to read.*)
(***************************************************************************)
EXTENDS Integers

CONSTANT FullSize   \* _Full_Size, cells of the buffer

ASSUME FullSizeAssumption == FullSize \in Nat \ {0, 1}

Index == 0 .. FullSize - 1

(* MoveIn, MoveOut and the ends of Enqueue and Dequeue. *)
Moved(pos, n) == (pos + n) % FullSize

GetUseSize(in, out) == IF in >= out THEN in - out ELSE FullSize - (out - in)

(* Mutant: the cell that stays unused is forgotten. *)
MutGetFreeSize(in, out) == FullSize - GetUseSize(in, out)

GetFreeSize(in, out) == FullSize - GetUseSize(in, out) - 1

(* Mutant: all that is free, the end of the buffer not being looked at. *)
MutDirectEnqueueSize(in, out) == GetFreeSize(in, out)

(* The cells that can be written without starting again at cell 0. *)
DirectEnqueueSize(in, out) ==
  LET last == (out + FullSize - 1) % FullSize
  IN  IF (in + 1) % FullSize = out THEN 0
      ELSE IF in <= last THEN last - in
      ELSE FullSize - in

(* The cells that can be read without starting again at cell 0. *)
DirectDequeueSize(in, out) == IF in >= out THEN in - out ELSE FullSize - out
=============================================================================
