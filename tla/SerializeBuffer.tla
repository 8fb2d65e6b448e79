--------------------------- MODULE SerializeBuffer ---------------------------
(***************************************************************************)
(* The serialisation buffer (Library/SerializeBuffer): values are put      *)
(* behind one another, taken out in the same order, and the buffer is      *)
(* doubled once when a value does not fit.  Bytes are numbered in the      *)
(* order they are put; positions are indices into the buffer.  ReWrite and *)
(* ReturnPos, which nobody calls, are left out.                            *)
(***************************************************************************)
EXTENDS Integers, Sequences

CONSTANTS
  Default,     \* the size of a new buffer (1400)
  Max,         \* m_iReSizeMaxSize (10000)
  Widths,      \* sizes of what is put and taken, at most Default
  MaxBytes     \* bound: bytes ever put

Garbage == 0   \* what new char[] leaves in a cell

VARIABLES
  buffer,          \* the cells of the buffer, from 1
  readPos, writePos, \* m_chpReadPos, m_chpWritePos: cells before them
  written,         \* bytes put so far
  taken,           \* the bytes taken out, passed over and cleared away
  stopped          \* by throw or __debugbreak

vars == << buffer, readPos, writePos, written, taken, stopped >>

Cells(n) == [ c \in 1 .. n |-> Garbage ]

Init ==
  /\ buffer = Cells(Default)
  /\ readPos = 0 /\ writePos = 0
  /\ written = 0 /\ taken = << >>
  /\ stopped = FALSE

(* Mutant: only what has not been read is copied to the new buffer.         *)
MutReSize(b) == SubSeq(b, readPos + 1, Len(b)) \o Cells(Len(b) + readPos)

(* ReSize: the cells are copied, the positions stay where they are.         *)
ReSize(b) == b \o Cells(Len(b))

(* k bytes are written behind the others in the cells b.                    *)
Filled(b, k) ==
  /\ buffer' = [ c \in DOMAIN b |->
                   IF c \in writePos + 1 .. writePos + k
                   THEN written + c - writePos ELSE b[c] ]
  /\ writePos' = writePos + k
  /\ written' = written + k

(* operator<< and PutData                                                   *)
Put(k) ==
  /\ written + k <= MaxBytes
  /\ LET short == Len(buffer) - writePos < k
         b     == IF short THEN ReSize(buffer) ELSE buffer
     IN  IF short /\ 2 * Len(buffer) >= Max
         THEN stopped' = TRUE /\ UNCHANGED << buffer, writePos, written >>
         ELSE Filled(b, k) /\ UNCHANGED stopped
  /\ UNCHANGED << readPos, taken >>

(* MoveWritePos: the caller has written to GetBufferWritePtr itself, and    *)
(* keeps to the room there is: the buffer does not grow.                    *)
MoveWritePos(k) ==
  /\ written + k <= MaxBytes
  /\ Len(buffer) - writePos >= k
  /\ Filled(buffer, k)
  /\ UNCHANGED << readPos, taken, stopped >>

Moved(k) ==
  /\ readPos' = readPos + k
  /\ taken' = taken \o SubSeq(buffer, readPos + 1, readPos + k)

(* operator>>, which throws when there is too little                        *)
Get(k) ==
  /\ IF writePos - readPos < k
     THEN stopped' = TRUE /\ UNCHANGED << readPos, taken >>
     ELSE Moved(k) /\ UNCHANGED stopped
  /\ UNCHANGED << buffer, writePos, written >>

(* GetData, which returns 0 then; and MoveReadPos, which passes over what   *)
(* its caller knows to be there.                                            *)
GetData(k) ==
  /\ writePos - readPos >= k
  /\ Moved(k)
  /\ UNCHANGED << buffer, writePos, written, stopped >>

(* Clear                                                                    *)
Clear ==
  /\ readPos' = 0 /\ writePos' = 0
  /\ taken' = taken \o [ j \in 1 .. written - Len(taken) |-> Len(taken) + j ]
  /\ UNCHANGED << buffer, written, stopped >>

Next ==
  /\ ~stopped
  /\ \/ \E k \in Widths : Put(k) \/ MoveWritePos(k) \/ Get(k) \/ GetData(k)
     \/ Clear

Spec == Init /\ [][Next]_vars
-----------------------------------------------------------------------------
(* What is taken out is what was put, in the same order, however often the  *)
(* buffer has grown in between; and nothing is written behind its end.      *)
TakenAsPut ==
  /\ \A j \in 1 .. Len(taken) : taken[j] = j
  /\ writePos <= Len(buffer)
==============================================================================
