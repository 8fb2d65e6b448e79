------------------------------ MODULE BinaryLog ------------------------------
(***************************************************************************)
(* MAKE_BINARY_LOG of the logger DLL (Library/Logger-main/Logger.cpp): a   *)
(* block of memory as text, Align bytes on a line.  The size of the text   *)
(* is worked out first; then every piece is written behind the last one    *)
(* with swprintf_s, which stops the process when there is no room for the  *)
(* piece and its NUL.                                                      *)
(*                                                                         *)
(* Of an empty block nothing is written, not even a NUL: what fputws then  *)
(* reads from the new memory, and prints, is left out.                     *)
(***************************************************************************)
EXTENDS Integers

CONSTANTS MaxLen, MaxAlign      \* bounds of dwBufferLen and dwAlign

ADDRESS    == 16      \* "%p" of the 64-bit build
BYTESTRING == 2
SPACEBAR   == 1
NUL        == 1
ENTER      == 1

VARIABLES
  dwBufferLen, dwAlign,      \* the arguments
  dwNumOfWChar,              \* the size of the text
  written,                   \* dwWrittenWcharNum
  shown,                     \* dwBinaryBufCnt
  terminated,                \* a NUL lies behind the text
  doing,                     \* "address", "bytes", "enter", "done"
  overrun                    \* a piece had no room

vars == << dwBufferLen, dwAlign, dwNumOfWChar, written, shown, terminated, doing,
           overrun >>
args == << dwBufferLen, dwAlign, dwNumOfWChar >>

(* Mutant: the line feeds are forgotten.                                    *)
MutTextSize(len, align) ==
  (len \div align) * (ADDRESS + (BYTESTRING + SPACEBAR) * align)
    + (IF len % align > 0 THEN ADDRESS + (len % align) * (BYTESTRING + SPACEBAR) ELSE 0)
    + NUL

TextSize(len, align) ==
  (len \div align) * (ADDRESS + ((BYTESTRING + SPACEBAR) * align + ENTER))
    + (IF len % align > 0 THEN ADDRESS + (len % align) * (BYTESTRING + SPACEBAR) ELSE 0)
    + NUL

(* What comes behind a number of bytes: a full line ends with a line feed,  *)
(* and the last line is written only if bytes are left for it.              *)
AfterLine  == IF shown < dwBufferLen THEN "address" ELSE "done"
AfterBytes(k) ==
  IF k % dwAlign = 0 THEN "enter" ELSE IF k < dwBufferLen THEN "bytes" ELSE "done"

Init ==
  /\ dwBufferLen \in 0 .. MaxLen /\ dwAlign \in 1 .. MaxAlign
  /\ dwNumOfWChar = TextSize(dwBufferLen, dwAlign)
  /\ written = 0 /\ shown = 0 /\ terminated = FALSE /\ overrun = FALSE
  /\ doing = AfterLine

Piece(chars) ==
  /\ written' = written + chars
  /\ terminated' = TRUE
  /\ overrun' = (written + chars + NUL > dwNumOfWChar)
  /\ UNCHANGED args

Address ==
  /\ doing = "address" /\ Piece(ADDRESS)
  /\ doing' = "bytes" /\ UNCHANGED shown

Byte ==
  /\ doing = "bytes" /\ Piece(BYTESTRING + SPACEBAR)
  /\ shown' = shown + 1 /\ doing' = AfterBytes(shown + 1)

(* The line feed and the NUL behind it are assigned without a check.        *)
Enter ==
  /\ doing = "enter" /\ Piece(ENTER)
  /\ doing' = AfterLine /\ UNCHANGED shown

Next == ~overrun /\ (Address \/ Byte \/ Enter)

Spec == Init /\ [][Next]_vars
-----------------------------------------------------------------------------
(* The text is exactly as long as was worked out: no piece is refused, and  *)
(* when every byte is shown only the NUL is left to write.  What is printed *)
(* ends in one, unless the block was empty.                                 *)
TextFits ==
  /\ ~overrun
  /\ doing = "done" => /\ shown = dwBufferLen
                       /\ written + NUL = dwNumOfWChar
                       /\ terminated <=> dwBufferLen > 0
==============================================================================
