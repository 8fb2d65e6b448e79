------------------------------- MODULE Logger -------------------------------
(***************************************************************************)
(* The logger DLL (Library/Logger-main/Logger.cpp): threads write numbered *)
(* lines, and dumps of memory, to one file.  Every thread has a buffer of  *)
(* its own that is doubled, with a line that says so, when a message does  *)
(* not fit.  The number is taken long before the file's lock, so lines of  *)
(* different threads need not be in the file in the order of their         *)
(* numbers.  Sizes are in characters; the name of the log and the date fit *)
(* into the first buffer.                                                  *)
(***************************************************************************)
EXTENDS Integers, Sequences, FiniteSets

CONSTANTS
  Threads,
  Word,        \* DWORD: g_dwLogCount is counted modulo this
  Initial,     \* LOCAL_LOG_BUF_SIZE (3000)
  Header,      \* characters in front of the message
  Notice,      \* characters of "LOG BUFSIZE INSUFFICIENT ..."
  Calls,       \* what is logged: [ length, dump ]
  MaxCalls,    \* bound: calls of each thread
  MaxChanges   \* bound: calls that change the level

DEBUG  == 0
SYSTEM == 1
ERR    == 2
LOG_LEVEL == DEBUG .. ERR

NoCall == [ length |-> 0, dump |-> FALSE ]

VARIABLES
  g_logLevel, changes,
  g_dwLogCount,
  holding,      \* the threads that hold g_srwForFILEIO
  opened,       \* threads that have the file open
  file,         \* its lines and dumps: [ by, number, what ]
  at, left,     \* of each thread: where it is, the calls it has left
  call,         \* ... what it logs
  size, number, \* ... its buffer's size, the number in the buffer
  report        \* ... it is in ExceptLogBufInSuf

vars == << g_logLevel, changes, g_dwLogCount, holding, opened, file,
           at, left, call, size, number, report >>

Init ==
  /\ g_logLevel = DEBUG /\ changes = 0
  /\ g_dwLogCount = 0
  /\ holding = {} /\ opened = {} /\ file = << >>
  /\ at = [ t \in Threads |-> "idle" ]
  /\ left = [ t \in Threads |-> MaxCalls ]
  /\ call = [ t \in Threads |-> NoCall ]
  /\ size = [ t \in Threads |-> Initial ]
  /\ number = [ t \in Threads |-> 0 ]
  /\ report = [ t \in Threads |-> FALSE ]

Goto(t, where) == at' = [ at EXCEPT ![t] = where ]
-----------------------------------------------------------------------------
(* LOG and LOG_MEMORY_VIEW: CheckLogLevel                                   *)
Log(t) ==
  /\ at[t] = "idle" /\ left[t] > 0
  /\ left' = [ left EXCEPT ![t] = @ - 1 ]
  /\ \E c \in Calls, level \in LOG_LEVEL :
       IF g_logLevel > level
       THEN UNCHANGED << at, call >>
       ELSE Goto(t, "number") /\ call' = [ call EXCEPT ![t] = c ]
  /\ UNCHANGED << g_logLevel, changes, g_dwLogCount, holding, opened, file, size, number, report >>

(* MakeLogLevelAndCount: InterlockedIncrement, behind the name and date     *)
TakeNumber(t) ==
  /\ at[t] = "number"
  /\ g_dwLogCount' = (g_dwLogCount + 1) % Word
  /\ number' = [ number EXCEPT ![t] = g_dwLogCount' ]
  /\ Goto(t, "text")
  /\ UNCHANGED << g_logLevel, changes, holding, opened, file, left, call, size, report >>

Length(t) == IF report[t] THEN Notice ELSE call[t].length

(* StringCchVPrintf: the message and its NUL fit behind the header.         *)
TextFits(t) ==
  /\ at[t] = "text" /\ Header + Length(t) < size[t]
  /\ \/ Goto(t, "lock")
     \/ ~report[t] /\ Goto(t, "idle")              \* CONSOLE
  /\ UNCHANGED << g_logLevel, changes, g_dwLogCount, holding, opened, file, left, call, size, number, report >>

(* Mutant: the buffer is allocated again but not larger.                    *)
MutDoubled(s) == s

Doubled(s) == 2 * s

(* They do not: ExceptLogBufInSuf, or its loop once more                    *)
TextTooLong(t) ==
  /\ at[t] = "text" /\ Header + Length(t) >= size[t]
  /\ size' = [ size EXCEPT ![t] = Doubled(@) ]
  /\ report' = [ report EXCEPT ![t] = TRUE ]
  /\ Goto(t, "number")
  /\ UNCHANGED << g_logLevel, changes, g_dwLogCount, holding, opened, file, left, call, number >>
-----------------------------------------------------------------------------
(* Mutant: the lock is taken in shared mode.                                *)
MutFree(t) == TRUE

(* AcquireSRWLockExclusive(&g_srwForFILEIO) returns.                        *)
Free(t) == holding = {}

Lock(t) ==
  /\ at[t] = "lock" /\ Free(t)
  /\ holding' = holding \cup {t}
  /\ Goto(t, "line")
  /\ UNCHANGED << g_logLevel, changes, g_dwLogCount, opened, file, left, call, size, number, report >>

(* Mutant: the number is read again from g_dwLogCount.                      *)
MutLine(t) == [ by |-> t, number |-> g_dwLogCount, what |-> "line" ]

Line(t) == [ by |-> t, number |-> number[t], what |-> "line" ]
Dump(t) == [ by |-> t, number |-> number[t], what |-> "dump" ]

(* OpenFileAndLog, or MAKE_BINARY_LOG: _wfopen_s, fputws                    *)
Write(t) ==
  /\ at[t] \in {"line", "dump"}
  /\ opened' = opened \cup {t}
  /\ file' = Append(file, IF at[t] = "line" THEN Line(t) ELSE Dump(t))
  /\ Goto(t, IF at[t] = "line" /\ call[t].dump /\ ~report[t] THEN "close and dump" ELSE "close")
  /\ UNCHANGED << g_logLevel, changes, g_dwLogCount, holding, left, call, size, number, report >>

(* fputc, fclose; the dump goes to the same file in the same way            *)
CloseAndDump(t) ==
  /\ at[t] = "close and dump"
  /\ opened' = opened \ {t}
  /\ Goto(t, "dump")
  /\ UNCHANGED << g_logLevel, changes, g_dwLogCount, holding, file, left, call, size, number, report >>

(* ... and ReleaseSRWLockExclusive.  After ExceptLogBufInSuf the caller     *)
(* starts again from the beginning, with a number of its own.               *)
Close(t) ==
  /\ at[t] = "close"
  /\ opened' = opened \ {t}
  /\ holding' = holding \ {t}
  /\ Goto(t, IF report[t] THEN "number" ELSE "idle")
  /\ report' = [ report EXCEPT ![t] = FALSE ]
  /\ UNCHANGED << g_logLevel, changes, g_dwLogCount, file, left, call, size, number >>
-----------------------------------------------------------------------------
(* SET_LOG_LEVEL, INCREASE_LOG_LEVEL, DECREASE_LOG_LEVEL; SET is given any   *)
(* value of the enumeration.                                                *)
Raised(level)  == IF level \in DEBUG .. SYSTEM THEN level + 1 ELSE level
Lowered(level) == IF level \in SYSTEM .. ERR THEN level - 1 ELSE level

ChangeLevel ==
  /\ changes < MaxChanges /\ changes' = changes + 1
  /\ \/ g_logLevel' \in LOG_LEVEL
     \/ g_logLevel' = Raised(g_logLevel)
     \/ g_logLevel' = Lowered(g_logLevel)
  /\ UNCHANGED << g_dwLogCount, holding, opened, file, at, left, call, size, number, report >>

Step(t) ==
  \/ Log(t) \/ TakeNumber(t) \/ TextFits(t) \/ TextTooLong(t)
  \/ Lock(t) \/ Write(t) \/ CloseAndDump(t) \/ Close(t)

Next == ChangeLevel \/ \E t \in Threads : Step(t)

Spec == Init /\ [][Next]_vars

(* A thread that logs goes on, whatever the others do.                      *)
FairSpec == Spec /\ \A t \in Threads : WF_vars(Step(t))
-----------------------------------------------------------------------------
(* The number of a line is there to tell the order of the lines (comment    *)
(* above MakeLogLevelAndCount): no two lines have the same, and the lines   *)
(* of one thread ascend, however often its buffer was too small.            *)
NumbersTellOrder ==
  \A i, j \in DOMAIN file :
    i < j /\ file[i].what = "line" /\ file[j].what = "line" =>
      /\ file[i].number # file[j].number
      /\ file[i].by = file[j].by => file[i].number < file[j].number

(* The file is opened by one thread at a time, since a second one would     *)
(* fail, and a dump comes right after the line it belongs to.               *)
FileTaken ==
  /\ Cardinality(opened) <= 1
  /\ \A i \in DOMAIN file : file[i].what = "dump" =>
       i > 1 /\ file[i - 1] = [ file[i] EXCEPT !.what = "line" ]

(* Every call comes to its end: the buffer grows until the message fits.    *)
EveryCallEnds == \A t \in Threads : at[t] # "idle" ~> at[t] = "idle"
==============================================================================
