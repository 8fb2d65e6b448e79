-------------------------------- MODULE Parts --------------------------------
(* Parts of the repository that talk to nobody, one beside the other, for   *)
(* PartsProofs and MCLibrary.  Constants that two parts know by the same     *)
(* name, and variables, get names of their own here.                        *)
EXTENDS Sector, FiniteSets

CONSTANTS
  ErrorRange, RangeX, RangeY,                                        \* Walk
  Threads, Blocks, iBlockNum, FreeReleases,                          \* Pool
  Seats, Rounds,                                                     \* Spin
  MaxLen, MaxAlign,                                                  \* Dump
  DefaultSize, MaxSize, Widths, MaxPut,                              \* Message
  Loggers, Word, Initial, Header, Notice, Calls, MaxCalls, MaxChanges, \* Log
  GridWidth, GridHeight, Starts, Goals, MaxWalls, MaxJumps,          \* Jump
  Nodes, Values,                                                     \* List
  TreeNodes, TreeKeys,                                               \* Tree
  MaxNodes, RedBlackKeys                                             \* RedBlack

VARIABLES
  x, y, old,                                                         \* Walk
  pNext, pFreeNode, m_iCapacity, m_iUseCount, made, lock, pc, pnode, held, \* Pool
  mMutex, mOner, spc, round,                                         \* Spin
  dwBufferLen, dwAlign, dwNumOfWChar, dumped, shown, terminated, doing, overrun, \* Dump
  buffer, readPos, writePos, written, taken, stopped,                \* Message
  g_logLevel, changes, g_dwLogCount, holding, opened, file, where, left, call,
  lsize, number, report,                                             \* Log
  wall, start, goal, beyond, open, close, state, cur, jumps, dist, calls, \* Jump
  nxt, prv, data, nsize, used, iter,                                 \* List
  tnode, st_Root, asked, result,                                     \* Tree
  rnode, rcount, _st_Root, rz                                        \* RedBlack

(* What an attack and an unnoticed displacement reach is at most a sector    *)
(* wide and high (ContentsDefine.h).                                        *)
ASSUME WalkAssumption ==
  /\ ErrorRange \in Nat /\ ErrorRange <= GridX /\ ErrorRange <= GridY
  /\ RangeX \in Nat /\ RangeX <= GridX
  /\ RangeY \in Nat /\ RangeY <= GridY

(* There are finitely many addresses, and NULL is none of them.             *)
ASSUME PoolAssumption ==
  /\ IsFiniteSet(Blocks) /\ iBlockNum \in Nat
  /\ "NULL" \notin Blocks \cup Threads

(* Philosophers are numbered, and -1 is none of them.                       *)
ASSUME SpinAssumption == Seats \subseteq Nat /\ Rounds \in Nat

ASSUME DumpAssumption == MaxLen \in Nat /\ MaxAlign \in Nat

(* The size of the text is a DWORD.  For longer blocks it would come round, *)
(* which BinaryLog leaves out.                                              *)
ASSUME SizeAssumption == MaxLen <= 214748364

ASSUME MessageAssumption ==
  /\ DefaultSize \in Nat /\ MaxSize \in Nat /\ MaxPut \in Nat
  /\ Widths \subseteq 1 .. DefaultSize

(* A DWORD has more than one value.                                         *)
ASSUME LogAssumption == Word \in Nat \ {0, 1} /\ MaxCalls \in Nat

(* The grid has cells, and searches go from one to another.                 *)
ASSUME JumpAssumption ==
  /\ GridWidth \in Nat \ {0} /\ GridHeight \in Nat \ {0}
  /\ Starts \cup Goals \subseteq (0 .. GridHeight - 1) \X (0 .. GridWidth - 1)

(* There are finitely many nodes, and neither the sentinels nor NULL is one. *)
ASSUME ListAssumption ==
  IsFiniteSet(Nodes) /\ "head" \notin Nodes /\ "tail" \notin Nodes /\ "null" \notin Nodes

(* Keys are integers; there are finitely many nodes, and nullptr is none.   *)
ASSUME TreeAssumption ==
  TreeKeys \subseteq Int /\ IsFiniteSet(TreeNodes) /\ "nullptr" \notin TreeNodes

(* Keys are integers.                                                       *)
ASSUME RedBlackAssumption == MaxNodes \in Nat /\ RedBlackKeys \subseteq Int

Walk == INSTANCE SectorWalk

Pool == INSTANCE MemoryPool WITH node <- pnode

Spin == INSTANCE SpinTable WITH pc <- spc

Dump == INSTANCE BinaryLog WITH written <- dumped

Message == INSTANCE SerializeBuffer WITH
  Default <- DefaultSize, Max <- MaxSize, MaxBytes <- MaxPut

Log == INSTANCE Logger WITH Threads <- Loggers, at <- where, size <- lsize

Jump == INSTANCE JumpPoint WITH MaxCalls <- MaxJumps

List == INSTANCE LinkedList WITH size <- nsize

Tree == INSTANCE SearchTree WITH
  Nodes <- TreeNodes, Keys <- TreeKeys, node <- tnode

RedBlack == INSTANCE RedBlackTree WITH
  Keys <- RedBlackKeys, node <- rnode, count <- rcount, z <- rz
-----------------------------------------------------------------------------
(* SectorWalk: the sector operators agree with their definitions by         *)
(* distance, for every step a player can take and every attack.             *)
SectorsExact ==
  Walk!AroundIsBlock /\ Walk!UpdateIsDifference /\ Walk!AttackSectorsSuffice

(* MemoryPool: every block is in one place, and the counters are exact.     *)
PoolExact == Pool!BlocksInOnePlace /\ Pool!CountsExact

(* SpinTable: one philosopher at a time eats.                               *)
EatsAlone == Spin!EatsAlone

(* BinaryLog: the text has the length that was worked out.                  *)
TextFits == Dump!TextFits

(* SerializeBuffer: what is taken out is what was put.                      *)
TakenAsPut == Message!TakenAsPut

(* Logger: the numbers of the lines tell their order, one thread at a time  *)
(* has the file, and dumps follow their line.                               *)
LinesInOrder == Log!NumbersTellOrder /\ Log!FileTaken

(* JumpPoint: the two lists agree, and nodes lie on free lines.             *)
JumpsAgree == Jump!ListsAgree /\ Jump!NodesInLine

(* LinkedList: the list reads the same from either end, and implements a    *)
(* sequence with an iterator.                                               *)
ListKeepsPromise == []List!EndsAgree /\ List!KeepsItsPromise

(* SearchTree: the tree implements a set.                                   *)
TreeKeepsPromise == Tree!KeepsItsPromise

(* RedBlackTree: one ordered tree, balanced, at every step of the loop.     *)
TreeBalanced == RedBlack!Linked /\ RedBlack!Balanced
==============================================================================
