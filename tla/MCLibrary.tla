------------------------------ MODULE MCLibrary ------------------------------
(* The programs of Library, and what the projects compute without talking   *)
(* to anybody, one beside the other: a behaviour is about one of them, the  *)
(* others stay in an initial state.                                         *)
(*   "direct", "queue": the two programs around the ring buffer; the        *)
(*   constants of the .cfg are those of "direct".                           *)
(*   "cave": every map of 5 x 5 cells.                                      *)
(* Of module Parts, with the constants of the .cfg:                         *)
(*   "walk": a 5 x 4 grid of 3 x 2 sectors whose last column is partial.    *)
(*   "jump": up to three walls on 4 x 4 cells, two diagonal jumps.          *)
(*   "log": two threads log a dump and a line longer than their buffer.     *)
(*   "pool", "list", "tree", "spin", "dump", "message": the memory pool,    *)
(*   the list over it, the search tree, the spin lock, the log dump and the *)
(*   message buffer.                                                        *)
EXTENDS RingThreads, Parts

VARIABLES
  part,
  qIn, qOut, qbuf, qppc, qpn, qpDirect, qnext, qcpc, qcGe, qcIn, qcUse, qcn,
  qchunk, qgot,                                                      \* Queue
  road, gen, phase                                                   \* Cave

Queue == INSTANCE RingThreads WITH
  FullSize <- 5, DirectTest <- FALSE, RandMax <- 5, SizeT <- 16, MaxBytes <- 13,
  In <- qIn, Out <- qOut, buf <- qbuf, ppc <- qppc, pn <- qpn, pDirect <- qpDirect,
  next <- qnext, cpc <- qcpc, cGe <- qcGe, cIn <- qcIn, cUse <- qcUse, cn <- qcn,
  chunk <- qchunk, got <- qgot

Cave == INSTANCE Cellular WITH GridWidth <- 5, GridHeight <- 5, Generations <- 2

(* What the threads log.                                                    *)
SomeCalls == { [ length |-> 0, dump |-> TRUE ], [ length |-> 5, dump |-> FALSE ] }

(* Where the searches with jumps go from and to.                            *)
SomeStarts == { << 0, 0 >>, << 3, 1 >> }
SomeGoals  == { << 2, 1 >> }

qVars == << qIn, qOut, qbuf, qppc, qpn, qpDirect, qnext, qcpc, qcGe, qcIn, qcUse, qcn,
            qchunk, qgot >>
walkVars  == << x, y, old >>
caveVars  == << road, gen, phase >>
jumpVars  == << wall, start, goal, beyond, open, close, state, cur, jumps, dist, calls >>
poolVars  == << pNext, pFreeNode, m_iCapacity, m_iUseCount, made, lock, pc, pnode, held >>
listVars  == << nxt, prv, data, nsize, used, iter >>
treeVars  == << tnode, st_Root, asked, result >>
rbVars    == << rnode, rcount, _st_Root, rz >>
spinVars  == << mMutex, mOner, spc, round >>
dumpVars  == << dwBufferLen, dwAlign, dwNumOfWChar, dumped, shown, terminated, doing,
                overrun >>
messageVars == << buffer, readPos, writePos, written, taken, stopped >>
logVars   == << g_logLevel, changes, g_dwLogCount, holding, opened, file, where, left,
                call, lsize, number, report >>
others == << part, qVars, walkVars, caveVars, jumpVars, poolVars, listVars, treeVars,
             rbVars, spinVars, dumpVars, messageVars, logVars >>

MCInit ==
  /\ part \in {"direct", "queue", "walk", "cave", "jump", "pool", "list", "tree",
               "redblack", "spin", "dump", "message", "log"}
  /\ Jump!Init
  /\ part # "jump" => wall = {} /\ start = << 0, 0 >> /\ beyond = FALSE
  /\ Cave!Init /\ (part # "cave" => road = {} /\ gen = 0)
  /\ Walk!Init /\ (part # "walk" => x = 0 /\ y = 0)
  /\ Dump!Init /\ (part # "dump" => dwBufferLen = 1 /\ dwAlign = 1)
  /\ Pool!Init /\ (part # "pool" => pFreeNode = "a")
  /\ Init /\ Queue!Init /\ List!Init /\ Tree!Init /\ RedBlack!Init
  /\ Spin!Init /\ Message!Init /\ Log!Init

MCNext ==
  /\ UNCHANGED part
  /\ IF part = "direct" THEN Next ELSE UNCHANGED vars
  /\ IF part = "queue" THEN Queue!Next ELSE UNCHANGED qVars
  /\ IF part = "walk" THEN Walk!Walk ELSE UNCHANGED walkVars
  /\ IF part = "cave" THEN Cave!Next ELSE UNCHANGED caveVars
  /\ IF part = "jump" THEN Jump!Next ELSE UNCHANGED jumpVars
  /\ IF part = "pool" THEN Pool!Next ELSE UNCHANGED poolVars
  /\ IF part = "list" THEN List!Next ELSE UNCHANGED listVars
  /\ IF part = "tree" THEN Tree!Next ELSE UNCHANGED treeVars
  /\ IF part = "redblack" THEN RedBlack!Next ELSE UNCHANGED rbVars
  /\ IF part = "spin" THEN Spin!Next ELSE UNCHANGED spinVars
  /\ IF part = "dump" THEN Dump!Next ELSE UNCHANGED dumpVars
  /\ IF part = "message" THEN Message!Next ELSE UNCHANGED messageVars
  /\ IF part = "log" THEN Log!Next ELSE UNCHANGED logVars

MCSpec == MCInit /\ [][MCNext]_<< vars, others >>
-----------------------------------------------------------------------------
(* RingThreads, "queue": Enqueue never refuses what GetFreeSize allowed.    *)
QueueNothingRefused == Queue!NothingRefused

(* Cellular: what is left of the cave is in one piece, and the biggest.     *)
CaveKept == []Cave!CaveInOnePiece /\ Cave!BiggestKept
==============================================================================
