----------------------------- MODULE MemoryPool ------------------------------
(***************************************************************************)
(* CMemoryPool: a free list of blocks between threads that share one       *)
(* SRWLOCK (Library/CMemoryPool, copied into MemPoolList, Packet and       *)
(* NetLib_MMO; the copy of the 7000 server has one thread and no lock).    *)
(* A step is what a thread does between two points at which another could  *)
(* interfere if the lock did not keep it out.                              *)
(***************************************************************************)
EXTENDS Naturals, FiniteSets

CONSTANTS
  Threads,
  Blocks,        \* the addresses new may return
  iBlockNum,     \* blocks made by the constructor
  FreeReleases   \* Free() releases the lock (NetLib_MMO) or returns before
                 \* it gets there (Library/CMemoryPool)

VARIABLES
  pNext,          \* of every block
  pFreeNode,      \* _pFreeNode.pNext, the head of the free list
  m_iCapacity, m_iUseCount,
  made,           \* blocks that new has returned and no destructor deleted
  lock,           \* m_srwLock: its owner
  pc,             \* "out", "alloc", "unlink", "take", "free"
  node,           \* pTempNode, st_makeStruct
  held            \* blocks the callers of each thread hold

poolvars == << pNext, pFreeNode, m_iCapacity, m_iUseCount, made >>
vars == << poolvars, lock, pc, node, held >>

NULL == "NULL"

(* The constructor chains its blocks in the order it makes them. *)
Init ==
  \E chain \in [ 1 .. iBlockNum -> Blocks ] :
    /\ \A i, j \in 1 .. iBlockNum : chain[i] = chain[j] => i = j
    /\ made = { chain[i] : i \in 1 .. iBlockNum }
    /\ pNext = [ b \in Blocks |->
                   IF \E i \in 2 .. iBlockNum : chain[i] = b
                     THEN chain[(CHOOSE i \in 2 .. iBlockNum : chain[i] = b) - 1]
                     ELSE NULL ]
    /\ pFreeNode = IF iBlockNum = 0 THEN NULL ELSE chain[iBlockNum]
    /\ m_iCapacity = iBlockNum
    /\ m_iUseCount = 0
    /\ lock = NULL
    /\ pc = [ t \in Threads |-> "out" ]
    /\ node = [ t \in Threads |-> NULL ]
    /\ held = [ t \in Threads |-> {} ]

(* The free list as a set, read off the chain of pNext. *)
FreeList ==
  LET Chain[i \in 0 .. Cardinality(Blocks)] ==
        IF i = 0 THEN pFreeNode
        ELSE IF Chain[i - 1] = NULL THEN NULL ELSE pNext[Chain[i - 1]]
  IN  { Chain[i] : i \in 0 .. Cardinality(Blocks) } \ {NULL}

-----------------------------------------------------------------------------
(* A pool without the lock. *)
MutAcquire(t) == lock \in Threads \union {NULL} /\ lock' = t

Acquire(t) == lock = NULL /\ lock' = t

AllocEnter(t) ==
  /\ pc[t] = "out"
  /\ Acquire(t)
  /\ pc' = [ pc EXCEPT ![t] = "alloc" ]
  /\ UNCHANGED << poolvars, node, held >>

(* m_iCapacity == 0: a new block, which joins no list. *)
AllocNew(t) ==
  /\ pc[t] = "alloc"
  /\ m_iCapacity = 0
  /\ \E b \in Blocks \ made :
       /\ made' = made \union {b}
       /\ node' = [ node EXCEPT ![t] = b ]
  /\ pc' = [ pc EXCEPT ![t] = "take" ]
  /\ UNCHANGED << pNext, pFreeNode, m_iCapacity, m_iUseCount, lock, held >>

AllocHead(t) ==
  /\ pc[t] = "alloc"
  /\ m_iCapacity # 0
  /\ node' = [ node EXCEPT ![t] = pFreeNode ]
  /\ pc' = [ pc EXCEPT ![t] = "unlink" ]
  /\ UNCHANGED << poolvars, lock, held >>

AllocUnlink(t) ==
  /\ pc[t] = "unlink"
  /\ pFreeNode' = pNext[node[t]]
  /\ m_iCapacity' = m_iCapacity - 1
  /\ pc' = [ pc EXCEPT ![t] = "take" ]
  /\ UNCHANGED << pNext, m_iUseCount, made, lock, node, held >>

AllocReturn(t) ==
  /\ pc[t] = "take"
  /\ m_iUseCount' = m_iUseCount + 1
  /\ lock' = NULL
  /\ held' = [ held EXCEPT ![t] = @ \union {node[t]} ]
  /\ node' = [ node EXCEPT ![t] = NULL ]
  /\ pc' = [ pc EXCEPT ![t] = "out" ]
  /\ UNCHANGED << pNext, pFreeNode, m_iCapacity, made >>

(* A block goes back through the thread that has it; a thread may pass a   *)
(* block on to another, which is why t need not have allocated it.         *)
FreeEnter(t) ==
  /\ pc[t] = "out"
  /\ Acquire(t)
  /\ \E b \in held[t] :
       /\ node' = [ node EXCEPT ![t] = b ]
       /\ held' = [ held EXCEPT ![t] = @ \ {b} ]
  /\ pc' = [ pc EXCEPT ![t] = "free" ]
  /\ UNCHANGED poolvars

(* Free() that does not count the block as free. *)
MutFreePush(t) ==
  /\ pc[t] = "free"
  /\ pNext' = [ pNext EXCEPT ![node[t]] = pFreeNode ]
  /\ pFreeNode' = node[t]
  /\ m_iUseCount' = m_iUseCount - 1
  /\ lock' = IF FreeReleases THEN NULL ELSE lock
  /\ node' = [ node EXCEPT ![t] = NULL ]
  /\ pc' = [ pc EXCEPT ![t] = "out" ]
  /\ UNCHANGED << m_iCapacity, made, held >>

FreePush(t) ==
  /\ pc[t] = "free"
  /\ pNext' = [ pNext EXCEPT ![node[t]] = pFreeNode ]
  /\ pFreeNode' = node[t]
  /\ m_iCapacity' = m_iCapacity + 1
  /\ m_iUseCount' = m_iUseCount - 1
  /\ lock' = IF FreeReleases THEN NULL ELSE lock
  /\ node' = [ node EXCEPT ![t] = NULL ]
  /\ pc' = [ pc EXCEPT ![t] = "out" ]
  /\ UNCHANGED << made, held >>

HandOver(t, u) ==
  /\ t # u
  /\ \E b \in held[t] :
       held' = [ held EXCEPT ![t] = @ \ {b}, ![u] = @ \union {b} ]
  /\ UNCHANGED << poolvars, lock, pc, node >>

(* The destructor walks the free list; blocks still held are left alone. *)
Destroy ==
  /\ \A t \in Threads : pc[t] = "out"
  /\ pFreeNode # NULL
  /\ made' = made \ FreeList
  /\ m_iCapacity' = m_iCapacity - Cardinality(FreeList)
  /\ pFreeNode' = NULL
  /\ UNCHANGED << pNext, m_iUseCount, lock, pc, node, held >>

Step(t) ==
  \/ AllocEnter(t) \/ AllocNew(t) \/ AllocHead(t) \/ AllocUnlink(t)
  \/ AllocReturn(t)
  \/ FreeEnter(t) \/ FreePush(t)
  \/ \E u \in Threads : HandOver(t, u)

Next == (\E t \in Threads : Step(t)) \/ Destroy

Spec == Init /\ [][Next]_vars

-----------------------------------------------------------------------------
InFlight == { node[t] : t \in { u \in Threads : pc[u] \in {"take", "free"} } }
AllHeld == UNION { held[t] : t \in Threads }

(* Every block that exists is in one place: on the free list, with one     *)
(* caller, or on its way in Alloc or Free.  None is handed out twice and   *)
(* none is lost, whatever the threads interleave.                          *)
BlocksInOnePlace ==
  /\ made = FreeList \union AllHeld \union InFlight
  /\ FreeList \intersect (AllHeld \union InFlight) = {}
  /\ AllHeld \intersect InFlight = {}
  /\ \A t, u \in Threads : t # u => held[t] \intersect held[u] = {}

(* m_iCapacity is what Alloc decides by, m_iUseCount what is reported: the *)
(* one is the length of the free list, the other the blocks in callers'    *)
(* hands once no call is under way.                                        *)
CountsExact ==
  /\ m_iCapacity = Cardinality(FreeList)
  /\ (\A t \in Threads : pc[t] = "out") => m_iUseCount = Cardinality(AllHeld)

(* "Alloc: one block is handed out" (CMemoryPool.h:64): with no call under *)
(* way the lock is free, so that the next call can enter.                  *)
LockGivenBack ==
  (\A t \in Threads : pc[t] = "out") => lock = NULL

=============================================================================
