------------------------------- MODULE Slab -------------------------------
(***************************************************************************)
(* brsdk::MemorySlab: pages handed out whole or cut into chunks of one     *)
(* size class.  Free runs of pages are in one list, the pages of a class   *)
(* that have a free chunk in another; both are threaded through the page   *)
(* descriptors, and whether a neighbour is free is found out by following  *)
(* its list back to the head.                                              *)
(*                                                                         *)
(* Pages are numbers from 1; the heads of the lists lie before them in     *)
(* memory, as the walk in slab_empty needs, and are the numbers from 0     *)
(* down; Null is none of them.  A descriptor's slab field is the length of *)
(* a free run at its head and 0 inside it, Start + length of an allocated  *)
(* run at its head and Busy inside it, which are longer than any run, and  *)
(* for a page in chunks stands for the class, as a number below 0: the     *)
(* bitmap of SMALL, EXACT and BIG pages, kept in three places, is the set  *)
(* used.  SMALL pages give their first chunks, Reserved, to the bitmap.    *)
(* The mutex makes each call one step.                                     *)
(***************************************************************************)
EXTENDS Integers, FiniteSets

CONSTANTS NumPages,    \* real_pages_
          Classes,     \* the size classes, from 1
          Chunks,      \* Chunks[c]: the chunks in a page of class c
          Reserved,    \* Reserved[c]: how many of them hold the bitmap
          Handles      \* bound: the pointers callers may hold

Pages == 1 .. NumPages
FreeHead == 0
Slot(c) == -c
Null == NumPages + 1
Start == NumPages
Busy == 2 * NumPages + 1

ASSUME SlabAssumption ==
  /\ NumPages \in Nat \ {0}
  /\ Classes \subseteq Nat \ {0}
  /\ \A c \in Classes : /\ Reserved[c] \in Nat /\ Chunks[c] \in Nat
                        /\ Reserved[c] + 2 <= Chunks[c]

VARIABLES mem,     \* the fields slab, next and prev of descriptors and heads
          used,    \* the bitmaps
          held     \* what each caller's pointer points to

slabVars == <<mem, used, held>>

Heads == {FreeHead} \cup {Slot(c) : c \in Classes}
Nodes == Pages \cup Heads

SlabInit ==
  /\ mem = [slab |-> [n \in Nodes |-> IF n = 1 THEN NumPages ELSE 0],
            next |-> [n \in Nodes |-> IF n = FreeHead THEN 1
                                      ELSE IF n \in Heads THEN n
                                      ELSE IF n = 1 THEN FreeHead ELSE Null],
            prev |-> [n \in Nodes |-> IF n = 1 THEN FreeHead ELSE Null]]
  /\ used = [p \in Pages |-> {}]
  /\ held = [h \in Handles |-> <<>>]

(***************************************************************************)
(* Lists                                                                   *)
(***************************************************************************)
(* The pages that a walk along f from n comes by before it leaves Pages.   *)
Reached(f, n) ==
  LET closed == {S \in SUBSET Pages : n \in S /\ \A p \in S : f[p] \in Pages => f[p] \in S}
  IN IF n \in Pages THEN {p \in Pages : \A S \in closed : p \in S} ELSE {}

(* The pages in the list of head.                                          *)
Listed(m, head) == Reached(m.next, m.next[head])

Unlinked(m, n) ==
  [m EXCEPT !.next[m.prev[n]] = m.next[n], !.prev[m.next[n]] = m.prev[n]]

Pushed(m, head, p) ==
  [m EXCEPT !.next[head] = p, !.next[p] = m.next[head],
            !.prev[m.next[head]] = p, !.prev[p] = head]

(* The descriptors in S hold slab and are in no list.                      *)
Unlisted(m, S, slab) ==
  LET all(f, v) == [n \in Nodes |-> IF n \in S THEN v ELSE f[n]]
  IN [slab |-> all(m.slab, slab), next |-> all(m.next, Null), prev |-> all(m.prev, Null)]

Zeroed(m, S) == Unlisted(m, S, 0)

(***************************************************************************)
(* alloc_pages and free_pages                                              *)
(***************************************************************************)
(* The first free run of n pages or more, where the walk along the list    *)
(* ends; none if there is none.                                            *)
Fits(m, n) ==
  LET onward == [p \in Pages |-> IF m.slab[p] >= n THEN Null ELSE m.next[p]]
  IN {p \in Reached(onward, m.next[FreeHead]) : m.slab[p] >= n}

TakenPages(m, page, n) ==
  LET rest == m.slab[page] - n
      r == page + n
      m1 == IF rest > 0
            THEN [m EXCEPT !.slab[r] = rest,
                           !.next[r] = m.next[page], !.next[m.prev[page]] = r,
                           !.prev[r] = m.prev[page], !.prev[m.next[page]] = r]
            ELSE Unlinked(m, page)
  IN [Unlisted(m1, page .. page + n - 1, Busy) EXCEPT !.slab[page] = Start + n]

(* slab_empty: the head that following prev leads to is that of the free   *)
(* runs.                                                                   *)
SlabEmpty(m, p) ==
  \/ m.slab[p] = 0
  \/ m.next[p] # Null /\ \E q \in Reached(m.prev, p) : m.prev[q] = FreeHead

(* The head of the free run that ends before page.                         *)
RunBefore(m, page) == CHOOSE q \in 1 .. page - 1 :
  m.slab[q] # 0 /\ \A p \in q + 1 .. page - 1 : m.slab[p] = 0

(* page, the first in the list, joins the run before it.                   *)
MergedBack(m, page) ==
  LET q == RunBefore(m, page)
  IN Zeroed([m EXCEPT !.slab[q] = @ + m.slab[page], !.next[FreeHead] = m.next[page],
                      !.prev[m.next[page]] = FreeHead], {page})

(* The run after that of page joins it.                                    *)
MergedForward(m, page) ==
  LET r == page + m.slab[page]
  IN Zeroed([Unlinked(m, r) EXCEPT !.slab[page] = @ + m.slab[r]], {r})

(* A bug: a free run of one page before this one is not seen.              *)
MergesBackInside(m, page) == page # 1 /\ m.slab[page - 1] = 0

MergesBack(m, page) == page # 1 /\ SlabEmpty(m, page - 1)

ReturnedPages(m, page, n) ==
  LET cleared == Zeroed(m, page + 1 .. page + n - 1)
      out  == IF cleared.next[page] # Null THEN Unlinked(cleared, page) ELSE cleared
      free == [Pushed(out, FreeHead, page) EXCEPT !.slab[page] = n]
      back == MergesBack(free, page)
      head == IF back THEN RunBefore(free, page) ELSE page
      m1   == IF back THEN MergedBack(free, page) ELSE free
      next == head + m1.slab[head]
  IN IF next <= NumPages /\ SlabEmpty(m1, next) THEN MergedForward(m1, head) ELSE m1

(***************************************************************************)
(* alloc                                                                   *)
(***************************************************************************)
Unheld(h) == held[h] = <<>>

(* Sizes of half a page and more.                                          *)
AllocPages(h, n) ==
  /\ Unheld(h)
  /\ \/ Fits(mem, n) = {} /\ UNCHANGED <<mem, held>>
     \/ \E page \in Fits(mem, n) :
          /\ mem' = TakenPages(mem, page, n)
          /\ held' = [held EXCEPT ![h] = <<"pages", page, n>>]
  /\ UNCHANGED used

(* From the first page of the class's list, which leaves it when full.     *)
AllocChunk(h, c) ==
  LET page == mem.next[Slot(c)]
  IN /\ Unheld(h)
     /\ page # Slot(c)
     /\ \E chunk \in 0 .. Chunks[c] - 1 \ used[page] :
          /\ \A j \in 0 .. chunk - 1 : j \in used[page]
          /\ used' = [used EXCEPT ![page] = @ \cup {chunk}]
          /\ mem' = IF used[page] \cup {chunk} = 0 .. Chunks[c] - 1
                    THEN [Unlinked(mem, page) EXCEPT !.next[page] = Null, !.prev[page] = Null]
                    ELSE mem
          /\ held' = [held EXCEPT ![h] = <<"chunk", page, chunk>>]

(* The class has no page with a free chunk, and gets one if there is one.  *)
AllocNewPage(h, c) ==
  /\ Unheld(h)
  /\ mem.next[Slot(c)] = Slot(c)
  /\ \/ Fits(mem, 1) = {} /\ UNCHANGED slabVars
     \/ \E page \in Fits(mem, 1) :
          /\ mem' = [TakenPages(mem, page, 1) EXCEPT
                       !.slab[page] = Slot(c), !.next[page] = Slot(c),
                       !.next[Slot(c)] = page, !.prev[page] = Slot(c)]
          /\ used' = [used EXCEPT ![page] = 0 .. Reserved[c]]
          /\ held' = [held EXCEPT ![h] = <<"chunk", page, Reserved[c]>>]

(***************************************************************************)
(* free, of a pointer that alloc returned                                  *)
(***************************************************************************)
FreePages(h) ==
  /\ held[h] # <<>> /\ held[h][1] = "pages"
  /\ mem' = ReturnedPages(mem, held[h][2], mem.slab[held[h][2]] - Start)
  /\ held' = [held EXCEPT ![h] = <<>>]
  /\ UNCHANGED used

(* A full page comes back to the list of its class, an empty one goes.     *)
FreeChunk(h) ==
  /\ held[h] # <<>> /\ held[h][1] = "chunk"
  /\ LET page == held[h][2]
         c == -mem.slab[page]
         m == IF mem.next[page] = Null THEN Pushed(mem, Slot(c), page) ELSE mem
         left == used[page] \ {held[h][3]}
     IN /\ used' = [used EXCEPT ![page] = left]
        /\ mem' = IF left \subseteq 0 .. Reserved[c] - 1
                  THEN ReturnedPages(m, page, 1) ELSE m
  /\ held' = [held EXCEPT ![h] = <<>>]

SlabNext ==
  \E h \in Handles :
     \/ \E n \in Pages : AllocPages(h, n)
     \/ \E c \in Classes : AllocChunk(h, c) \/ AllocNewPage(h, c)
     \/ FreePages(h)
     \/ FreeChunk(h)

SlabSpec == SlabInit /\ [][SlabNext]_slabVars
-----------------------------------------------------------------------------
InUse == {h \in Handles : held[h] # <<>>}

Covered(h) ==
  IF held[h][1] = "pages" THEN held[h][2] .. held[h][2] + held[h][3] - 1
                          ELSE {held[h][2]}

(* No two callers hold overlapping memory, nor the bitmap's.               *)
Disjoint ==
  /\ \A g, h \in InUse : g # h /\ Covered(g) \cap Covered(h) # {} =>
       held[g][1] = "chunk" /\ held[h][1] = "chunk" /\ held[g][3] # held[h][3]
  /\ \A h \in InUse : held[h][1] = "chunk" =>
       held[h][3] \in Reserved[-mem.slab[held[h][2]]] .. Chunks[-mem.slab[held[h][2]]] - 1

(* The longest stretches of pages that nobody holds.                       *)
Taken == UNION {Covered(h) : h \in InUse}

FreeRuns ==
  {run \in Pages \X Pages :
     LET p == run[1]  next == run[1] + run[2]
     IN /\ next - 1 \in Pages
        /\ Taken \cap (p .. next - 1) = {}
        /\ p - 1 \in Taken \cup {0} /\ next \in Taken \cup {NumPages + 1}}

ChunksHeld(p) == {held[h][3] : h \in {g \in InUse : held[g][1] = "chunk" /\ held[g][2] = p}}

(* The walk that comes by the pages listed ends at head, where it began.   *)
ComesBack(m, head, listed) == \E n \in {head} \cup listed : m.next[n] = head

(* The search of alloc_pages for n pages (slab.cpp:713-714) ends at pages  *)
(* that nobody holds, and ends without any only when no n pages in a row   *)
(* are free: then alloc returns null.  It follows from SlabSound, which    *)
(* the runs check.                                                         *)
SearchExact ==
  LET free == Pages \ Taken
  IN \A n \in Pages :
       LET found == Fits(mem, n)
       IN /\ \A page \in found : page .. page + n - 1 \subseteq free
          /\ found = {} => ~\E page \in free : page .. page + n - 1 \subseteq free

(* Memory handed out is never handed out again before it is freed, and     *)
(* what was freed can all be had again: free pages have merged with their  *)
(* free neighbours (slab.cpp:774-804), so that the search is exact, and    *)
(* the list of a class has each page with a free chunk once, and no page   *)
(* without one, on which the search of _alloc relies (slab.cpp:268-391).   *)
SlabSound ==
  /\ Disjoint
  /\ LET listed == Listed(mem, FreeHead)
     IN /\ {<<p, mem.slab[p]>> : p \in listed} = FreeRuns
        /\ ComesBack(mem, FreeHead, listed)
  /\ \A c \in Classes :
       LET listed == Listed(mem, Slot(c))
       IN /\ listed = {p \in Pages :
                         /\ mem.slab[p] = Slot(c)
                         /\ Cardinality(ChunksHeld(p)) \in 1 .. Chunks[c] - Reserved[c] - 1}
          /\ ComesBack(mem, Slot(c), listed)
=============================================================================
