--------------------------------- MODULE Heap ---------------------------------
(***************************************************************************)
(* The memory under the objects: the next-fit free list of gc.c            *)
(* (heap_alloc, heap_free, heap_morecore), and the walk by which           *)
(* gc_sweep_page finds the objects of a page between its free blocks.      *)
(*                                                                         *)
(* Addresses count units of sizeof(union header).  A block is a header     *)
(* unit and the units after it; its size counts the header.  The list is   *)
(* circular and ordered by address; the heap's own header and the first    *)
(* header of every page are in it with size 0.                             *)
(***************************************************************************)
EXTENDS Integers, Sequences, FiniteSets, FiniteSetsExt, SequencesExt

CONSTANTS
  Unit,        \* the addresses
  BaseAddrs,   \* where struct heap, which holds the base header, may be
  PageAddrs,   \* where malloc may put a page
  PageUnits,   \* PIC_HEAP_PAGE_SIZE / sizeof(union header)
  Sizes        \* block sizes asked for, header included

Extent(a, n) == a .. a + n - 1

ASSUME UnitAssumption ==
  /\ Unit \subseteq Nat /\ IsFiniteSet(Unit)
  /\ BaseAddrs \subseteq Unit /\ PageAddrs \subseteq Unit
  /\ \A a \in PageAddrs : Extent(a, PageUnits) \subseteq Unit
  /\ \A a, b \in PageAddrs :
       a # b => Extent(a, PageUnits) \cap Extent(b, PageUnits) = {}
  /\ \A a \in PageAddrs : Extent(a, PageUnits) \cap BaseAddrs = {}
ASSUME SizeAssumption == PageUnits \in Nat /\ PageUnits >= 2 /\ Sizes \subseteq Nat \ {0}

VARIABLES
  base,    \* &heap->base
  mem,     \* the free list: ptr and size of the headers, and freep
  pages,   \* basep of the pages in heap->pages
  objs,    \* the blocks handed out
  black,   \* objects the mark phase left BLACK
  want,    \* units pic_obj_alloc is asked for
  stage,   \* its attempts so far: 0, 1 (collected), 2 (grown)
  phase,   \* "run", "alloc", "sweep", "walk", "free" or "panic"
  left,    \* pages the sweep has not come to yet
  page,    \* the page gc_sweep_page is given,
  bp, p,   \* its position: a free block, and an address after it,
  dead,    \* and its list of dead objects
  inuse    \* what the calls so far returned: units found alive

sweepVars == << left, page, bp, p, dead, inuse >>
vars == << base, mem, pages, objs, black, want, stage, phase,
           left, page, bp, p, dead, inuse >>

-----------------------------------------------------------------------------
(* Operations on the list: mem.ptr is defined on its blocks, mem.size on    *)
(* these and on the objects.  Link(m)[k] is the block k links after freep. *)

Link(m) == LET l[k \in Nat] == IF k = 0 THEN m.freep ELSE m.ptr[l[k - 1]] IN l

(* How far heap_alloc goes to find room for n units: the first link to a   *)
(* block large enough, if one comes before the list is back at freep.      *)
Fitting(m, n) ==
  {k \in 1 .. Cardinality(DOMAIN m.ptr) :
     /\ m.size[Link(m)[k]] >= n
     /\ \A j \in 1 .. k - 1 : Link(m)[j] # m.freep /\ m.size[Link(m)[j]] < n}

Put(f, c, v) == [d \in DOMAIN f \cup {c} |-> IF d = c THEN v ELSE f[d]]

(* q, which comes after prevp, is taken off the list.                      *)
Unlink(f, prevp, q) ==
  [c \in DOMAIN f \ {q} |-> IF c = prevp THEN f[q] ELSE f[c]]

(* Mutant: what is left of a larger block keeps its old size.             *)
heap_alloc_NoShrink(m, n) ==
  LET k == CHOOSE i \in Fitting(m, n) : TRUE
      prevp == Link(m)[k - 1]
      q == Link(m)[k]
      rest == m.size[q] - n
  IN IF rest = 0
       THEN [at |-> q,
             mem |-> [ptr |-> Unlink(m.ptr, prevp, q), size |-> m.size, freep |-> prevp]]
       ELSE [at |-> q + rest,
             mem |-> [ptr |-> m.ptr, size |-> Put(m.size, q + rest, n), freep |-> prevp]]

(* An exact fit is unlinked; a larger block gives its tail.                *)
heap_alloc(m, n) ==
  LET k == CHOOSE i \in Fitting(m, n) : TRUE
      prevp == Link(m)[k - 1]
      q == Link(m)[k]
      rest == m.size[q] - n
  IN IF rest = 0
       THEN [at |-> q,
             mem |-> [ptr |-> Unlink(m.ptr, prevp, q), size |-> m.size, freep |-> prevp]]
       ELSE [at |-> q + rest,
             mem |-> [ptr |-> m.ptr, size |-> Put(Put(m.size, q, rest), q + rest, n),
                      freep |-> prevp]]

(* The place of b in the list: after q, between two neighbours or at the   *)
(* turn of the circle.  (As long as the list is ordered there is just one, *)
(* and the search from freep ends.)                                        *)
Follows(m, b, q) ==
  \/ q < b /\ b < m.ptr[q]
  \/ q >= m.ptr[q] /\ (b > q \/ b < m.ptr[q])

Place(m, b) == CHOOSE q \in DOMAIN m.ptr : Follows(m, b, q)

(* b is put on the list after q; x eats the block after it on the list.    *)
Enlist(m, q, b) ==
  [ptr |-> Put(Put(m.ptr, b, m.ptr[q]), q, b), size |-> m.size, freep |-> q]

Melt(m, x) ==
  LET y == m.ptr[x] IN
  [ptr   |-> Unlink(m.ptr, x, y),
   size  |-> [c \in DOMAIN m.size \ {y} |-> IF c = x THEN m.size[x] + m.size[y] ELSE m.size[c]],
   freep |-> m.freep]

(* Mutants: freed blocks are never joined; the base header of a page that  *)
(* starts where a block ends is joined to it.                              *)
heap_free_NoMelt(m, b) == Enlist(m, Place(m, b), b)

heap_free_MeltsBase(m, b) ==
  LET q == Place(m, b)
      m1 == Enlist(m, q, b)
      m2 == IF b + m.size[b] = m.ptr[q] THEN Melt(m1, b) ELSE m1
  IN  IF q + m.size[q] = b THEN Melt(m2, q) ELSE m2

(* b eats the block after it, and then the block before it eats b, where   *)
(* they meet; a header of size 0 is eaten by neither.                      *)
heap_free(m, b) ==
  LET q == Place(m, b)
      m1 == Enlist(m, q, b)
      m2 == IF b + m.size[b] = m.ptr[q] /\ m.size[m.ptr[q]] > 0
              THEN Melt(m1, b) ELSE m1
  IN  IF q + m.size[q] = b /\ m.size[b] > 0 THEN Melt(m2, q) ELSE m2

(* Mutant: the block starts one unit in but is as long as the page.        *)
AddPage_TooLong(m, a) ==
  LET m1 == heap_free([m EXCEPT !.size = Put(@, a, 0)], a)
  IN heap_free([m1 EXCEPT !.size = Put(@, a + 1, PageUnits)], a + 1)

(* The header of size 0 goes in first, then the rest of the page.          *)
AddPage(m, a) ==
  LET m1 == heap_free([m EXCEPT !.size = Put(@, a, 0)], a)
  IN heap_free([m1 EXCEPT !.size = Put(@, a + 1, PageUnits - 1)], a + 1)

heap_morecore ==
  \E a \in PageAddrs \ pages :
    /\ mem' = AddPage(mem, a)
    /\ pages' = pages \cup {a}

-----------------------------------------------------------------------------
Init ==
  /\ base \in BaseAddrs
  /\ mem = [ptr |-> [b \in {base} |-> base], size |-> [b \in {base} |-> 0], freep |-> base]
  /\ pages = {} /\ objs = {} /\ black = {}
  /\ want = 0 /\ stage = 0 /\ phase = "run"
  /\ left = {} /\ page = base /\ bp = base /\ p = base
  /\ dead = << >> /\ inuse = 0

(* pic_obj_alloc_unsafe: allocate, else collect, else grow, else panic.    *)

Request(n) ==
  /\ phase = "run"
  /\ want' = n /\ stage' = 0 /\ phase' = "alloc"
  /\ UNCHANGED << base, mem, pages, objs, black, sweepVars >>

Grant ==
  LET r == heap_alloc(mem, want) IN
  /\ phase = "alloc" /\ Fitting(mem, want) # {}
  /\ mem' = r.mem
  /\ objs' = objs \cup {r.at}
  /\ want' = 0 /\ stage' = 0 /\ phase' = "run"
  /\ UNCHANGED << base, pages, black, sweepVars >>

Fails == phase = "alloc" /\ Fitting(mem, want) = {}

(* The end of gc_sweep_phase: is the heap 77% full? *)
Total == PageUnits * Cardinality(pages)
Crowded ==
  /\ phase = "sweep" /\ left = {}
  /\ (Total * 77) \div 100 <= inuse

(* pic_gc, with whatever the mark phase left BLACK.  While gc_enable is    *)
(* false it returns at once, as if there were nothing to sweep.            *)
pic_gc ==
  /\ Fails /\ stage = 0
  /\ stage' = 1
  /\ \/ /\ black' \in SUBSET objs
        /\ left' = pages /\ inuse' = 0 /\ phase' = "sweep"
     \/ UNCHANGED << black, left, inuse, phase >>
  /\ UNCHANGED << base, mem, pages, objs, want, page, bp, p, dead >>

Grow ==
  /\ Fails /\ stage = 1
  /\ heap_morecore
  /\ stage' = 2
  /\ UNCHANGED << base, objs, black, want, phase, sweepVars >>

(* Also where heap_morecore is wanted and malloc has no more.              *)
pic_panic ==
  /\ \/ Fails /\ stage = 2
     \/ Fails /\ stage = 1 /\ pages = PageAddrs
     \/ Crowded /\ pages = PageAddrs
  /\ phase' = "panic"
  /\ UNCHANGED << base, mem, pages, objs, black, want, stage, sweepVars >>

-----------------------------------------------------------------------------
(* gc_sweep_page.  After a free block come objects, up to the next free    *)
(* block or out of the page.                                               *)

(* heap->base and the first header of a page are stepped over: size 0.     *)
After(b) == IF mem.size[b] = 0 THEN b + 1 ELSE b + mem.size[b]

(* Mutant: the loop over the pages does not advance.                       *)
gc_sweep_page_NoNext(a) ==
  /\ phase = "sweep" /\ a \in left
  /\ left' = left /\ page' = a
  /\ bp' = a /\ p' = After(a)
  /\ dead' = << >>
  /\ phase' = "walk"
  /\ UNCHANGED << base, mem, pages, objs, black, want, stage, inuse >>

gc_sweep_page(a) ==
  /\ phase = "sweep" /\ a \in left
  /\ left' = left \ {a} /\ page' = a
  /\ bp' = a /\ p' = After(a)
  /\ dead' = << >>
  /\ phase' = "walk"
  /\ UNCHANGED << base, mem, pages, objs, black, want, stage, inuse >>

(* Mutant: the page is taken to be two units shorter.                      *)
OutOfPage_Short == p < page \/ page + PageUnits - 2 <= p

OutOfPage == p < page \/ page + PageUnits <= p

NextFree ==
  /\ phase = "walk" /\ p = mem.ptr[bp]
  /\ bp' = p /\ p' = After(p)
  /\ UNCHANGED << base, mem, pages, objs, black, want, stage, phase,
                  left, page, dead, inuse >>

(* A BLACK object is whitened and counted, a WHITE one goes on the list,   *)
(* which is threaded through the ptr fields of the objects themselves.     *)
Visit ==
  /\ phase = "walk" /\ p # mem.ptr[bp] /\ ~OutOfPage
  /\ p' = p + mem.size[p]
  /\ IF p \in black
       THEN /\ black' = black \ {p} /\ inuse' = inuse + mem.size[p]
            /\ UNCHANGED dead
       ELSE /\ dead' = Append(dead, p) /\ UNCHANGED << black, inuse >>
  /\ UNCHANGED << base, mem, pages, objs, want, stage, phase, left, page, bp >>

Escape ==
  /\ phase = "walk" /\ p # mem.ptr[bp] /\ OutOfPage
  /\ phase' = "free"
  /\ UNCHANGED << base, mem, pages, objs, black, want, stage, sweepVars >>

FreeDead ==
  /\ phase = "free" /\ dead # << >>
  /\ mem' = heap_free(mem, Head(dead))
  /\ objs' = objs \ {Head(dead)}
  /\ dead' = Tail(dead)
  /\ UNCHANGED << base, pages, black, want, stage, phase,
                  left, page, bp, p, inuse >>

Swept ==
  /\ phase = "free" /\ dead = << >>
  /\ phase' = "sweep" /\ page' = base /\ bp' = base /\ p' = base
  /\ UNCHANGED << base, mem, pages, objs, black, want, stage,
                  left, dead, inuse >>

EndSweep ==
  /\ phase = "sweep" /\ left = {}
  /\ IF Crowded THEN heap_morecore ELSE UNCHANGED << mem, pages >>
  /\ phase' = "alloc" /\ inuse' = 0
  /\ UNCHANGED << base, objs, black, want, stage, left, page, bp, p, dead >>

-----------------------------------------------------------------------------
Sweep ==
  \/ \E a \in PageAddrs : gc_sweep_page(a)
  \/ NextFree \/ Visit \/ Escape \/ FreeDead \/ Swept \/ EndSweep

Next ==
  \/ \E n \in Sizes : Request(n)
  \/ Grant \/ pic_gc \/ Grow \/ pic_panic
  \/ Sweep

Spec == Init /\ [][Next]_vars /\ WF_vars(Sweep \/ pic_panic)

-----------------------------------------------------------------------------
Sweeping == phase \in {"sweep", "walk", "free"}

FreeBlocks == DOMAIN mem.ptr
Units(a) == Extent(a + 1, PageUnits - 1)

(* The list is one circle through heap->base and the first header of every *)
(* page, and its addresses go up except at one place (204-215 of gc.c      *)
(* search for that order).                                                 *)
ListOrdered ==
  /\ pages \cup {base} \subseteq FreeBlocks
  /\ {Link(mem)[k] : k \in 1 .. Cardinality(FreeBlocks)} = FreeBlocks
  /\ Cardinality({b \in FreeBlocks : mem.ptr[b] <= b}) = 1

(* Every unit of a page but the first is in exactly one free block or one  *)
(* object: nothing is lost, and nothing is handed out twice.               *)
Tiled ==
  LET blocks == objs \cup {b \in FreeBlocks : mem.size[b] > 0} IN
  /\ objs \cap FreeBlocks = {}
  /\ \A a \in pages :
       Units(a) = UNION {Extent(b, mem.size[b]) : b \in blocks \cap Units(a)}
  /\ \A b, c \in blocks :
       b < c => b + mem.size[b] <= c
  /\ \A b \in blocks : \E a \in pages : Extent(b, mem.size[b]) \subseteq Units(a)

(* When a sweep is over it has met every object exactly once: no mark is   *)
(* left, and what it found alive is what there is (the walk of             *)
(* gc_sweep_page through free blocks of this and of neighbouring pages).   *)
SweepMeetsAll ==
  phase = "sweep" /\ left = {} =>
    /\ black = {}
    /\ inuse = MapThenSumSet(LAMBDA o : mem.size[o], objs)

(* Memory is only said to be short when no run of free units in any page   *)
(* is long enough: next-fit looks everywhere, and free neighbours never    *)
(* stay apart (178-186 and 218-229).                                       *)
Run(n) ==
  \E a \in pages : \E u \in Units(a) :
    /\ Extent(u, n) \subseteq Units(a)
    /\ \A o \in objs : Extent(u, n) \cap Extent(o, mem.size[o]) = {}

FailsOnlyWhenFull == Fails => ~Run(want)

(* The walk and the freeing end. *)
SweepEnds == Sweeping ~> phase \in {"alloc", "panic"}

(* The heap is a block store: units outside the first of each page, blocks *)
(* that never overlap, one handed out or taken back in a step.             *)
Store == INSTANCE BlockStore
  WITH paged  <- UNION {Units(a) : a \in pages},
       blocks <- {[at |-> o, len |-> mem.size[o]] : o \in objs}

ImplementsStore == Store!Spec
=============================================================================
