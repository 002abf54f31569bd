------------------------------ MODULE MemAlloc ------------------------------
(***************************************************************************)
(* MemoryAllocator (src/vortex/sw/common/mem_alloc.h): pages in address    *)
(* order, each cut into used and free blocks.  A page keeps its free       *)
(* blocks on two lists, by decreasing size to allocate from (best fit) and *)
(* by address to merge neighbours.  A heap is a value, [base, capacity,    *)
(* pages, allocated]; an operation returns the new heap.  The list of used *)
(* blocks is only searched by address and is a set here.                   *)
(***************************************************************************)
EXTENDS Integers, SequencesExt

CONSTANTS PageAlign, BlockAlign   \* RAM_PAGE_SIZE and CACHE_BLOCK_SIZE

Block(addr, size) == [addr |-> addr, size |-> size]
End(b) == b.addr + b.size
alignSize(size, alignment) == ((size + alignment - 1) \div alignment) * alignment

\* before the first element the walk stops at, or at the end
InsertBefore(list, x, Stop(_)) ==
  LET k == SelectInSeq(list, Stop) IN InsertAt(list, IF k = 0 THEN Len(list) + 1 ELSE k, x)
insertFreeSList(list, b) == InsertBefore(list, b, LAMBDA c : c.size <= b.size)
insertFreeMList(list, b) == InsertBefore(list, b, LAMBDA c : c.addr >= b.addr)

----------------------------------------------------------------------------
(* A page. *)
page_t(addr, size) ==
  [addr |-> addr, size |-> size, used |-> {},
   freeS |-> <<Block(addr, size)>>, freeM |-> <<Block(addr, size)>>]

\* the smallest block that fits, the last of them on the list; 0 if there is none
findFreeBlock(p, size) ==
  LET small == SelectInSeq(p.freeS, LAMBDA b : b.size < size)
  IN  IF small = 0 THEN Len(p.freeS) ELSE small - 1

page_allocate(p, size, b) ==
  LET extra == b.size - size
      rest == Block(b.addr + size, extra)
      M == Remove(p.freeM, b)
      S == Remove(p.freeS, b)
  IN  IF extra >= BlockAlign
      THEN [p EXCEPT !.used = @ \union {Block(b.addr, size)},
                     !.freeM = insertFreeMList(M, rest), !.freeS = insertFreeSList(S, rest)]
      ELSE [p EXCEPT !.used = @ \union {b}, !.freeM = M, !.freeS = S]

\* mutant: the left neighbour grows but keeps its place among the sizes
page_releaseBug(p, b) ==
  LET near == {c \in Range(p.freeM) : End(c) = b.addr \/ c.addr = End(b)}
      first == CHOOSE c \in near \union {b} : \A d \in near \union {b} : c.addr <= d.addr
      whole == Block(first.addr, FoldSet(LAMBDA c, n : n + c.size, b.size, near))
      keep(list) == SelectSeq(list, LAMBDA c : c \notin near)
      k == SelectInSeq(p.freeS, LAMBDA c : c = first)
  IN  [p EXCEPT !.used = @ \ {b},
                !.freeM = insertFreeMList(keep(p.freeM), whole),
                !.freeS = IF k = 0 THEN insertFreeSList(keep(p.freeS), whole)
                          ELSE SelectSeq(ReplaceAt(p.freeS, k, whole), LAMBDA c : c \notin near)]

\* the freed block joins the free blocks that end or begin where it begins or ends
page_release(p, b) ==
  LET near == {c \in Range(p.freeM) : End(c) = b.addr \/ c.addr = End(b)}
      first == CHOOSE c \in near \union {b} : \A d \in near \union {b} : c.addr <= d.addr
      whole == Block(first.addr, FoldSet(LAMBDA c, n : n + c.size, b.size, near))
      keep(list) == SelectSeq(list, LAMBDA c : c \notin near)
  IN  [p EXCEPT !.used = @ \ {b},
                !.freeM = insertFreeMList(keep(p.freeM), whole),
                !.freeS = insertFreeSList(keep(p.freeS), whole)]

----------------------------------------------------------------------------
(* The allocator. *)
MemoryAllocator(base, capacity) ==
  [base |-> base, capacity |-> capacity, pages |-> <<>>, allocated |-> 0]

\* InsertBefore in address order
createPage(h, p) == InsertBefore(h.pages, p, LAMBDA q : q.addr > p.addr)

\* the end of the page before the k-th, from which a new page may start
Gap(h, k) == IF k = 1 THEN h.base ELSE End(h.pages[k - 1])

\* mutant: the gaps that deleted pages left are not looked at
findNextAddressBug(h, size) ==
  LET n == Len(h.pages)
  IN  CASE n = 0 -> h.base
        [] n > 0 /\ Gap(h, n + 1) + size <= h.base + h.capacity -> Gap(h, n + 1)
        [] OTHER -> -1

\* the first gap that is large enough, then the room after the last page; the first page is
\* placed without a look at the capacity.  -1: none
findNextAddress(h, size) ==
  LET n == Len(h.pages)
      gaps == {k \in 1..n : Gap(h, k) + size <= h.pages[k].addr}
  IN  CASE n = 0 -> h.base
        [] gaps # {} -> Gap(h, CHOOSE k \in gaps : \A j \in gaps : k <= j)
        [] gaps = {} /\ Gap(h, n + 1) + size <= h.base + h.capacity -> Gap(h, n + 1)
        [] OTHER -> -1

\* mutant: a page that begins inside the range is missed
hasPageOverlapBug(h, start, size) ==
  \E k \in DOMAIN h.pages : start < End(h.pages[k]) /\ start >= h.pages[k].addr

hasPageOverlap(h, start, size) ==
  \E k \in DOMAIN h.pages : start < End(h.pages[k]) /\ start + size > h.pages[k].addr

\* use part of the free block i of page k of pages
Take(h, pages, k, i, size) ==
  [h EXCEPT !.pages = ReplaceAt(pages, k, page_allocate(pages[k], size, pages[k].freeS[i])),
            !.allocated = @ + size]

\* [heap, addr], addr = -1 when out of memory
allocate(h, sz) ==
  LET size == alignSize(sz, BlockAlign)
      k == SelectInSeq(h.pages, LAMBDA p : findFreeBlock(p, size) > 0)
      i == findFreeBlock(h.pages[k], size)
      at == findNextAddress(h, alignSize(size, PageAlign))
      fresh == page_t(at, alignSize(size, PageAlign))
      pages == createPage(h, fresh)
      new == SelectInSeq(pages, LAMBDA p : p = fresh)
  IN  CASE k > 0 -> [heap |-> Take(h, h.pages, k, i, size), addr |-> h.pages[k].freeS[i].addr]
        [] k = 0 /\ at >= 0 -> [heap |-> Take(h, pages, new, 1, size), addr |-> at]
        [] OTHER -> [heap |-> h, addr |-> -1]

\* a page of its own at a given address
reserve(h, addr, sz) ==
  LET size == alignSize(sz, PageAlign)
      pages == createPage(h, page_t(addr, size))
      new == SelectInSeq(pages, LAMBDA p : p.addr = addr)
  IN  IF addr + size > h.base + h.capacity \/ hasPageOverlap(h, addr, size)
      THEN [heap |-> h, addr |-> -1]
      ELSE [heap |-> Take(h, pages, new, 1, size), addr |-> addr]

\* the block b of page k; an empty page is deleted
releaseFrom(h, k, b) ==
  LET p == page_release(h.pages[k], b)
  IN  [h EXCEPT !.pages = IF p.used = {} THEN RemoveAt(@, k) ELSE ReplaceAt(@, k, p),
                !.allocated = @ - b.size]

release(h, addr) ==
  LET found == {kb \in UNION {{k} \X h.pages[k].used : k \in DOMAIN h.pages} : kb[2].addr = addr}
  IN  IF found = {} THEN h
      ELSE CHOOSE g \in {releaseFrom(h, kb[1], kb[2]) : kb \in found} : TRUE
=============================================================================
