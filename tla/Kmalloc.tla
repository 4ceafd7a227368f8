------------------------------ MODULE Kmalloc ------------------------------
(***************************************************************************)
(* The kernel heap, vm/kmalloc.c, on the pages of arch/mips/vm/ram.c and   *)
(* dumbvm.c.  Blocks of a few sizes come from pages cut into blocks of one *)
(* size, larger ones are whole pages.                                      *)
(*                                                                         *)
(* What kmalloc_spinlock guards is one step; subpage_kmalloc lets it go to *)
(* get a page.  The free list of a page runs through the first words of    *)
(* its free blocks, which are memory like any other, so word models that   *)
(* memory: a thread writes all over the blocks it has got.                 *)
(***************************************************************************)
EXTENDS Integers, Sequences, FiniteSets, SequencesExt

CONSTANTS
  Thread,
  NPages,     \* pages of RAM
  PAGE_SIZE,
  sizes,      \* the block sizes, ascending
  LARGEST,    \* LARGEST_SUBPAGE_SIZE
  NPAGEREFS,
  Requests,   \* the sizes asked for
  MaxHeld,    \* bound on the blocks a thread holds
  NULL

VARIABLES
  firstpaddr, \* the first page not handed out
  word,       \* word[p][o]: the word at offset o of page p
  pr,         \* pr[i]: the pageref [page, type, off, nfree], or NULL
  sizebases, allbase,  \* the two kinds of list of pagerefs
  heap,       \* heap[t]: [pc, sz, page]
  held        \* held[t]: the blocks [page, off, len] that t has

heapvars == <<firstpaddr, word, pr, sizebases, allbase, heap, held>>

Ready == [pc |-> "idle", sz |-> 0, page |-> 0]
Offset == 0..(PAGE_SIZE - 1)

HeapInit ==
  /\ firstpaddr = 0 /\ word = [p \in 0..(NPages - 1) |-> [o \in Offset |-> "data"]]
  /\ pr = [i \in 1..NPAGEREFS |-> NULL] /\ sizebases = [b \in 1..Len(sizes) |-> <<>>]
  /\ allbase = <<>> /\ heap = [t \in Thread |-> Ready] /\ held = [t \in Thread |-> {}]

blocktype(sz) == CHOOSE b \in 1..Len(sizes) :
                   sz <= sizes[b] /\ \A c \in 1..(b - 1) : sz > sizes[c]
PerPage(b) == PAGE_SIZE \div sizes[b]

(* ram_stealmem *)
getppages(n) == IF firstpaddr + n > NPages THEN NULL ELSE firstpaddr

(* The caller's memory, with len words from an offset set to a value. *)
Fill(w, p, off, len, v) == [w EXCEPT ![p] = [o \in Offset |-> IF o >= off /\ o < off + len THEN v ELSE @[o]]]

(* doalloc: the block at the head of the list of page i, in memory w. *)
doalloc(t, i, r, w) ==
  LET b == [page |-> r[i].page, off |-> r[i].off, len |-> sizes[r[i].type]]
  IN /\ pr' = [r EXCEPT ![i].nfree = @ - 1, ![i].off = w[b.page][b.off]]
     /\ word' = Fill(w, b.page, b.off, b.len, "data")
     /\ held' = [held EXCEPT ![t] = @ \cup {b}]
     /\ heap' = [heap EXCEPT ![t] = Ready]

-----------------------------------------------------------------------------
(* kmalloc of whole pages; their use is the caller's. *)
kmalloc_pages(t, sz) ==
  /\ heap[t].pc = "idle" /\ Cardinality(held[t]) < MaxHeld /\ sz >= LARGEST
  /\ LET n == (sz + PAGE_SIZE - 1) \div PAGE_SIZE
         p == getppages(n)
     IN IF p = NULL THEN UNCHANGED <<firstpaddr, held>>
        ELSE /\ firstpaddr' = firstpaddr + n
             /\ held' = [held EXCEPT ![t] = @ \cup {[page |-> p, off |-> 0, len |-> n * PAGE_SIZE]}]
  /\ UNCHANGED <<word, pr, sizebases, allbase, heap>>

subpage_kmalloc(t, sz) ==
  /\ heap[t].pc = "idle" /\ Cardinality(held[t]) < MaxHeld /\ sz < LARGEST
  /\ LET fits == SelectSeq(sizebases[blocktype(sz)], LAMBDA i : pr[i].nfree > 0)
     IN IF fits = <<>>
        THEN /\ heap' = [heap EXCEPT ![t] = [pc |-> "page", sz |-> sz, page |-> 0]]
             /\ UNCHANGED <<word, pr, held>>
        ELSE doalloc(t, Head(fits), pr, word)
  /\ UNCHANGED <<firstpaddr, sizebases, allbase>>

(* kmalloc_spinlock is not held. *)
alloc_kpages(t) ==
  /\ heap[t].pc = "page"
  /\ LET p == getppages(1)
     IN IF p = NULL THEN heap' = [heap EXCEPT ![t] = Ready] /\ UNCHANGED firstpaddr
        ELSE /\ heap' = [heap EXCEPT ![t].pc = "cut", ![t].page = p]
             /\ firstpaddr' = firstpaddr + 1
  /\ UNCHANGED <<word, pr, sizebases, allbase, held>>

(* The free list of a new page, from its last block to its first. *)
Cut(w, p, b) == [w EXCEPT ![p] = [o \in Offset |->
                   IF o % sizes[b] # 0 THEN @[o] ELSE IF o = 0 THEN NULL ELSE o - sizes[b]]]

allocpageref == {i \in 1..NPAGEREFS : pr[i] = NULL}

(* The page gets a pageref and goes to the front of both lists; without a  *)
(* pageref it is given up (free_kpages does nothing).                      *)
subpage_newpage(t) ==
  /\ heap[t].pc = "cut"
  /\ LET b == blocktype(heap[t].sz)
         p == heap[t].page
     IN IF allocpageref = {}
        THEN heap' = [heap EXCEPT ![t] = Ready] /\ UNCHANGED <<word, pr, sizebases, allbase, held>>
        ELSE LET i == CHOOSE i \in allocpageref : \A j \in allocpageref : i <= j
             IN /\ doalloc(t, i, [pr EXCEPT ![i] = [page |-> p, type |-> b, nfree |-> PerPage(b),
                                                    off |-> (PerPage(b) - 1) * sizes[b]]],
                           Cut(word, p, b))
                /\ sizebases' = [sizebases EXCEPT ![b] = <<i>> \o @]
                /\ allbase' = <<i>> \o allbase
  /\ UNCHANGED firstpaddr

(* Faulty variant: a page that goes is left on the list of all pages. *)
remove_lists_one(i) ==
  /\ sizebases' = [sizebases EXCEPT ![pr[i].type] = Remove(@, i)]
  /\ allbase' = allbase

remove_lists(i) ==
  /\ sizebases' = [sizebases EXCEPT ![pr[i].type] = Remove(@, i)]
  /\ allbase' = Remove(allbase, i)

(* kfree: the first page on allbase that has the address tells the size of *)
(* the block; no page: whole pages, which are given up.  So is a page with *)
(* no block in use, after which what is on it is of no account.            *)
kfree(t, b) ==
  /\ heap[t].pc = "idle" /\ b \in held[t]
  /\ held' = [held EXCEPT ![t] = @ \ {b}]
  /\ LET on == SelectSeq(allbase, LAMBDA i : pr[i].page = b.page)
     IN IF on = <<>> THEN UNCHANGED <<word, pr, sizebases, allbase>>
        ELSE LET i == Head(on)
                 sz == sizes[pr[i].type]
             IN IF pr[i].nfree + 1 = PerPage(pr[i].type)
                THEN /\ remove_lists(i) /\ pr' = [pr EXCEPT ![i] = NULL]
                     /\ word' = Fill(word, b.page, 0, PAGE_SIZE, "data")
                ELSE /\ pr' = [pr EXCEPT ![i].nfree = @ + 1, ![i].off = b.off]
                     /\ word' = [Fill(word, b.page, b.off, sz, "data") EXCEPT ![b.page][b.off] = pr[i].off]
                     /\ UNCHANGED <<sizebases, allbase>>
  /\ UNCHANGED <<firstpaddr, heap>>

HeapStep(t) ==
  \/ \E sz \in Requests : kmalloc_pages(t, sz) \/ subpage_kmalloc(t, sz)
  \/ alloc_kpages(t) \/ subpage_newpage(t)
  \/ \E b \in held[t] : kfree(t, b)

HeapNext == \E t \in Thread : HeapStep(t)

-----------------------------------------------------------------------------
(* The free list of page i, as checksubpage walks it. *)
checksubpage(i) ==
  LET at[n \in 1..pr[i].nfree] == IF n = 1 THEN pr[i].off ELSE word[pr[i].page][at[n - 1]]
  IN at

(* What a block covers, and the offsets in use on the page of i. *)
Addresses(b) == {b.page * PAGE_SIZE + b.off + k : k \in 0..(b.len - 1)}
Used(i) == {b.off : b \in {c \in UNION {held[t] : t \in Thread} : c.page = pr[i].page}}

(* The heap is sound after any interleaving of kmalloc and kfree: no two   *)
(* blocks that threads have overlap, and they lie on pages handed out; the *)
(* pagerefs in use are on allbase and on the list of their size, once;     *)
(* the free list of a page has exactly nfree blocks, none of which anybody *)
(* has, and with those in use they fill the page (checksubpages, and what  *)
(* it does not check).                                                     *)
HeapIsSound ==
  /\ \A t \in Thread, u \in Thread : \A b \in held[t], c \in held[u] :
       (b = c /\ t = u) \/ Addresses(b) \cap Addresses(c) = {}
  /\ \A t \in Thread : \A b \in held[t] : \A a \in Addresses(b) : a < firstpaddr * PAGE_SIZE
  /\ IsInjective(allbase) /\ ToSet(allbase) = {i \in 1..NPAGEREFS : pr[i] # NULL}
  /\ \A b \in 1..Len(sizes) :
       sizebases[b] = SelectSeq(allbase, LAMBDA i : pr[i].type = b)
  /\ \A i \in ToSet(allbase) :
       LET fl == checksubpage(i)
           free == ToSet(fl)
       IN /\ Cardinality(free) = pr[i].nfree /\ free \cap Used(i) = {}
          /\ free \cup Used(i) = {k * sizes[pr[i].type] : k \in 0..(PerPage(pr[i].type) - 1)}
          /\ (IF fl = <<>> THEN pr[i].off ELSE word[pr[i].page][Last(fl)]) = NULL
=============================================================================
