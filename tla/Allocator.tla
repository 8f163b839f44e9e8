------------------------------ MODULE Allocator ------------------------------
(***************************************************************************)
(* The allocator of stdlib/alloc.rs: one anonymous mapping per block, a     *)
(* record at its start that links it into the list of active allocations,  *)
(* and a copy of the header in front of the payload.                       *)
(*                                                                         *)
(* The list is changed and searched under a spin lock: each of these       *)
(* sections is one action. System calls, the reading of the header in      *)
(* front of the payload, the zeroing of a calloc and the copying of a      *)
(* realloc are done without it, each as a step of its own.                 *)
(*                                                                         *)
(* The code discards the result of munmap: a mapping that the kernel does  *)
(* not take back stays, with its record out of the list and nobody to ask  *)
(* for it again. The ghost `refused' holds these mappings.                 *)
(*                                                                         *)
(* Clients obey the contract of the functions: a block is given back once, *)
(* by the thread that owns it, and while nobody else passes its address.   *)
(* They may write over the header in front of their blocks.                *)
(***************************************************************************)
EXTENDS AllocSizes, Sequences, FiniteSets, Functions, TLC

CONSTANTS
  HeapThreads,
  Bases,         \* where the kernel may place a mapping: multiples of a page
  Requests,      \* sizes the clients ask for
  Alignments,    \* alignments the clients ask for
  Unknown        \* an address that is no block's

\* The kernel places mappings on page boundaries and never at zero; what clients
\* pass is a usize.
ASSUME HeapAssumption ==
  /\ Bases \subseteq {b \in Word \ {0} : is_page_aligned(b)}
  /\ Requests \subseteq Word /\ Alignments \subseteq Word

VARIABLES
  mappings,      \* the kernel's: [base, len] of every mapping
  active,        \* the list at ACTIVE_ALLOCATIONS_HEAD, newest first
  memory,        \* by payload address: the header in front and the contents
  heap_pc, heap_call,      \* where each thread is, and the call it is in
  granted,       \* ghost: what the clients were given and have not given back
  refused        \* ghost: the mappings the kernel refused to take back

heap_vars == <<mappings, active, memory, heap_pc, heap_call, granted, refused>>

Null == 0
NoHeapCall == [op |-> "none", ptr |-> Null, size |-> 0, alignment |-> 0,
           header |-> None, new |-> Null]

-----------------------------------------------------------------------------
(* Addresses and contents *)

\* Contents: the first `upto' bytes are what was written last by `stamp'.
Contents(stamp, upto) == [stamp |-> stamp, upto |-> upto]

\* mmap gives zeroed pages, to the end of the mapping.
Fresh(size) == Contents("zero", size)

Minimum(a, b) == IF a < b THEN a ELSE b

Extend(f, x, v) == [y \in DOMAIN f \cup {x} |-> IF y = x THEN v ELSE f[y]]
Without(f, x) == Restrict(f, DOMAIN f \ {x})

Overlap(a, alen, b, blen) == a < b + blen /\ b < a + alen

IsFree(base, len) ==
  /\ base + len <= WordSize
  /\ \A m \in mappings : ~Overlap(base, len, m.base, m.len)

\* Somebody is inside a call on this pointer.
Passed(p) == \E t \in HeapThreads : heap_pc[t] # "idle" /\ p \in
               {heap_call[t].ptr, heap_call[t].new}

OwnedBy(t) == {p \in DOMAIN granted : granted[p].owner = t}

-----------------------------------------------------------------------------
(* Ends of a call *)

HeapReturn(t) ==
  /\ heap_pc' = [heap_pc EXCEPT ![t] = "idle"]
  /\ heap_call' = [heap_call EXCEPT ![t] = NoHeapCall]

\* A call that fails returns null and sets errno; posix_memalign returns the
\* error instead. The code is of no consequence for the heap.
HeapFail(t, error) == error \in {"EINVAL", "ENOMEM"} /\ HeapReturn(t)

HeapGoto(t, label) == heap_pc' = [heap_pc EXCEPT ![t] = label]

-----------------------------------------------------------------------------
(* Plausible slips. *)

\* The search for the predecessor is left out: the head of the list is unlinked.
MutRemoveRecord_Head(p) == active' = Tail(active)

\* The record is unlinked and the mapping stays.
MutUnmap_Never(t) == HeapReturn(t) /\ UNCHANGED <<mappings, memory, refused>>

-----------------------------------------------------------------------------
(* allocate_with_alignment *)

\* Everything up to the system call: the checks and the length.
Allocate(t, c) ==
  LET alignment == effective_allocation_alignment(c.alignment)
      len == mapping_len_for(c.size, alignment)
  IN IF \/ request_too_large(c.size)
        \/ ~has_allocator_alignment_shape(c.alignment)
        \/ len = None
        \/ c_long_from_usize(len) = None
     THEN HeapFail(t, "ENOMEM")
     ELSE /\ HeapGoto(t, "mmap")
          /\ heap_call' = [heap_call EXCEPT ![t] = c]

\* The kernel has no room.
MmapFails(t) ==
  /\ heap_pc[t] = "mmap"
  /\ HeapFail(t, "ENOMEM")
  /\ UNCHANGED <<mappings, active, memory, granted, refused>>

\* The kernel maps; the code places the payload and writes record and header,
\* or asks the kernel to take the mapping back, which it may refuse.
Mmap(t) ==
  LET alignment == effective_allocation_alignment(heap_call[t].alignment)
      len == mapping_len_for(heap_call[t].size, alignment)
  IN /\ heap_pc[t] = "mmap"
     /\ \E base \in {b \in Bases : IsFree(b, len)} :
          LET mapping == [base |-> base, len |-> len]
              payload == payload_addr_in(base, len, heap_call[t].size, alignment)
              header == build_allocation_header(payload, base, len, heap_call[t].size, alignment)
          IN IF payload = None
             THEN /\ HeapFail(t, "ENOMEM")
                  /\ \/ UNCHANGED <<mappings, refused>>
                     \/ /\ mappings' = mappings \cup {mapping}
                        /\ refused' = refused \cup {mapping}
                  /\ UNCHANGED memory
             ELSE /\ mappings' = mappings \cup {mapping}
                  /\ memory' = Extend(memory, payload,
                                 [header |-> header, data |-> Fresh(heap_call[t].size)])
                  /\ heap_call' = [heap_call EXCEPT ![t].new = payload]
                  /\ HeapGoto(t, "register")
                  /\ UNCHANGED refused
     /\ UNCHANGED <<active, granted>>

\* The call returns the block it made: it is the client's.
Grant(t, data) ==
  LET c == heap_call[t]
  IN /\ granted' = Extend(granted, c.new,
                     [owner |-> t, size |-> c.size, alignment |-> c.alignment, data |-> data])
     /\ HeapReturn(t)

\* register_allocation, under the lock. calloc and realloc have the contents
\* still to write, the others return the pointer.
Register(t) ==
  LET c == heap_call[t]
  IN /\ heap_pc[t] = "register"
     /\ active' = <<memory[c.new].header>> \o active
     /\ \/ c.op = "plain" /\ Grant(t, memory[c.new].data)
        \/ /\ c.op \in {"calloc", "realloc"}
           /\ HeapGoto(t, "fill")
           /\ UNCHANGED <<heap_call, granted>>
     /\ UNCHANGED <<mappings, memory, refused>>

\* calloc zeroes what it asked for. realloc copies what the record found at the
\* start says of the old size, and goes on to free the old block.
Fill(t) ==
  LET c == heap_call[t]
      copied == Minimum(c.header.requested_size, c.size)
      data == IF c.op = "calloc" THEN Contents("zero", c.size)
              ELSE Contents(memory[c.ptr].data.stamp, Minimum(copied, memory[c.ptr].data.upto))
  IN /\ heap_pc[t] = "fill"
     /\ memory' = [memory EXCEPT ![c.new].data = data]
     /\ \/ c.op = "calloc" /\ Grant(t, data)
        \/ /\ c.op = "realloc"
           /\ heap_call' = [heap_call EXCEPT ![t].op = "release", ![t].header = None]
           /\ HeapGoto(t, "lookup")
           /\ UNCHANGED granted
     /\ UNCHANGED <<mappings, active, refused>>

-----------------------------------------------------------------------------
(* Entry points that allocate *)

Request(op, size, alignment) ==
  [NoHeapCall EXCEPT !.op = op, !.size = size, !.alignment = alignment]

malloc_impl(t, size) == Allocate(t, Request("plain", size, MALLOC_ALIGNMENT))

calloc_impl(t, nmemb, size) ==
  LET total == checked_calloc_size(nmemb, size)
  IN IF total = None
     THEN HeapFail(t, "ENOMEM")
     ELSE Allocate(t, Request("calloc", total, MALLOC_ALIGNMENT))

aligned_alloc_impl(t, alignment, size) ==
  IF ~has_glibc_alignment_shape(alignment)
  THEN HeapFail(t, "EINVAL")
  ELSE Allocate(t, Request("plain", size, alignment))

memalign_impl(t, alignment, size) ==
  IF ~has_glibc_alignment_shape(alignment)
  THEN HeapFail(t, "EINVAL")
  ELSE Allocate(t, Request("plain", size, alignment))

posix_memalign_impl(t, alignment, size) ==
  IF ~has_valid_alignment_shape(alignment)
  THEN HeapFail(t, "EINVAL")
  ELSE Allocate(t, Request("plain", size, alignment))

valloc_impl(t, size) == Allocate(t, Request("plain", size, PAGE_SIZE))

pvalloc_impl(t, size) ==
  LET rounded == IF size = 0 THEN PAGE_SIZE ELSE align_up(size, PAGE_SIZE)
  IN IF rounded = None THEN HeapFail(t, "ENOMEM") ELSE valloc_impl(t, rounded)

-----------------------------------------------------------------------------
(* Validation, release and resizing of a block *)

\* The calls that begin with validate_live_allocation on a pointer.
BeginValidated(t, c) ==
  /\ HeapGoto(t, "lookup")
  /\ heap_call' = [heap_call EXCEPT ![t] = c]


free_impl(t, p) == IF p = Null THEN HeapReturn(t)
                   ELSE BeginValidated(t, [NoHeapCall EXCEPT !.op = "free", !.ptr = p])

malloc_usable_size_impl(t, p) ==
  IF p = Null THEN HeapReturn(t)
  ELSE BeginValidated(t, [NoHeapCall EXCEPT !.op = "usable_size", !.ptr = p])

realloc_impl(t, p, size) ==
  CASE p = Null -> malloc_impl(t, size)
    [] p # Null /\ size = 0 -> free_impl(t, p)
    [] p # Null /\ size # 0 /\ request_too_large(size) -> HeapFail(t, "ENOMEM")
    [] OTHER -> BeginValidated(t, [NoHeapCall EXCEPT !.op = "realloc", !.ptr = p, !.size = size])

reallocarray_impl(t, p, nmemb, size) ==
  LET total == checked_calloc_size(nmemb, size)
  IN IF total = None THEN HeapFail(t, "ENOMEM") ELSE realloc_impl(t, p, total)

\* Where the list has records of a payload address: at most one, of which the
\* walk from the head finds the first.
Records(p) == {i \in DOMAIN active : active[i].payload_addr = p}
FirstRecord(p) == CHOOSE i \in Records(p) : \A j \in Records(p) : i <= j

\* lookup_allocation_header, under the lock. A pointer that is in no record is
\* refused here: free and realloc do nothing, malloc_usable_size returns 0.
LookupRecord(t) ==
  /\ heap_pc[t] = "lookup"
  /\ IF Records(heap_call[t].ptr) = {}
     THEN HeapReturn(t)
     ELSE /\ heap_call' = [heap_call EXCEPT ![t].header = active[FirstRecord(heap_call[t].ptr)]]
          /\ HeapGoto(t, "read")
  /\ UNCHANGED <<mappings, active, memory, granted, refused>>

\* validate_live_allocation after the lookup: the header in memory is sound
\* and the same as the record's.
Valid(t) ==
  LET header == memory[heap_call[t].ptr].header
  IN validate_header_for_payload(header, heap_call[t].ptr) /\ header = heap_call[t].header

\* read_payload_header, without the lock, and what each call does with it.
ReadHeader(t) ==
  LET c == heap_call[t]
  IN /\ heap_pc[t] = "read"
     /\ CASE ~Valid(t) \/ c.op = "usable_size" -> HeapReturn(t)
          [] Valid(t) /\ c.op = "realloc" ->
               Allocate(t, [c EXCEPT !.alignment = c.header.alignment])
          [] OTHER -> HeapGoto(t, "unregister") /\ UNCHANGED heap_call
     /\ UNCHANGED <<mappings, active, memory, granted, refused>>

RemoveRecord(p) ==
  active' = SubSeq(active, 1, FirstRecord(p) - 1) \o SubSeq(active, FirstRecord(p) + 1, Len(active))

\* unregister_allocation, under the lock. From here a resized block is the new
\* one: a client has given the old one up.
Unregister(t) ==
  LET c == heap_call[t]
  IN /\ heap_pc[t] = "unregister"
     /\ IF Records(c.ptr) = {}
        THEN HeapReturn(t) /\ UNCHANGED <<active, granted>>
        ELSE /\ RemoveRecord(c.ptr)
             /\ HeapGoto(t, "munmap")
             /\ granted' = IF c.op = "free" THEN granted
                           ELSE LET g == granted[c.ptr] IN
                                Extend(Without(granted, c.ptr), c.new,
                                  [g EXCEPT !.size = c.size,
                                     !.data = Contents(g.data.stamp,
                                                Minimum(g.data.upto, c.size))])
             /\ UNCHANGED heap_call
     /\ UNCHANGED <<mappings, memory, refused>>

\* munmap_allocation. The call is not made for an argument out of range, and its
\* result is discarded: either way the mapping stays, and free returns.
Unmap(t) ==
  LET h == heap_call[t].header
      mapping == [base |-> h.mapping_base, len |-> h.mapping_len]
  IN /\ \/ /\ None \notin {c_long_from_usize(mapping.base), c_long_from_usize(mapping.len)}
           /\ mappings' = {m \in mappings : m.base # mapping.base}
           /\ memory' = Without(memory, heap_call[t].ptr)
           /\ UNCHANGED refused
        \/ refused' = refused \cup {mapping} /\ UNCHANGED <<mappings, memory>>
     /\ HeapReturn(t)

Munmap(t) ==
  /\ heap_pc[t] = "munmap"
  /\ Unmap(t)
  /\ UNCHANGED <<active, granted>>

-----------------------------------------------------------------------------
(* The clients *)

HeapIdle(t) == heap_pc[t] = "idle"

AllocateCall(t) ==
  /\ HeapIdle(t)
  /\ \E size \in Requests :
       \/ malloc_impl(t, size)
       \/ \E nmemb \in {1, 7} : calloc_impl(t, nmemb, size)
       \/ valloc_impl(t, size)
       \/ pvalloc_impl(t, size)
       \/ \E alignment \in Alignments : \/ aligned_alloc_impl(t, alignment, size)
                                        \/ memalign_impl(t, alignment, size)
                                        \/ posix_memalign_impl(t, alignment, size)
  /\ UNCHANGED <<mappings, active, memory, granted, refused>>

\* free and realloc(p, 0): the client gives the block up as it calls.
ReleaseCall(t) ==
  /\ HeapIdle(t)
  /\ \E p \in OwnedBy(t) :
       /\ ~Passed(p)
       /\ free_impl(t, p) \/ realloc_impl(t, p, 0)
       /\ granted' = Without(granted, p)
  /\ UNCHANGED <<mappings, active, memory, refused>>

ResizeCall(t) ==
  /\ HeapIdle(t)
  /\ \E p \in OwnedBy(t), size \in Requests \ {0} :
       ~Passed(p) /\ \/ realloc_impl(t, p, size)
                     \/ reallocarray_impl(t, p, 7, size)
  /\ UNCHANGED <<mappings, active, memory, granted, refused>>

\* Any thread may ask, also about a pointer that is no block.
QueryCall(t) ==
  /\ HeapIdle(t)
  /\ \E p \in DOMAIN granted \cup {Unknown} : ~Passed(p) /\ malloc_usable_size_impl(t, p)
  /\ UNCHANGED <<mappings, active, memory, granted, refused>>

\* A client fills its block.
FillBlock(t) ==
  /\ HeapIdle(t)
  /\ \E p \in OwnedBy(t) :
       /\ memory' = [memory EXCEPT ![p].data = Contents("written", granted[p].size)]
       /\ granted' = [granted EXCEPT ![p].data = Contents("written", granted[p].size)]
  /\ UNCHANGED <<mappings, active, heap_pc, heap_call, refused>>

\* A client writes over the header in front of its block, with one that is
\* sound in itself.
SpoofHeader(t) ==
  /\ HeapIdle(t)
  /\ \E p \in OwnedBy(t) :
       LET h == memory[p].header
       IN /\ ~Passed(p)
          /\ memory' = [memory EXCEPT ![p].header =
               build_allocation_header(p, h.mapping_base, h.mapping_len, 0, h.alignment)]
  /\ UNCHANGED <<mappings, active, heap_pc, heap_call, granted, refused>>

HeapInit ==
  /\ mappings = {} /\ active = <<>> /\ memory = <<>>
  /\ heap_pc = [t \in HeapThreads |-> "idle"]
  /\ heap_call = [t \in HeapThreads |-> NoHeapCall]
  /\ granted = <<>> /\ refused = {}

HeapNext == \E t \in HeapThreads :
          \/ AllocateCall(t) \/ ReleaseCall(t) \/ ResizeCall(t) \/ QueryCall(t)
          \/ FillBlock(t) \/ SpoofHeader(t)
          \/ MmapFails(t) \/ Mmap(t) \/ Register(t) \/ Fill(t)
          \/ LookupRecord(t) \/ ReadHeader(t) \/ Unregister(t) \/ Munmap(t)

HeapSpec == HeapInit /\ [][HeapNext]_heap_vars

-----------------------------------------------------------------------------
(* Properties *)

\* A block a client holds has the alignment and the size it asked for, lies with
\* its header in one mapping, clear of the record there, and never in one that
\* was given back, even when the kernel kept it. It has exactly one record, and
\* its contents are what the client wrote last, up to the smaller size of every
\* realloc in between. No two blocks share a byte. A realloc that fails, here
\* or in the kernel, leaves the block as it was.
GrantedIsBacked ==
  \A p \in DOMAIN granted :
    /\ p % granted[p].alignment = 0
    /\ p \in DOMAIN memory
    /\ memory[p].data.stamp = granted[p].data.stamp
    /\ memory[p].data.upto >= granted[p].data.upto
    /\ \E m \in mappings \ refused :
         /\ p - HEADER_SIZE >= m.base + RECORD_SIZE
         /\ p + granted[p].size <= m.base + m.len
         /\ \A q \in DOMAIN granted \ {p} : ~(m.base <= q /\ q < m.base + m.len)
    /\ Cardinality(Records(p)) = 1

\* Every mapping is that of one active record, or in the hands of one thread
\* that will register it or ask for its removal, or one the kernel refused to
\* take back, and only one of the three; and every active record has its
\* mapping. What a refused munmap leaves behind is lost, for the code forgets
\* it, but nothing else is: no path drops a mapping it did not ask the kernel
\* to remove, removes one that is in use, or leaves a record dangling; and what a
\* call reads or writes outside the lock is still mapped.
MappingsAreAccounted ==
  LET recorded == {[base |-> active[i].mapping_base, len |-> active[i].mapping_len] :
                     i \in DOMAIN active}
      handled == {[base |-> memory[heap_call[t].new].header.mapping_base,
                   len |-> memory[heap_call[t].new].header.mapping_len] :
                    t \in {u \in HeapThreads : heap_pc[u] = "register"}}
                 \cup
                 {[base |-> heap_call[t].header.mapping_base,
                   len |-> heap_call[t].header.mapping_len] :
                    t \in {u \in HeapThreads : heap_pc[u] = "munmap"}}
  IN /\ mappings = recorded \cup handled \cup refused
     /\ recorded \cap handled = {}
     /\ refused \cap (recorded \cup handled) = {}
     /\ Cardinality(recorded) = Len(active)
     /\ \A t \in HeapThreads :
          /\ \/ heap_pc[t] = "read"
             \/ heap_pc[t] = "fill" /\ heap_call[t].op = "realloc"
             => heap_call[t].ptr \in DOMAIN memory
          /\ heap_pc[t] = "fill" => heap_call[t].new \in DOMAIN memory

\* Both halves of the allocator's promise, on every path of malloc, calloc,
\* aligned_alloc, posix_memalign, realloc, reallocarray, malloc_usable_size and
\* free, failing ones included.
HeapIsSound == GrantedIsBacked /\ MappingsAreAccounted
=============================================================================
