----------------------------- MODULE AllocSizes -----------------------------
(***************************************************************************)
(* The size and address arithmetic of stdlib/alloc.rs.                     *)
(*                                                                         *)
(* usize is 0 .. WordSize - 1. A checked operation returns None when the   *)
(* code's Option is None; None is passed on as the `?' operator does. The  *)
(* sizes of the two structures and of a page are parameters, so that TLC   *)
(* can reach the end of a small word.                                      *)
(***************************************************************************)
EXTENDS Integers

CONSTANTS
  WordSize,          \* 2^64 in the code: one more than usize::MAX
  PAGE_SIZE,
  HEADER_SIZE,       \* size_of::<AllocationHeader>()
  RECORD_SIZE,       \* size_of::<AllocationRecord>()
  MALLOC_ALIGNMENT,
  POINTER_SIZE

\* Facts of the target: a page divides the word, structures are not empty and
\* leave room for a request in a mapping of half the word.
ASSUME SizesAssumption ==
  /\ WordSize \in Nat \ {0} /\ PAGE_SIZE \in Nat \ {0}
  /\ HEADER_SIZE \in Nat \ {0} /\ RECORD_SIZE \in Nat \ {0}
  /\ MALLOC_ALIGNMENT \in Nat \ {0} /\ POINTER_SIZE \in Nat \ {0}
  /\ WordSize % 2 = 0
  /\ WordSize % PAGE_SIZE = 0
  /\ HEADER_SIZE + RECORD_SIZE < WordSize \div 2

Word == 0 .. WordSize - 1
None == -1

MAX_REQUEST_SIZE == WordSize \div 2 - 1
MIN_NONZERO_ALLOCATION == 1

-----------------------------------------------------------------------------
checked_sub(a, b) == IF a = None \/ b = None \/ a < b THEN None ELSE a - b

checked_add(a, b) ==
  IF a = None \/ b = None \/ a + b >= WordSize THEN None ELSE a + b

checked_mul(a, b) == IF a * b >= WordSize THEN None ELSE a * b

-----------------------------------------------------------------------------
(* Plausible slips. *)

\* The record at the start of the mapping is not counted.
MutMappingTotal_NoRecord(requested_size, alignment) ==
  LET payload_size == IF requested_size = 0 THEN MIN_NONZERO_ALLOCATION ELSE requested_size
  IN checked_add(checked_add(HEADER_SIZE, payload_size), checked_sub(alignment, 1))

-----------------------------------------------------------------------------
request_too_large(size) == size > MAX_REQUEST_SIZE

checked_calloc_size(nmemb, size) ==
  LET total == checked_mul(nmemb, size)
  IN IF total = None \/ request_too_large(total) THEN None ELSE total

payload_size_for(requested_size) ==
  IF requested_size = 0 THEN MIN_NONZERO_ALLOCATION ELSE requested_size

\* Clearing the bits of the mask rounds down to a multiple of the alignment:
\* every caller passes a power of two.
align_up(value, alignment) ==
  LET alignment_mask == checked_sub(alignment, 1)
      padded == checked_add(value, alignment_mask)
  IN IF padded = None THEN None ELSE padded - (padded % alignment)

mapping_total(requested_size, alignment) ==
  checked_add(
    checked_add(checked_add(HEADER_SIZE, RECORD_SIZE), payload_size_for(requested_size)),
    checked_sub(alignment, 1))

mapping_len_for(requested_size, alignment) ==
  align_up(mapping_total(requested_size, alignment), PAGE_SIZE)

is_page_aligned(value) == value % PAGE_SIZE = 0

payload_lower_bound_for(mapping_base) ==
  checked_add(checked_add(mapping_base, RECORD_SIZE), HEADER_SIZE)

c_long_from_usize(value) == IF value > MAX_REQUEST_SIZE THEN None ELSE value

-----------------------------------------------------------------------------
\* usize::is_power_of_two: a number with no odd divisor but 1.
is_power_of_two(n) == n > 0 /\ \A d \in 2 .. n : n % d = 0 => d % 2 = 0

\* MALLOC_ALIGNMENT is 16.
ASSUME AlignmentAssumption == is_power_of_two(MALLOC_ALIGNMENT)

has_allocator_alignment_shape(alignment) == is_power_of_two(alignment) /\ alignment # 0

has_glibc_alignment_shape(alignment) == has_allocator_alignment_shape(alignment)

has_valid_alignment_shape(alignment) ==
  has_allocator_alignment_shape(alignment) /\ alignment >= POINTER_SIZE

effective_allocation_alignment(alignment) ==
  IF alignment < MALLOC_ALIGNMENT THEN MALLOC_ALIGNMENT ELSE alignment

-----------------------------------------------------------------------------
(* Placing a payload in a mapping. *)

\* The payload address in a mapping that the kernel placed at base, or None
\* where the code unmaps it again and answers ENOMEM.
payload_addr_in(base, mapping_len, requested_size, alignment) ==
  LET payload_addr == align_up(payload_lower_bound_for(base), alignment)
      payload_end_addr == checked_add(payload_addr, payload_size_for(requested_size))
      mapping_end_addr == checked_add(base, mapping_len)
  IN IF \/ None \in {payload_addr, payload_end_addr, mapping_end_addr}
        \/ payload_end_addr > mapping_end_addr
     THEN None
     ELSE payload_addr

\* The rotations and the seed are taken to tell any two headers apart.
allocation_cookie(base, len, payload, size, alignment) ==
  <<base, len, payload, size, alignment>>

build_allocation_header(payload, base, len, size, alignment) ==
  [mapping_base |-> base, mapping_len |-> len, payload_addr |-> payload,
   requested_size |-> size, alignment |-> alignment,
   cookie |-> allocation_cookie(base, len, payload, size, alignment)]

validate_header_for_payload(header, payload_addr) ==
  LET mapping_end == checked_add(header.mapping_base, header.mapping_len)
      payload_end == checked_add(payload_addr, payload_size_for(header.requested_size))
      lower_bound == payload_lower_bound_for(header.mapping_base)
  IN /\ header.payload_addr = payload_addr
     /\ has_allocator_alignment_shape(header.alignment)
     /\ payload_addr % header.alignment = 0
     /\ header.mapping_base # 0
     /\ is_page_aligned(header.mapping_base)
     /\ header.mapping_len >= RECORD_SIZE + HEADER_SIZE
     /\ is_page_aligned(header.mapping_len)
     /\ None \notin {lower_bound, mapping_end, payload_end}
     /\ payload_addr >= lower_bound
     /\ payload_end <= mapping_end
     /\ header.cookie = allocation_cookie(header.mapping_base, header.mapping_len,
                          header.payload_addr, header.requested_size, header.alignment)

-----------------------------------------------------------------------------
\* What alloc.rs's checks after mmap rest on: when the length of a mapping could
\* be computed, then wherever the kernel puts it the aligned payload and its
\* header fit behind the record, so that the later checks never refuse; and the
\* header that is written is accepted by every later free and realloc. A length
\* is refused only when header, record, payload and padding, rounded up to a
\* page, leave the word.
AllocationFits(size, requested_alignment, base) ==
  LET alignment == effective_allocation_alignment(requested_alignment)
      len == mapping_len_for(size, alignment)
      payload == payload_addr_in(base, len, size, alignment)
      total == HEADER_SIZE + RECORD_SIZE + payload_size_for(size) + alignment - 1
  IN IF len = None
     THEN total + PAGE_SIZE > WordSize
     ELSE base + len < WordSize =>
            /\ payload # None
            /\ payload % requested_alignment = 0
            /\ validate_header_for_payload(
                 build_allocation_header(payload, base, len, size, alignment), payload)
=============================================================================
