-------------------------- MODULE AllocatorProofs --------------------------
(***************************************************************************)
(* Theorems about the allocator: the size arithmetic for every word, page, *)
(* alignment and place of a mapping, and the list of allocations for every *)
(* set of threads, places, sizes and alignments.                           *)
(***************************************************************************)
EXTENDS Allocator, WellFoundedInduction, FiniteSetTheorems, SequenceTheorems, TLAPS

-----------------------------------------------------------------------------
(* Remainders.                                                             *)
LEMMA Remainder ==
  ASSUME NEW x \in Nat, NEW a \in Nat \ {0}
  PROVE  /\ x % a \in 0 .. a - 1 /\ x = a * (x \div a) + (x % a) /\ x \div a \in Nat
         /\ x % a \in Nat /\ x % a <= x
<1>1. x % a \in 0 .. a - 1 /\ x = a * (x \div a) + (x % a) /\ x \div a \in Nat
  OBVIOUS
<1>2. \A q \in Nat : a * q \in Nat
  OBVIOUS
<1> QED
  BY <1>1, <1>2

LEMMA MultipleOf == ASSUME NEW q \in Nat, NEW a \in Nat \ {0} PROVE (q * a) % a = 0
  OBVIOUS

LEMMA Quotient ==
  ASSUME NEW x \in Nat, NEW a \in Nat \ {0}, x % a = 0
  PROVE  \E q \in Nat : x = q * a
  OBVIOUS

LEMMA DivisibleTransitive ==
  ASSUME NEW x \in Nat, NEW a \in Nat \ {0}, NEW b \in Nat \ {0}, x % a = 0, a % b = 0
  PROVE  x % b = 0
<1>1. PICK q \in Nat : x = q * a
  BY Quotient
<1>2. PICK r \in Nat : a = r * b
  BY Quotient
<1>3. x = (q * r) * b /\ q * r \in Nat
  BY <1>1, <1>2
<1> QED
  BY <1>3, MultipleOf

(* Half of a power of two above one is a power of two.                     *)
LEMMA HalfOfPower ==
  ASSUME NEW n \in Nat, is_power_of_two(n), n > 1
  PROVE  \E h \in Nat : h > 0 /\ h < n /\ n = 2 * h /\ is_power_of_two(h)
<1>1. n % n = 0
  <2>1. n = 1 * n
    OBVIOUS
  <2> QED
    BY <2>1, MultipleOf
<1>2. n % 2 = 0
  BY <1>1 DEF is_power_of_two
<1>3. PICK h \in Nat : n = h * 2
  BY <1>2, Quotient
<1>4. ASSUME NEW d \in 2 .. h, h % d = 0
      PROVE  d % 2 = 0
  <2>1. PICK q \in Nat : h = q * d
    BY <1>4, Quotient
  <2>2. n = (q * 2) * d /\ q * 2 \in Nat /\ d \in Nat \ {0} /\ d \in 2..n
    BY <1>3, <2>1
  <2>3. n % d = 0
    BY <2>2, MultipleOf
  <2> QED
    BY <2>2, <2>3 DEF is_power_of_two
<1>5. h > 0 /\ h < n
  BY <1>3
<1> QED
  BY <1>3, <1>4, <1>5 DEF is_power_of_two

(* A set of naturals has a least element: the induction of these proofs.   *)
LEMMA LeastNatural ==
  ASSUME NEW S, S \subseteq Nat, S # {}
  PROVE  \E n \in S : \A k \in S : n <= k
<1>1. PICK n \in S : \A k \in S : ~(<<k, n>> \in OpToRel(<, Nat))
  BY NatLessThanWellFounded, WFMin
<1>2. \A k \in S : ~(k < n)
  BY <1>1, Zenon DEF OpToRel
<1> QED
  BY <1>2

(* Of two powers of two the smaller divides the larger one. The proof takes *)
(* the least that does not, and halves both.                                *)
LEMMA PowersDivide ==
  ASSUME NEW a \in Nat, NEW b \in Nat, is_power_of_two(a), is_power_of_two(b), a <= b
  PROVE  b % a = 0
<1> DEFINE Bad == {n \in Nat : is_power_of_two(n)
                     /\ \E m \in Nat : is_power_of_two(m) /\ n <= m /\ m % n # 0}
<1> SUFFICES ASSUME Bad # {} PROVE FALSE
  OBVIOUS
<1>1. PICK n \in Bad : \A k \in Bad : n <= k
  <2>1. Bad \subseteq Nat
    OBVIOUS
  <2> HIDE DEF Bad
  <2> QED
    BY <2>1, LeastNatural
<1>3. PICK m \in Nat : is_power_of_two(m) /\ n <= m /\ m % n # 0
  OBVIOUS
<1>4. n \in Nat /\ is_power_of_two(n) /\ n > 0
  BY DEF is_power_of_two
<1>5. n # 1
  <2>1. m = m * 1
    OBVIOUS
  <2>2. m % 1 = 0
    BY <2>1, MultipleOf
  <2> QED
    BY <1>3, <2>2
<1>6. PICK h \in Nat : h > 0 /\ h < n /\ n = 2 * h /\ is_power_of_two(h)
  BY <1>4, <1>5, HalfOfPower
<1>7. PICK g \in Nat : g > 0 /\ g < m /\ m = 2 * g /\ is_power_of_two(g)
  BY <1>3, <1>4, <1>5, HalfOfPower
<1>8. h \notin Bad
  BY <1>1, <1>6
<1>9. g % h = 0
  BY <1>3, <1>6, <1>7, <1>8
<1> HIDE DEF Bad
<1>10. PICK q \in Nat : g = q * h
  <2>1. h \in Nat \ {0}
    BY <1>6
  <2> QED
    BY <1>9, <2>1, Quotient
<1>11. m = q * n
  BY <1>6, <1>7, <1>10
<1> QED
  BY <1>3, <1>4, <1>11, MultipleOf

(* What align_up returns.                                                  *)
LEMMA AlignUpFacts ==
  ASSUME NEW value \in Nat \cup {None}, NEW alignment \in Nat \ {0},
         align_up(value, alignment) # None
  PROVE  /\ value # None
         /\ align_up(value, alignment) \in value .. value + alignment - 1
         /\ align_up(value, alignment) < WordSize
         /\ align_up(value, alignment) \in Nat
         /\ align_up(value, alignment) % alignment = 0
<1> USE SizesAssumption
<1>1. checked_sub(alignment, 1) = alignment - 1 /\ alignment - 1 \in Nat
  BY DEF checked_sub, None
<1>2. value # None
  BY <1>1 DEF align_up, checked_add, None
<1> DEFINE padded == value + (alignment - 1)
<1>3. padded \in Nat /\ padded < WordSize
  BY <1>1, <1>2 DEF align_up, checked_add, None
<1>4. align_up(value, alignment) = padded - (padded % alignment)
  BY <1>1, <1>2, <1>3 DEF align_up, checked_add, None
<1>5. padded % alignment \in 0 .. alignment - 1 /\ padded - (padded % alignment) = (padded \div alignment) * alignment
      /\ padded \div alignment \in Nat
  BY <1>3, Remainder
<1>6. (padded - (padded % alignment)) % alignment = 0
  BY <1>5, MultipleOf
<1> QED
  BY <1>2, <1>3, <1>4, <1>5, <1>6

LEMMA CheckedTypes ==
  /\ \A a, b \in Nat \cup {None} : checked_add(a, b) \in Nat \cup {None}
  /\ \A value \in Nat \cup {None}, alignment \in Nat \ {0} :
       align_up(value, alignment) \in Nat \cup {None}
<1>1. \A a, b \in Nat \cup {None} : checked_add(a, b) \in Nat \cup {None}
  BY DEF checked_add, None
<1>2. ASSUME NEW value \in Nat \cup {None}, NEW alignment \in Nat \ {0}
      PROVE  align_up(value, alignment) \in Nat \cup {None}
  BY <1>2, AlignUpFacts
<1> QED
  BY <1>1, <1>2

LEMMA EffectiveFacts ==
  ASSUME NEW alignment \in Nat, is_power_of_two(alignment)
  PROVE  /\ effective_allocation_alignment(alignment) \in Nat \ {0}
         /\ is_power_of_two(effective_allocation_alignment(alignment))
         /\ MALLOC_ALIGNMENT <= effective_allocation_alignment(alignment)
         /\ alignment <= effective_allocation_alignment(alignment)
         /\ effective_allocation_alignment(alignment) % alignment = 0
<1> USE SizesAssumption, AlignmentAssumption
<1> DEFINE e == effective_allocation_alignment(alignment)
<1>1. /\ e \in Nat \ {0} /\ is_power_of_two(e)
      /\ MALLOC_ALIGNMENT <= e /\ alignment <= e
  BY DEF effective_allocation_alignment, is_power_of_two
<1>2. e % alignment = 0
  BY <1>1, PowersDivide
<1> QED
  BY <1>1, <1>2

LEMMA LengthFacts ==
  ASSUME NEW size \in Nat, NEW alignment \in Nat \ {0},
         mapping_len_for(size, alignment) # None
  PROVE  LET len == mapping_len_for(size, alignment)
             total == HEADER_SIZE + RECORD_SIZE + payload_size_for(size) + alignment - 1
         IN /\ len \in Nat /\ len < WordSize /\ total <= len /\ len % PAGE_SIZE = 0
            /\ mapping_total(size, alignment) = total
<1> USE SizesAssumption
<1>1. payload_size_for(size) \in Nat \ {0}
  BY DEF payload_size_for, MIN_NONZERO_ALLOCATION
<1>2. checked_sub(alignment, 1) = alignment - 1
  BY DEF checked_sub, None
<1>3. mapping_total(size, alignment) \in Nat \cup {None}
  BY <1>1, <1>2 DEF mapping_total, checked_add, None
<1>4. mapping_total(size, alignment) # None
  BY <1>3, AlignUpFacts DEF mapping_len_for
<1>5. mapping_total(size, alignment)
        = HEADER_SIZE + RECORD_SIZE + payload_size_for(size) + alignment - 1
  BY <1>1, <1>2, <1>4 DEF mapping_total, checked_add, None
<1> QED
  BY <1>3, <1>4, <1>5, AlignUpFacts DEF mapping_len_for

(* Where the payload is placed, when it is: behind record and header, aligned, *)
(* and before the end of the mapping.                                          *)
LEMMA PayloadFacts ==
  ASSUME NEW base \in Nat, NEW len \in Nat, NEW size \in Nat, NEW alignment \in Nat \ {0},
         payload_addr_in(base, len, size, alignment) # None
  PROVE  LET payload == payload_addr_in(base, len, size, alignment)
         IN /\ payload \in Nat
            /\ base + RECORD_SIZE + HEADER_SIZE <= payload
            /\ payload + payload_size_for(size) <= base + len
            /\ payload % alignment = 0
<1> USE SizesAssumption
<1> DEFINE bound == payload_lower_bound_for(base)
           payload == align_up(bound, alignment)
<1>1. payload_size_for(size) \in Nat \ {0}
  BY DEF payload_size_for, MIN_NONZERO_ALLOCATION
<1>2. bound \in Nat \cup {None}
  BY DEF payload_lower_bound_for, checked_add, None
<1> DEFINE end == checked_add(payload, payload_size_for(size))
           limit == checked_add(base, len)
<1>a. payload \in Nat \cup {None} /\ end \in Nat \cup {None} /\ limit \in Nat \cup {None}
  BY <1>1, <1>2, CheckedTypes
<1>b. payload_addr_in(base, len, size, alignment)
        = IF None \in {payload, end, limit} \/ end > limit THEN None ELSE payload
  BY DEF payload_addr_in
<1>3. /\ payload # None /\ payload_addr_in(base, len, size, alignment) = payload
      /\ end # None /\ limit # None /\ end <= limit
  <2> HIDE DEF payload, end, limit
  <2> QED
    BY <1>a, <1>b DEF None
<1>4. bound # None /\ payload \in Nat /\ bound <= payload /\ payload % alignment = 0
  <2> HIDE DEF bound
  <2> QED
    BY <1>2, <1>3, AlignUpFacts DEF None
<1>5. bound = base + RECORD_SIZE + HEADER_SIZE
  BY <1>4 DEF payload_lower_bound_for, checked_add, None
<1>6. payload + payload_size_for(size) <= base + len
  <2>1. checked_add(payload, payload_size_for(size)) = payload + payload_size_for(size)
    BY <1>1, <1>3, <1>4 DEF checked_add, None
  <2>2. checked_add(base, len) = base + len
    BY <1>3 DEF checked_add, None
  <2> QED
    BY <1>3, <2>1, <2>2
<1> QED
  BY <1>3, <1>4, <1>5, <1>6

(* Wherever the kernel places a mapping of the computed length, short of the  *)
(* last byte of the word, the payload can be placed.                          *)
LEMMA PayloadIsPlaced ==
  ASSUME NEW base \in Nat, NEW size \in Nat, NEW alignment \in Nat \ {0},
         mapping_len_for(size, alignment) # None,
         base + mapping_len_for(size, alignment) < WordSize
  PROVE  payload_addr_in(base, mapping_len_for(size, alignment), size, alignment) # None
<1> USE SizesAssumption
<1> DEFINE len == mapping_len_for(size, alignment)
           bound == payload_lower_bound_for(base)
           payload == align_up(bound, alignment)
           psize == payload_size_for(size)
<1>1. psize \in Nat \ {0}
  BY DEF payload_size_for, MIN_NONZERO_ALLOCATION
<1>2. /\ len \in Nat /\ HEADER_SIZE + RECORD_SIZE + psize + alignment - 1 <= len
      /\ base + len < WordSize
  BY LengthFacts
<1>3. bound = base + RECORD_SIZE + HEADER_SIZE /\ bound \in Nat
  BY <1>1, <1>2 DEF payload_lower_bound_for, checked_add, None
<1>4. bound + (alignment - 1) < WordSize
  BY <1>1, <1>2, <1>3
<1>5. payload = bound + (alignment - 1) - ((bound + (alignment - 1)) % alignment)
  BY <1>3, <1>4 DEF align_up, checked_add, checked_sub, None
<1>6. payload \in Nat /\ payload <= bound + alignment - 1
  <2> DEFINE padded == bound + (alignment - 1)
  <2>1. padded \in Nat /\ payload = padded - (padded % alignment)
    BY <1>3, <1>5
  <2> HIDE DEF padded
  <2>2. padded % alignment \in Nat /\ padded % alignment <= padded
    BY <2>1, Remainder, Zenon
  <2>3. payload \in Nat /\ payload <= padded
    <3> HIDE DEF payload
    <3> QED
      BY <2>1, <2>2
  <2> QED
    BY <2>3, <1>3 DEF padded
<1>7. checked_add(payload, psize) = payload + psize /\ checked_add(base, len) = base + len
  BY <1>1, <1>2, <1>3, <1>6 DEF checked_add, None
<1>8. payload + psize <= base + len /\ payload # None /\ payload + psize # None /\ base + len # None
  BY <1>1, <1>2, <1>3, <1>6 DEF None
<1>9. payload_addr_in(base, len, size, alignment) = payload
  <2>1. payload_addr_in(base, len, size, alignment)
          = IF \/ None \in {payload, checked_add(payload, psize), checked_add(base, len)}
               \/ checked_add(payload, psize) > checked_add(base, len)
            THEN None ELSE payload
    BY DEF payload_addr_in
  <2>2. ~(payload + psize > base + len)
    BY <1>1, <1>2, <1>6, <1>8
  <2> HIDE DEF payload, psize, len
  <2> QED
    BY <1>7, <1>8, <2>1, <2>2
<1> QED
  BY <1>8, <1>9

(* A length is refused only when it leaves the word.                        *)
LEMMA LengthRefused ==
  ASSUME NEW size \in Nat, NEW alignment \in Nat \ {0}, mapping_len_for(size, alignment) = None
  PROVE  HEADER_SIZE + RECORD_SIZE + payload_size_for(size) + alignment - 1 + PAGE_SIZE > WordSize
<1> USE SizesAssumption
<1> DEFINE total == HEADER_SIZE + RECORD_SIZE + payload_size_for(size) + alignment - 1
<1> SUFFICES ASSUME total + PAGE_SIZE <= WordSize PROVE FALSE
  BY DEF payload_size_for, MIN_NONZERO_ALLOCATION
<1>1. payload_size_for(size) \in Nat \ {0}
  BY DEF payload_size_for, MIN_NONZERO_ALLOCATION
<1>2. total \in Nat /\ total < WordSize /\ total + (PAGE_SIZE - 1) < WordSize
  BY <1>1
<1>3. mapping_total(size, alignment) = total
  BY <1>1, <1>2 DEF mapping_total, checked_add, checked_sub, None
<1>4. mapping_len_for(size, alignment)
        = total + (PAGE_SIZE - 1) - ((total + (PAGE_SIZE - 1)) % PAGE_SIZE)
  <2> HIDE DEF total
  <2> QED
    BY <1>2, <1>3 DEF mapping_len_for, align_up, checked_add, checked_sub, None
<1>5. (total + (PAGE_SIZE - 1)) % PAGE_SIZE <= total + (PAGE_SIZE - 1)
      /\ (total + (PAGE_SIZE - 1)) % PAGE_SIZE \in Nat
  <2> DEFINE padded == total + (PAGE_SIZE - 1)
  <2>1. padded \in Nat
    BY <1>2
  <2> HIDE DEF padded
  <2>2. padded % PAGE_SIZE <= padded /\ padded % PAGE_SIZE \in Nat
    BY <2>1, Remainder, Zenon
  <2> QED
    BY <2>2 DEF padded
<1> HIDE DEF total
<1> QED
  BY <1>2, <1>4, <1>5 DEF None

(* The checks of alloc.rs after mmap refuse nothing that was computed, and  *)
(* every header that is written is accepted by a later free or realloc, for *)
(* every word, page, structure and alignment.                               *)
THEOREM AllocationsFit ==
  ASSUME NEW size \in Nat, NEW alignment \in Nat, is_power_of_two(alignment),
         NEW base \in Word \ {0}, is_page_aligned(base)
  PROVE  AllocationFits(size, alignment, base)
<1> USE SizesAssumption
<1> DEFINE eff == effective_allocation_alignment(alignment)
           len == mapping_len_for(size, eff)
           payload == payload_addr_in(base, len, size, eff)
           header == build_allocation_header(payload, base, len, size, eff)
<1>1. eff \in Nat \ {0} /\ is_power_of_two(eff) /\ eff % alignment = 0
  BY EffectiveFacts
<1>2. alignment \in Nat \ {0} /\ base \in Nat
  BY DEF is_power_of_two, Word
<1>3. CASE len = None
  BY <1>1, <1>3, LengthRefused DEF AllocationFits
<1>4. CASE len # None
  <2> SUFFICES ASSUME base + len < WordSize
               PROVE  /\ payload # None
                      /\ payload % alignment = 0
                      /\ validate_header_for_payload(header, payload)
    BY <1>4 DEF AllocationFits
  <2>1. /\ len \in Nat /\ len % PAGE_SIZE = 0
        /\ HEADER_SIZE + RECORD_SIZE + payload_size_for(size) + eff - 1 <= len
    BY <1>1, <1>4, LengthFacts
  <2>2. payload # None
    BY <1>1, <1>2, <1>4, PayloadIsPlaced
  <2>3. /\ payload \in Nat
        /\ base + RECORD_SIZE + HEADER_SIZE <= payload
        /\ payload + payload_size_for(size) <= base + len
        /\ payload % eff = 0
    BY <1>1, <1>2, <2>1, <2>2, PayloadFacts
  <2>4. payload % alignment = 0
    BY <1>1, <1>2, <2>3, DivisibleTransitive
  <2>5. payload_size_for(size) \in Nat \ {0}
    BY DEF payload_size_for, MIN_NONZERO_ALLOCATION
  <2> HIDE DEF len, payload, eff
  <2>6. /\ checked_add(base, len) = base + len /\ base + len # None
        /\ checked_add(payload, payload_size_for(size)) = payload + payload_size_for(size)
        /\ payload + payload_size_for(size) # None
        /\ payload_lower_bound_for(base) = base + RECORD_SIZE + HEADER_SIZE
        /\ base + RECORD_SIZE + HEADER_SIZE # None
    BY <1>2, <2>1, <2>3, <2>5 DEF checked_add, payload_lower_bound_for, None
  <2>7. /\ header.mapping_base = base /\ header.mapping_len = len
        /\ header.payload_addr = payload /\ header.requested_size = size
        /\ header.alignment = eff
        /\ header.cookie = allocation_cookie(base, len, payload, size, eff)
    BY DEF build_allocation_header
  <2>8. has_allocator_alignment_shape(eff)
    BY <1>1 DEF has_allocator_alignment_shape
  <2>9. len >= RECORD_SIZE + HEADER_SIZE
    BY <1>1, <2>1, <2>5
  <2> HIDE DEF header
  <2>10. validate_header_for_payload(header, payload)
    BY <1>2, <2>1, <2>3, <2>6, <2>7, <2>8, <2>9
    DEF validate_header_for_payload, is_page_aligned, Word
  <2> QED
    BY <2>2, <2>4, <2>10
<1> QED
  BY <1>3, <1>4

-----------------------------------------------------------------------------
(* The inductive invariant *)

Headers ==
  [mapping_base : Bases, mapping_len : Nat, payload_addr : Nat, requested_size : Nat,
   alignment : Nat \ {0}, cookie : Nat \X Nat \X Nat \X Nat \X Nat]

Data == [stamp : {"zero", "written"}, upto : Nat]
Cells == [header : Headers, data : Data]
Grants == [owner : HeapThreads, size : Nat, alignment : Nat \ {0}, data : Data]
Calls ==
  [op : {"none", "plain", "calloc", "realloc", "release", "free", "usable_size"},
   ptr : Nat \cup {Unknown}, size : Nat, alignment : Nat, header : Headers \cup {None},
   new : Nat]

\* A header as the code writes it: record, header and payload lie in the mapping
\* in this order, and the payload is aligned.
Placed(h) ==
  /\ h \in Headers
  /\ h.mapping_base + RECORD_SIZE + HEADER_SIZE <= h.payload_addr
  /\ h.payload_addr + h.requested_size <= h.mapping_base + h.mapping_len
  /\ h.payload_addr < h.mapping_base + h.mapping_len
  /\ h.payload_addr % h.alignment = 0
  /\ MALLOC_ALIGNMENT <= h.alignment

\* A mapping of some length, not at zero.
Regions == [base : Nat \ {0}, len : Nat \ {0}]

MapOf(h) == [base |-> h.mapping_base, len |-> h.mapping_len]

Live == {active[i] : i \in DOMAIN active}

\* Who has a mapping in hand that is in no active record, and its header.
Handling(t) == heap_pc[t] \in {"register", "munmap"}
InHand(t) == IF heap_pc[t] = "register" THEN memory[heap_call[t].new].header
             ELSE heap_call[t].header

\* The call may take the block at ptr out of the list; it has a block that
\* nobody was granted yet.
Claims(t) == heap_pc[t] \notin {"idle", "munmap"}
               /\ heap_call[t].op \in {"free", "realloc", "release"}
HasNew(t) == \/ heap_pc[t] \in {"register", "fill"}
             \/ heap_pc[t] \in {"lookup", "read", "unregister"} /\ heap_call[t].op = "release"

HeapLabels == {"idle", "mmap", "register", "fill", "lookup", "read", "unregister", "munmap"}

HeapTypeOK ==
  /\ active \in Seq(Headers)
  /\ memory \in [DOMAIN memory -> Cells]
  /\ granted \in [DOMAIN granted -> Grants]
  /\ heap_pc \in [HeapThreads -> HeapLabels]
  /\ heap_call \in [HeapThreads -> Calls]
  /\ refused \subseteq Regions

\* The list holds placed headers with mappings and payloads of their own.
ListSound ==
  /\ IsInjective(active)
  /\ \A r \in Live : Placed(r) /\ r.payload_addr \in DOMAIN memory
  /\ \A r, s \in Live : r # s => /\ r.mapping_base # s.mapping_base
                                 /\ r.payload_addr # s.payload_addr

\* Every mapping has one holder, or was refused and has none, and mappings do not
\* overlap. What the kernel refused to take back is no longer in any hand.
MappingsHeld ==
  /\ mappings = {MapOf(r) : r \in Live}
                  \cup {MapOf(InHand(t)) : t \in {u \in HeapThreads : Handling(u)}}
                  \cup refused
  /\ \A m, n \in mappings : m # n => ~Overlap(m.base, m.len, n.base, n.len)
  /\ \A t \in HeapThreads : Handling(t) =>
       /\ \A r \in Live : r.mapping_base # InHand(t).mapping_base
       /\ \A u \in HeapThreads : u # t /\ Handling(u) =>
            InHand(u).mapping_base # InHand(t).mapping_base
  /\ \A m \in refused :
       /\ \A r \in Live : r.mapping_base # m.base
       /\ \A t \in HeapThreads : Handling(t) => InHand(t).mapping_base # m.base

\* A granted block has a record, and its contents are there.
GrantsRecorded ==
  \A p \in DOMAIN granted : \E r \in Live :
    /\ r.payload_addr = p
    /\ r.requested_size = granted[p].size
    /\ r.alignment % granted[p].alignment = 0
    /\ granted[p].data.upto <= granted[p].size
    /\ memory[p].data.stamp = granted[p].data.stamp
    /\ memory[p].data.upto >= granted[p].data.upto

\* What a call knows where it is: of the block it was asked about ...
ClaimSound(t) ==
  LET c == heap_call[t] IN
  /\ Claims(t) => \E r \in Live : r.payload_addr = c.ptr
  /\ Claims(t) /\ c.op = "free" => c.ptr \notin DOMAIN granted
  /\ Claims(t) /\ c.op # "free" => c.ptr \in DOMAIN granted /\ granted[c.ptr].owner = t
  /\ \/ heap_pc[t] \in {"read", "unregister"}
     \/ heap_pc[t] \in {"mmap", "register", "fill"} /\ c.op = "realloc"
     => c.header \in Live /\ c.header.payload_addr = c.ptr
  /\ heap_pc[t] = "munmap" => Placed(c.header) /\ c.header.payload_addr = c.ptr

\* ... and of the block it made.
NewSound(t) ==
  LET c == heap_call[t] IN
  /\ heap_pc[t] = "mmap" =>
       /\ is_power_of_two(c.alignment)
       /\ mapping_len_for(c.size, effective_allocation_alignment(c.alignment)) # None
       /\ c.op = "realloc" => c.alignment = c.header.alignment
  /\ heap_pc[t] = "register" =>
       /\ c.new \in DOMAIN memory
       /\ Placed(memory[c.new].header)
       /\ memory[c.new].header.payload_addr = c.new
       /\ memory[c.new].header.requested_size = c.size
       /\ c.alignment # 0
       /\ memory[c.new].header.alignment % c.alignment = 0
       /\ c.op = "realloc" => memory[c.new].header.alignment = c.header.alignment
       /\ memory[c.new].data = Fresh(c.size)
  /\ heap_pc[t] = "fill" =>
       /\ c.alignment # 0
       /\ \E r \in Live : /\ r.payload_addr = c.new
                          /\ r.requested_size = c.size
                          /\ r.alignment % c.alignment = 0
                          /\ c.op = "realloc" => r.alignment = c.header.alignment
  /\ HasNew(t) => c.new \notin DOMAIN granted
  /\ HasNew(t) /\ heap_pc[t] \notin {"register", "fill"} => \E r \in Live :
       /\ r.payload_addr = c.new
       /\ r.requested_size = c.size
       /\ r.alignment % granted[c.ptr].alignment = 0
       /\ memory[c.new].data.stamp = granted[c.ptr].data.stamp
       /\ memory[c.new].data.upto >= Minimum(granted[c.ptr].data.upto, c.size)

CallShape(t) ==
  LET c == heap_call[t] IN
  /\ heap_pc[t] \in {"mmap", "register"} => c.op \in {"plain", "calloc", "realloc"}
  /\ heap_pc[t] = "fill" => c.op \in {"calloc", "realloc"}
  /\ heap_pc[t] \in {"lookup", "read"} => c.op \in {"free", "usable_size", "realloc", "release"}
  /\ heap_pc[t] \in {"unregister", "munmap"} => c.op \in {"free", "release"}
  /\ heap_pc[t] \in {"lookup", "read", "unregister", "munmap"} => c.ptr # Null

\* Calls under way are about different blocks.
CallsApart ==
  \A t, u \in HeapThreads :
    /\ t # u /\ heap_pc[t] # "idle" /\ heap_pc[u] # "idle" /\ heap_call[t].ptr # Null =>
         heap_call[t].ptr # heap_call[u].ptr
    /\ t # u /\ HasNew(t) /\ HasNew(u) => heap_call[t].new # heap_call[u].new
    /\ HasNew(t) /\ Claims(u) => heap_call[t].new # heap_call[u].ptr

HeapIInv ==
  /\ HeapTypeOK /\ ListSound /\ MappingsHeld /\ GrantsRecorded /\ CallsApart
  /\ \A t \in HeapThreads : CallShape(t) /\ ClaimSound(t) /\ NewSound(t)

-----------------------------------------------------------------------------
(* Facts about the operators of the model                                  *)

LEMMA WithoutFacts ==
  ASSUME NEW f, NEW x
  PROVE  Without(f, x) = [y \in DOMAIN f \ {x} |-> f[y]]
  BY DEF Without, Restrict

(* The list holds at most one record of an address; the walk finds it.     *)
LEMMA FirstRecordFacts ==
  ASSUME HeapTypeOK, ListSound, NEW p
  PROVE  /\ Records(p) = {} => \A r \in Live : r.payload_addr # p
         /\ Records(p) # {} =>
              /\ FirstRecord(p) \in 1 .. Len(active)
              /\ active[FirstRecord(p)] \in Live
              /\ active[FirstRecord(p)].payload_addr = p
              /\ Records(p) = {FirstRecord(p)}
<1>1. active \in Seq(Headers) /\ Len(active) \in Nat /\ DOMAIN active = 1 .. Len(active)
  BY DEF HeapTypeOK
<1>2. Records(p) = {} => \A r \in Live : r.payload_addr # p
  BY DEF Records, Live
<1>3. ASSUME NEW i \in Records(p), NEW j \in Records(p)
      PROVE  i = j
  <2>1. active[i] \in Live /\ active[j] \in Live /\ active[i].payload_addr = active[j].payload_addr
    BY DEF Records, Live
  <2>2. active[i] = active[j]
    BY <2>1 DEF ListSound
  <2> QED
    BY <2>2 DEF ListSound, IsInjective, Records
<1>4. ASSUME Records(p) # {}
      PROVE  Records(p) = {FirstRecord(p)}
  <2>1. PICK i \in Records(p) : TRUE
    BY <1>4
  <2>2. i \in Nat /\ \A j \in Records(p) : i <= j
    BY <1>1, <1>3 DEF Records
  <2>3. FirstRecord(p) \in Records(p)
    BY <2>2 DEF FirstRecord
  <2> QED
    BY <1>3, <2>3
<1> QED
  BY <1>1, <1>2, <1>4 DEF Records, Live

LEMMA RegisterFacts ==
  ASSUME HeapTypeOK, ListSound, NEW h \in Headers, h \notin Live, active' = <<h>> \o active
  PROVE  active' \in Seq(Headers) /\ IsInjective(active') /\ Live' = Live \cup {h}
<1> DEFINE n == Len(active)
<1>1. active \in Seq(Headers) /\ n \in Nat /\ DOMAIN active = 1..n
  BY DEF HeapTypeOK
<1>2. <<h>> \in Seq(Headers) /\ Len(<<h>>) = 1 /\ <<h>>[1] = h
  OBVIOUS
<1>3. /\ active' \in Seq(Headers) /\ Len(active') = n + 1 /\ DOMAIN active' = 1..(n + 1)
      /\ active'[1] = h /\ \A i \in 2..(n + 1) : active'[i] = active[i - 1]
  BY <1>1, <1>2
<1>4. \A i \in 1..n : active[i] = active'[i + 1] /\ i + 1 \in 2..(n + 1)
  BY <1>1, <1>3
<1>5. \A i \in 2..(n + 1) : active'[i] \in Live
  <2> TAKE i \in 2..(n + 1)
  <2>1. i - 1 \in 1..n
    BY <1>1
  <2> QED
    BY <1>1, <1>3, <2>1 DEF Live
<1>6. Live' = Live \cup {h}
  <2>1. ASSUME NEW r \in Live' PROVE r \in Live \cup {h}
    <3>1. PICK i \in 1..(n + 1) : r = active'[i]
      BY <1>3 DEF Live
    <3>2. i = 1 \/ i \in 2..(n + 1)
      BY <1>1
    <3> QED
      BY <1>3, <1>5, <3>1, <3>2
  <2>2. ASSUME NEW r \in Live PROVE r \in Live'
    <3>1. PICK i \in 1..n : r = active[i]
      BY <1>1 DEF Live
    <3>2. i + 1 \in 1..(n + 1) /\ r = active'[i + 1]
      BY <1>1, <1>4, <3>1
    <3> QED
      BY <1>3, <3>2 DEF Live
  <2>3. h \in Live'
    BY <1>1, <1>3 DEF Live
  <2> QED
    BY <2>1, <2>2, <2>3
<1>7. IsInjective(active')
  <2> SUFFICES ASSUME NEW i \in 1..(n + 1), NEW j \in 1..(n + 1), active'[i] = active'[j]
               PROVE  i = j
    BY <1>3 DEF IsInjective
  <2>1. CASE i = 1 \/ j = 1
    BY <1>1, <1>3, <1>5, <2>1
  <2>2. CASE i # 1 /\ j # 1
    <3>1. i - 1 \in 1..n /\ j - 1 \in 1..n /\ active[i - 1] = active[j - 1]
      BY <1>1, <1>3, <2>2
    <3>2. i - 1 = j - 1
      BY <1>1, <3>1 DEF ListSound, IsInjective
    <3> QED
      BY <1>1, <3>2
  <2> QED
    BY <2>1, <2>2
<1> QED
  BY <1>3, <1>6, <1>7

LEMMA RemoveFacts ==
  ASSUME HeapTypeOK, ListSound, NEW p, Records(p) # {}, RemoveRecord(p)
  PROVE  /\ active' \in Seq(Headers) /\ IsInjective(active')
         /\ Live' = {r \in Live : r.payload_addr # p}
<1> DEFINE n == Len(active)
           k == FirstRecord(p)
           front == SubSeq(active, 1, k - 1)
           back == SubSeq(active, k + 1, n)
           old(i) == IF i < k THEN i ELSE i + 1
<1>1. active \in Seq(Headers) /\ n \in Nat /\ DOMAIN active = 1..n
  BY DEF HeapTypeOK
<1>2. k \in 1..n /\ active[k].payload_addr = p /\ active[k] \in Live /\ Records(p) = {k}
  BY FirstRecordFacts
<1> HIDE DEF k, n
<1>3. /\ front \in Seq(Headers) /\ Len(front) = k - 1
      /\ \A i \in 1..(k - 1) : front[i] = active[i]
  BY <1>1, <1>2
<1>4. /\ back \in Seq(Headers) /\ Len(back) = n - k
      /\ \A i \in 1..(n - k) : back[i] = active[k + i]
  <2>1. \A i \in (k + 1)..n : active[i] \in Headers
    BY <1>1, <1>2
  <2>2. /\ SubSeq(active, k + 1, n) \in Seq(Headers)
        /\ Len(SubSeq(active, k + 1, n)) = IF k + 1 <= n THEN n - (k + 1) + 1 ELSE 0
        /\ \A i \in 1 .. n - (k + 1) + 1 : SubSeq(active, k + 1, n)[i] = active[(k + 1) + i - 1]
    BY <1>1, <1>2, <2>1, SubSeqProperties
  <2>3. (IF k + 1 <= n THEN n - (k + 1) + 1 ELSE 0) = n - k /\ n - (k + 1) + 1 = n - k
    BY <1>1, <1>2
  <2>4. \A i \in 1..(n - k) : (k + 1) + i - 1 = k + i
    BY <1>1, <1>2
  <2>5. back \in Seq(Headers) /\ Len(back) = n - k
    BY <2>2, <2>3
  <2>6. \A i \in 1..(n - k) : back[i] = active[(k + 1) + i - 1]
    BY <2>2, <2>3
  <2> HIDE DEF back
  <2> QED
    BY <2>4, <2>5, <2>6
<1>5. active' = front \o back
  BY DEF RemoveRecord, k, n
<1> HIDE DEF front, back
<1>6. /\ active' \in Seq(Headers) /\ Len(active') = n - 1 /\ DOMAIN active' = 1..(n - 1)
      /\ \A i \in 1..(n - 1) : active'[i] = IF i < k THEN front[i] ELSE back[i - (k - 1)]
  <2>1. /\ front \o back \in Seq(Headers) /\ Len(front \o back) = (k - 1) + (n - k)
        /\ \A i \in 1 .. (k - 1) + (n - k) :
             (front \o back)[i] = IF i <= k - 1 THEN front[i] ELSE back[i - (k - 1)]
    BY <1>3, <1>4, ConcatProperties
  <2>2. (k - 1) + (n - k) = n - 1 /\ \A i \in 1..(n - 1) : i <= k - 1 <=> i < k
    BY <1>1, <1>2
  <2> QED
    BY <1>5, <2>1, <2>2
<1>7. \A i \in 1..(n - 1) : old(i) \in 1..n /\ old(i) # k /\ active'[i] = active[old(i)]
  <2> TAKE i \in 1..(n - 1)
  <2>1. CASE i < k
    <3>1. i \in 1..(k - 1) /\ i \in 1..n /\ i # k
      BY <1>1, <1>2, <2>1
    <3>2. active'[i] = active[i]
      BY <1>3, <1>6, <2>1, <3>1
    <3> QED
      BY <2>1, <3>1, <3>2
  <2>2. CASE ~(i < k)
    <3>1. i - (k - 1) \in 1..(n - k) /\ k + (i - (k - 1)) = i + 1
      BY <1>1, <1>2, <2>2
    <3>2. active'[i] = active[i + 1]
      BY <1>4, <1>6, <2>2, <3>1
    <3> QED
      BY <1>1, <1>2, <2>2, <3>2
  <2> QED
    BY <2>1, <2>2
<1>8. Live' = {r \in Live : r.payload_addr # p}
  <2>1. ASSUME NEW r \in Live' PROVE r \in Live /\ r.payload_addr # p
    <3>1. PICK i \in 1..(n - 1) : r = active'[i]
      BY <1>6 DEF Live
    <3>2. old(i) \in 1..n /\ old(i) # k /\ r = active[old(i)]
      BY <1>7, <3>1
    <3> HIDE DEF old
    <3> QED
      BY <1>1, <1>2, <3>2 DEF Records, Live
  <2>2. ASSUME NEW r \in Live, r.payload_addr # p PROVE r \in Live'
    <3>1. PICK j \in 1..n : r = active[j]
      BY <1>1 DEF Live
    <3>2. j # k
      BY <1>2, <2>2, <3>1
    <3> DEFINE i == IF j < k THEN j ELSE j - 1
    <3>3. i \in 1..(n - 1) /\ old(i) = j
      BY <1>1, <1>2, <3>2
    <3>4. active'[i] = r
      <4> HIDE DEF i, old
      <4> QED
        BY <1>7, <3>1, <3>3
    <3> HIDE DEF i
    <3> QED
      BY <1>6, <3>3, <3>4 DEF Live
  <2> QED
    BY <2>1, <2>2
<1>9. IsInjective(active')
  <2> SUFFICES ASSUME NEW i \in 1..(n - 1), NEW j \in 1..(n - 1), active'[i] = active'[j]
               PROVE  i = j
    BY <1>6 DEF IsInjective
  <2>1. old(i) = old(j)
    <3> HIDE DEF old
    <3> QED
      BY <1>1, <1>7 DEF ListSound, IsInjective
  <2> QED
    BY <1>1, <1>2, <2>1
<1> QED
  BY <1>6, <1>8, <1>9

LEMMA PlacedFacts ==
  ASSUME NEW h, Placed(h)
  PROVE  /\ h \in Headers
         /\ h.mapping_base \in Nat \ {0} /\ h.mapping_len \in Nat \ {0} /\ h.payload_addr \in Nat \ {0}
         /\ h.requested_size \in Nat /\ h.alignment \in Nat \ {0}
         /\ h.mapping_base < h.payload_addr
         /\ h.payload_addr < h.mapping_base + h.mapping_len
         /\ h.payload_addr - HEADER_SIZE >= h.mapping_base + RECORD_SIZE
         /\ h.payload_addr + h.requested_size <= h.mapping_base + h.mapping_len
         /\ h.payload_addr % h.alignment = 0 /\ MALLOC_ALIGNMENT <= h.alignment
<1>1. \A b \in Bases : b \in Nat \ {0}
  BY HeapAssumption DEF Word
<1>2. /\ h \in Headers /\ h.mapping_base \in Nat \ {0} /\ h.mapping_len \in Nat
      /\ h.payload_addr \in Nat /\ h.requested_size \in Nat /\ h.alignment \in Nat \ {0}
  BY <1>1 DEF Placed, Headers
<1> QED
  BY <1>2, SizesAssumption DEF Placed

(* Blocks in different mappings are different.                             *)
LEMMA PlacesApart ==
  ASSUME MappingsHeld, NEW g, NEW h, Placed(g), Placed(h),
         MapOf(g) \in mappings, MapOf(h) \in mappings, g.mapping_base # h.mapping_base
  PROVE  g.payload_addr # h.payload_addr
<1>1. ~Overlap(g.mapping_base, g.mapping_len, h.mapping_base, h.mapping_len)
  BY DEF MappingsHeld, MapOf
<1> QED
  BY <1>1, PlacedFacts DEF Overlap

LEMMA HolderFacts ==
  ASSUME HeapIInv
  PROVE  /\ \A r \in Live : /\ Placed(r) /\ MapOf(r) \in mappings
                            /\ r.payload_addr \in DOMAIN memory
         /\ \A u \in HeapThreads : Handling(u) =>
              /\ Placed(InHand(u)) /\ MapOf(InHand(u)) \in mappings
              /\ heap_pc[u] = "register" => InHand(u).payload_addr = heap_call[u].new
              /\ heap_pc[u] = "munmap" => InHand(u).payload_addr = heap_call[u].ptr
         /\ \A m \in mappings : m \in Regions
<1>1. \A r \in Live : Placed(r) /\ MapOf(r) \in mappings /\ r.payload_addr \in DOMAIN memory
  BY DEF HeapIInv, ListSound, MappingsHeld
<1>2. ASSUME NEW u \in HeapThreads, Handling(u)
      PROVE  /\ Placed(InHand(u)) /\ MapOf(InHand(u)) \in mappings
             /\ heap_pc[u] = "register" => InHand(u).payload_addr = heap_call[u].new
             /\ heap_pc[u] = "munmap" => InHand(u).payload_addr = heap_call[u].ptr
  <2>1. NewSound(u) /\ ClaimSound(u)
    BY DEF HeapIInv
  <2>2. CASE heap_pc[u] = "register"
    BY <1>2, <2>1, <2>2 DEF NewSound, InHand, HeapIInv, MappingsHeld
  <2>3. CASE heap_pc[u] = "munmap"
    BY <1>2, <2>1, <2>3 DEF ClaimSound, InHand, HeapIInv, MappingsHeld
  <2> QED
    BY <1>2, <2>2, <2>3 DEF Handling
<1>3. \A h : Placed(h) => MapOf(h) \in Regions
  BY PlacedFacts DEF MapOf, Regions
<1>4. \A m \in mappings : m \in Regions
  BY <1>1, <1>2, <1>3 DEF HeapIInv, HeapTypeOK, MappingsHeld
<1> QED
  BY <1>1, <1>2, <1>4

(* A mapping where the kernel has room is apart from all there are.        *)
LEMMA FreeFacts ==
  ASSUME HeapIInv, NEW n \in Regions, IsFree(n.base, n.len), NEW m \in mappings
  PROVE  /\ ~Overlap(n.base, n.len, m.base, m.len) /\ ~Overlap(m.base, m.len, n.base, n.len)
         /\ m.base # n.base
<1>1. m.base \in Nat /\ m.len \in Nat \ {0} /\ n.base \in Nat /\ n.len \in Nat \ {0}
  BY HolderFacts DEF Regions
<1>2. ~Overlap(n.base, n.len, m.base, m.len)
  BY DEF IsFree
<1> QED
  BY <1>1, <1>2 DEF Overlap

-----------------------------------------------------------------------------
(* Facts about a step of one thread                                        *)

LEMMA ThreadStep ==
  ASSUME HeapTypeOK, NEW t \in HeapThreads, NEW label \in HeapLabels, NEW c \in Calls,
         heap_pc' = [heap_pc EXCEPT ![t] = label],
         heap_call' = [heap_call EXCEPT ![t] = c]
  PROVE  /\ heap_pc' \in [HeapThreads -> HeapLabels] /\ heap_call' \in [HeapThreads -> Calls]
         /\ heap_pc'[t] = label /\ heap_call'[t] = c
         /\ \A u \in HeapThreads \ {t} : heap_pc'[u] = heap_pc[u] /\ heap_call'[u] = heap_call[u]
  BY DEF HeapTypeOK

(* What a thread knows stays true while the others leave its blocks alone. *)
LEMMA OtherThread ==
  ASSUME HeapIInv, NEW u \in HeapThreads,
         heap_pc'[u] = heap_pc[u], heap_call'[u] = heap_call[u],
         heap_pc[u] # "idle" => \A r \in Live :
           \/ r.payload_addr = heap_call[u].ptr
           \/ HasNew(u) /\ r.payload_addr = heap_call[u].new
           => r \in Live',
         Claims(u) =>
           /\ heap_call[u].ptr \in DOMAIN granted' <=> heap_call[u].ptr \in DOMAIN granted
           /\ heap_call[u].ptr \in DOMAIN granted =>
                granted'[heap_call[u].ptr] = granted[heap_call[u].ptr],
         HasNew(u) =>
           /\ heap_call[u].new \notin DOMAIN granted'
           /\ heap_call[u].new \in DOMAIN memory'
           /\ memory'[heap_call[u].new] = memory[heap_call[u].new]
  PROVE  /\ CallShape(u)' /\ ClaimSound(u)' /\ NewSound(u)'
         /\ HasNew(u)' <=> HasNew(u)
         /\ Claims(u)' <=> Claims(u)
         /\ Handling(u)' <=> Handling(u)
         /\ Handling(u) => InHand(u)' = InHand(u)
<1>1. CallShape(u) /\ ClaimSound(u) /\ NewSound(u)
  BY DEF HeapIInv
<1>2. /\ HasNew(u)' <=> HasNew(u)
      /\ Claims(u)' <=> Claims(u)
      /\ Handling(u)' <=> Handling(u)
  BY DEF HasNew, Claims, Handling
<1>3. Handling(u) => InHand(u)' = InHand(u)
  BY DEF InHand, Handling, HasNew
<1>4. CallShape(u)'
  BY <1>1 DEF CallShape
<1>5. ClaimSound(u)'
  BY <1>1, <1>2 DEF ClaimSound, Claims
<1>6. NewSound(u)'
  <2>1. HasNew(u) /\ heap_pc[u] \notin {"register", "fill"} =>
          Claims(u) /\ heap_call[u].op = "release"
    BY DEF HasNew, Claims
  <2>2. HasNew(u) /\ heap_pc[u] \notin {"register", "fill"} =>
          heap_call[u].ptr \in DOMAIN granted
    BY <1>1, <2>1 DEF ClaimSound
  <2>3. heap_pc[u] \in {"register", "fill"} => HasNew(u)
    BY DEF HasNew
  <2>4. HasNew(u) => heap_pc[u] # "idle"
    BY DEF HasNew
  <2> QED
    BY <1>1, <1>2, <2>1, <2>2, <2>3, <2>4 DEF NewSound
<1> QED
  BY <1>2, <1>3, <1>4, <1>5, <1>6

(* The calls stay apart when the one that moves is.                        *)
LEMMA ApartStep ==
  ASSUME HeapIInv, NEW t \in HeapThreads,
         \A u \in HeapThreads \ {t} :
           /\ heap_pc'[u] = heap_pc[u] /\ heap_call'[u] = heap_call[u]
           /\ heap_pc'[t] # "idle" /\ heap_pc[u] # "idle" /\ heap_call'[t].ptr # Null =>
                heap_call'[t].ptr # heap_call[u].ptr
           /\ HasNew(t)' /\ HasNew(u) => heap_call'[t].new # heap_call[u].new
           /\ HasNew(t)' /\ Claims(u) => heap_call'[t].new # heap_call[u].ptr
           /\ Claims(t)' /\ HasNew(u) => heap_call'[t].ptr # heap_call[u].new,
         HasNew(t)' /\ Claims(t)' => heap_call'[t].new # heap_call'[t].ptr
  PROVE  CallsApart'
<1>1. \A u \in HeapThreads \ {t} : (HasNew(u)' <=> HasNew(u)) /\ (Claims(u)' <=> Claims(u))
  BY DEF HasNew, Claims
<1>2. CallsApart
  BY DEF HeapIInv
<1> SUFFICES ASSUME NEW x \in HeapThreads, NEW y \in HeapThreads
             PROVE  /\ x # y /\ heap_pc'[x] # "idle" /\ heap_pc'[y] # "idle"
                         /\ heap_call'[x].ptr # Null =>
                         heap_call'[x].ptr # heap_call'[y].ptr
                    /\ x # y /\ HasNew(x)' /\ HasNew(y)' =>
                         heap_call'[x].new # heap_call'[y].new
                    /\ HasNew(x)' /\ Claims(y)' => heap_call'[x].new # heap_call'[y].ptr
  BY DEF CallsApart
<1>3. CASE x = t /\ y = t
  BY <1>3
<1>4. CASE x = t /\ y # t
  BY <1>1, <1>4
<1>5. CASE x # t /\ y = t
  BY <1>1, <1>5
<1>6. CASE x # t /\ y # t
  BY <1>1, <1>2, <1>6 DEF CallsApart
<1> QED
  BY <1>3, <1>4, <1>5, <1>6

\* Mappings stay as they are, or the kernel keeps one that it just made.
KeptOrLost ==
  \/ UNCHANGED <<mappings, refused>>
  \/ \E m \in Regions : /\ IsFree(m.base, m.len)
                        /\ mappings' = mappings \cup {m}
                        /\ refused' = refused \cup {m}

(* The holders of the mappings stay as they are.                           *)
LEMMA HeldKept ==
  ASSUME HeapIInv, KeptOrLost, Live' = Live,
         \A u \in HeapThreads : /\ Handling(u)' <=> Handling(u)
                                /\ Handling(u) => InHand(u)' = InHand(u)
  PROVE  MappingsHeld' /\ refused' \subseteq Regions
<1>1. {MapOf(InHand(t))' : t \in {u \in HeapThreads : Handling(u)'}}
        = {MapOf(InHand(t)) : t \in {u \in HeapThreads : Handling(u)}}
  BY DEF MapOf
<1>2. {MapOf(r) : r \in Live}' = {MapOf(r) : r \in Live}
  BY DEF MapOf
<1>3. MappingsHeld /\ refused \subseteq Regions
  BY DEF HeapIInv, HeapTypeOK
<1>4. CASE UNCHANGED <<mappings, refused>>
  BY <1>1, <1>2, <1>3, <1>4 DEF MappingsHeld, MapOf
<1>5. ASSUME NEW n \in Regions, IsFree(n.base, n.len),
             mappings' = mappings \cup {n}, refused' = refused \cup {n}
      PROVE  MappingsHeld'
  <2>1. mappings' = {MapOf(r) : r \in Live'}
                      \cup {MapOf(InHand(t))' : t \in {u \in HeapThreads : Handling(u)'}}
                      \cup refused'
    BY <1>1, <1>3, <1>5 DEF MappingsHeld
  <2>2. \A x, y \in mappings' : x # y => ~Overlap(x.base, x.len, y.base, y.len)
    BY <1>3, <1>5, FreeFacts DEF MappingsHeld
  <2>3. /\ \A r \in Live : r.mapping_base # n.base
        /\ \A t \in HeapThreads : Handling(t) => InHand(t).mapping_base # n.base
    BY <1>5, HolderFacts, FreeFacts DEF MapOf
  <2>4. \A x \in refused' :
          /\ \A r \in Live' : r.mapping_base # x.base
          /\ \A t \in HeapThreads : Handling(t)' => InHand(t)'.mapping_base # x.base
    BY <1>3, <1>5, <2>3 DEF MappingsHeld
  <2>5. \A t \in HeapThreads : Handling(t)' =>
          /\ \A r \in Live' : r.mapping_base # InHand(t)'.mapping_base
          /\ \A u \in HeapThreads : u # t /\ Handling(u)' =>
               InHand(u)'.mapping_base # InHand(t)'.mapping_base
    BY <1>3 DEF MappingsHeld
  <2> QED
    BY <2>1, <2>2, <2>4, <2>5 DEF MappingsHeld, MapOf
<1> QED
  BY <1>3, <1>4, <1>5 DEF KeptOrLost

(* The header that a mapping gets when the payload could be placed.        *)
LEMMA PlacementFacts ==
  ASSUME NEW base \in Bases, NEW size \in Nat, NEW alignment \in Nat \ {0},
         MALLOC_ALIGNMENT <= alignment,
         payload_addr_in(base, mapping_len_for(size, alignment), size, alignment) # None
  PROVE  LET len == mapping_len_for(size, alignment)
             payload == payload_addr_in(base, len, size, alignment)
             h == build_allocation_header(payload, base, len, size, alignment)
         IN /\ Placed(h) /\ h.mapping_base = base /\ h.mapping_len = len
            /\ h.payload_addr = payload /\ h.requested_size = size /\ h.alignment = alignment
<1> USE SizesAssumption
<1> DEFINE len == mapping_len_for(size, alignment)
           payload == payload_addr_in(base, len, size, alignment)
           h == build_allocation_header(payload, base, len, size, alignment)
<1>1. base \in Nat
  BY HeapAssumption DEF Word
<1>2. len # None
  BY DEF payload_addr_in, checked_add
<1>3. len \in Nat
  BY <1>2, LengthFacts
<1>4. /\ payload \in Nat /\ base + RECORD_SIZE + HEADER_SIZE <= payload
      /\ payload + payload_size_for(size) <= base + len /\ payload % alignment = 0
  BY <1>1, <1>3, PayloadFacts
<1>5. payload_size_for(size) \in Nat \ {0} /\ size <= payload_size_for(size)
  BY DEF payload_size_for, MIN_NONZERO_ALLOCATION
<1> HIDE DEF len, payload
<1>6. h = [mapping_base |-> base, mapping_len |-> len, payload_addr |-> payload,
           requested_size |-> size, alignment |-> alignment,
           cookie |-> <<base, len, payload, size, alignment>>]
  BY DEF build_allocation_header, allocation_cookie
<1>7. h \in Headers
  BY <1>1, <1>3, <1>4, <1>6 DEF Headers
<1>8. /\ h.mapping_base = base /\ h.mapping_len = len /\ h.payload_addr = payload
      /\ h.requested_size = size /\ h.alignment = alignment
  BY <1>6
<1> HIDE DEF h
<1>9. Placed(h)
  BY <1>1, <1>3, <1>4, <1>5, <1>7, <1>8 DEF Placed
<1> QED
  BY <1>8, <1>9 DEF len, payload, h

(* A step that only moves one thread's call along, or ends it: it holds no  *)
(* mapping before or after; and a block it gives up nobody else refers to.  *)
LEMMA CallStep ==
  ASSUME HeapIInv, NEW t \in HeapThreads, NEW label \in HeapLabels, NEW c \in Calls,
         heap_pc' = [heap_pc EXCEPT ![t] = label],
         heap_call' = [heap_call EXCEPT ![t] = c],
         UNCHANGED <<active, memory>>, KeptOrLost,
         \/ UNCHANGED granted
         \/ \E p : ~Passed(p) /\ granted' = Without(granted, p),
         ~Handling(t), ~Handling(t)',
         HasNew(t)' => HasNew(t) /\ c.new = heap_call[t].new,
         HasNew(t)' /\ Claims(t)' => Claims(t),
         \/ label = "idle" \/ c.ptr = Null \/ ~Passed(c.ptr)
         \/ /\ heap_pc[t] # "idle" /\ c.ptr = heap_call[t].ptr
            /\ Claims(t)' => Claims(t),
         CallShape(t)', ClaimSound(t)', NewSound(t)'
  PROVE  HeapIInv'
<1>1. /\ heap_pc' \in [HeapThreads -> HeapLabels] /\ heap_call' \in [HeapThreads -> Calls]
      /\ heap_pc'[t] = label /\ heap_call'[t] = c
      /\ \A u \in HeapThreads \ {t} : heap_pc'[u] = heap_pc[u] /\ heap_call'[u] = heap_call[u]
  BY ThreadStep DEF HeapIInv
<1>2. Live' = Live
  BY DEF Live
<1>3. /\ DOMAIN granted' \subseteq DOMAIN granted
      /\ \A q \in DOMAIN granted' : granted'[q] = granted[q]
      /\ \A q : Passed(q) => (q \in DOMAIN granted' <=> q \in DOMAIN granted)
      /\ granted' \in [DOMAIN granted' -> Grants]
  <2>1. granted \in [DOMAIN granted -> Grants]
    BY DEF HeapIInv, HeapTypeOK
  <2>2. CASE UNCHANGED granted
    BY <2>1, <2>2
  <2>3. ASSUME NEW p, ~Passed(p), granted' = Without(granted, p)
        PROVE  <1>3!:
    <3>1. granted' = [q \in DOMAIN granted \ {p} |-> granted[q]]
      BY <2>3, WithoutFacts
    <3>2. DOMAIN granted' = DOMAIN granted \ {p} /\ \A q \in DOMAIN granted' : granted'[q] = granted[q]
      BY <3>1
    <3>3. \A q : Passed(q) => q # p
      BY <2>3
    <3>4. granted' \in [DOMAIN granted' -> Grants]
      BY <2>1, <3>1, <3>2
    <3> QED
      BY <3>2, <3>3, <3>4
  <2> QED
    BY <2>2, <2>3
<1>4. ASSUME NEW u \in HeapThreads, heap_pc[u] # "idle"
      PROVE  Passed(heap_call[u].ptr) /\ Passed(heap_call[u].new)
  BY <1>4 DEF Passed
<1>5. ASSUME NEW u \in HeapThreads \ {t}
      PROVE  /\ CallShape(u)' /\ ClaimSound(u)' /\ NewSound(u)'
             /\ HasNew(u)' <=> HasNew(u)
             /\ Claims(u)' <=> Claims(u)
             /\ Handling(u)' <=> Handling(u)
             /\ Handling(u) => InHand(u)' = InHand(u)
  <2>1. Claims(u) => heap_pc[u] # "idle"
    BY DEF Claims
  <2>2. HasNew(u) => heap_call[u].new \notin DOMAIN granted
    BY DEF HeapIInv, NewSound
  <2>3. HasNew(u) => heap_call[u].new \in DOMAIN memory
    <3>1. heap_pc[u] = "register" => heap_call[u].new \in DOMAIN memory
      BY DEF HeapIInv, NewSound
    <3>2. HasNew(u) /\ heap_pc[u] # "register" => heap_call[u].new \in DOMAIN memory
      BY DEF HeapIInv, NewSound, ListSound
    <3> QED
      BY <3>1, <3>2
  <2>4. Claims(u) =>
           /\ heap_call[u].ptr \in DOMAIN granted' <=> heap_call[u].ptr \in DOMAIN granted
           /\ heap_call[u].ptr \in DOMAIN granted =>
                granted'[heap_call[u].ptr] = granted[heap_call[u].ptr]
    BY <1>3, <1>4, <2>1
  <2> QED
    BY <1>1, <1>2, <1>3, <2>2, <2>3, <2>4, OtherThread
<1>6. MappingsHeld' /\ refused' \subseteq Regions
  BY <1>2, <1>5, HeldKept
<1>7. HeapTypeOK'
  BY <1>1, <1>3, <1>6 DEF HeapIInv, HeapTypeOK
<1>8. ListSound'
  BY <1>2 DEF HeapIInv, ListSound
<1>9. GrantsRecorded'
  BY <1>2, <1>3 DEF HeapIInv, GrantsRecorded
<1>10. CallsApart'
  <2>1. CallsApart
    BY DEF HeapIInv
  <2>2. \A u \in HeapThreads : HasNew(u) => heap_pc[u] # "idle"
    BY DEF HasNew
  <2>3. \A u \in HeapThreads : Claims(u) => heap_pc[u] # "idle"
    BY DEF Claims
  <2>4. Claims(t)' => label # "idle" /\ c.ptr # Null
    <3>1. ASSUME Claims(t)' PROVE \E r \in Live : Placed(r) /\ r.payload_addr = c.ptr
      BY <1>1, <1>2, <3>1 DEF ClaimSound, HeapIInv, ListSound
    <3>2. Claims(t)' => label # "idle"
      BY <1>1 DEF Claims
    <3> QED
      BY <3>1, <3>2, PlacedFacts DEF Null
  <2>5. ASSUME NEW u \in HeapThreads \ {t}
        PROVE  /\ label # "idle" /\ heap_pc[u] # "idle" /\ c.ptr # Null => c.ptr # heap_call[u].ptr
               /\ Claims(t)' /\ HasNew(u) => c.ptr # heap_call[u].new
    <3>1. CASE ~Passed(c.ptr)
      BY <1>4, <2>2, <3>1
    <3>2. CASE label = "idle" \/ c.ptr = Null
      BY <2>4, <3>2
    <3>3. CASE heap_pc[t] # "idle" /\ c.ptr = heap_call[t].ptr /\ (Claims(t)' => Claims(t))
      BY <2>1, <3>3 DEF CallsApart
    <3> QED
      BY <3>1, <3>2, <3>3
  <2>6. ASSUME NEW u \in HeapThreads, HasNew(t)'
        PROVE  /\ u # t /\ HasNew(u) => c.new # heap_call[u].new
               /\ Claims(u) => c.new # heap_call[u].ptr
    BY <2>1, <2>6 DEF CallsApart
  <2>7. HasNew(t)' /\ Claims(t)' => c.new # c.ptr
    <3>1. ASSUME HasNew(t)', Claims(t)' PROVE c.new # c.ptr
      <4>1. HasNew(t) /\ Claims(t) /\ c.new = heap_call[t].new /\ heap_pc[t] # "idle"
        BY <2>2, <3>1
      <4>2. c.ptr = heap_call[t].ptr \/ ~Passed(c.ptr)
        BY <2>4, <3>1
      <4> QED
        BY <1>4, <2>6, <3>1, <4>1, <4>2
    <3> QED
      BY <3>1
  <2> QED
    BY <1>1, <2>5, <2>6, <2>7, ApartStep
<1> QED
  BY <1>1, <1>5, <1>6, <1>7, <1>8, <1>9, <1>10 DEF HeapIInv

-----------------------------------------------------------------------------
(* The steps that only move a call along                                   *)

LEMMA ReturnStep ==
  ASSUME HeapIInv, NEW t \in HeapThreads, HeapReturn(t), ~Handling(t),
         UNCHANGED <<active, memory, granted>>, KeptOrLost
  PROVE  HeapIInv'
<1>1. NoHeapCall \in Calls /\ "idle" \in HeapLabels
  BY DEF NoHeapCall, Calls, Null, None, HeapLabels
<1>2. heap_pc'[t] = "idle" /\ heap_call'[t] = NoHeapCall
  BY <1>1, ThreadStep DEF HeapReturn, HeapIInv
<1>3. ~Handling(t)' /\ ~HasNew(t)' /\ ~Claims(t)'
  BY <1>2 DEF Handling, HasNew, Claims
<1>4. CallShape(t)' /\ ClaimSound(t)' /\ NewSound(t)'
  BY <1>2, <1>3 DEF CallShape, ClaimSound, NewSound
<1> QED
  BY <1>1, <1>3, <1>4, CallStep DEF HeapReturn

LEMMA AllocateStep ==
  ASSUME HeapIInv, NEW t \in HeapThreads, NEW c \in Calls, Allocate(t, c),
         UNCHANGED <<mappings, active, memory, granted, refused>>,
         \/ heap_pc[t] = "idle" /\ c.op \in {"plain", "calloc"} /\ c.ptr = Null
         \/ /\ heap_pc[t] = "read" /\ heap_call[t].op = "realloc"
            /\ c = [heap_call[t] EXCEPT !.alignment = heap_call[t].header.alignment]
  PROVE  HeapIInv'
<1>1. ~Handling(t)
  BY DEF Handling
<1>2. CASE HeapReturn(t)
  BY <1>1, <1>2, ReturnStep DEF KeptOrLost
<1>3. CASE ~HeapReturn(t)
  <2>1. /\ heap_pc' = [heap_pc EXCEPT ![t] = "mmap"]
        /\ heap_call' = [heap_call EXCEPT ![t] = c]
        /\ is_power_of_two(c.alignment)
        /\ mapping_len_for(c.size, effective_allocation_alignment(c.alignment)) # None
    BY <1>3 DEF Allocate, HeapFail, HeapGoto, has_allocator_alignment_shape
  <2>2. "mmap" \in HeapLabels
    BY DEF HeapLabels
  <2>3. heap_pc'[t] = "mmap" /\ heap_call'[t] = c
    BY <2>1, <2>2, ThreadStep DEF HeapIInv
  <2>4. ~Handling(t)' /\ ~HasNew(t)'
    BY <2>3 DEF Handling, HasNew
  <2>5. heap_call[t] \in Calls
    BY DEF HeapIInv, HeapTypeOK
  <2>6. CASE heap_pc[t] = "idle" /\ c.op \in {"plain", "calloc"} /\ c.ptr = Null
    <3>1. ~Claims(t)'
      BY <2>3, <2>6 DEF Claims
    <3>2. CallShape(t)' /\ ClaimSound(t)' /\ NewSound(t)'
      BY <2>1, <2>3, <2>4, <2>6, <3>1 DEF CallShape, ClaimSound, NewSound
    <3> QED
      BY <1>1, <2>1, <2>2, <2>4, <2>6, <3>1, <3>2, CallStep DEF KeptOrLost
  <2>7. CASE /\ heap_pc[t] = "read" /\ heap_call[t].op = "realloc"
             /\ c = [heap_call[t] EXCEPT !.alignment = heap_call[t].header.alignment]
    <3>1. /\ c.op = "realloc" /\ c.ptr = heap_call[t].ptr /\ c.header = heap_call[t].header
          /\ c.alignment = c.header.alignment
      BY <2>5, <2>7 DEF Calls
    <3>2. Claims(t)
      BY <2>7 DEF Claims
    <3>3. Live' = Live
      BY DEF Live
    <3>4. ClaimSound(t)'
      BY <2>3, <2>7, <3>1, <3>2, <3>3 DEF ClaimSound, HeapIInv
    <3>5. CallShape(t)' /\ NewSound(t)'
      BY <2>1, <2>3, <2>4, <3>1 DEF CallShape, NewSound
    <3> QED
      BY <1>1, <2>1, <2>2, <2>4, <2>7, <3>1, <3>2, <3>4, <3>5, CallStep DEF KeptOrLost
  <2> QED
    BY <2>6, <2>7
<1> QED
  BY <1>2, <1>3

LEMMA BeginStep ==
  ASSUME HeapIInv, NEW t \in HeapThreads, heap_pc[t] = "idle",
         NEW c \in Calls, BeginValidated(t, c), ~Passed(c.ptr), c.ptr # Null,
         c.op \in {"free", "usable_size", "realloc"},
         UNCHANGED <<mappings, active, memory, refused>>,
         c.op = "free" => c.ptr \in DOMAIN granted /\ granted' = Without(granted, c.ptr),
         c.op # "free" => UNCHANGED granted,
         c.op = "realloc" => c.ptr \in OwnedBy(t)
  PROVE  HeapIInv'
<1>1. /\ heap_pc' = [heap_pc EXCEPT ![t] = "lookup"]
      /\ heap_call' = [heap_call EXCEPT ![t] = c]
  BY DEF BeginValidated, HeapGoto
<1>2. "lookup" \in HeapLabels
  BY DEF HeapLabels
<1>3. heap_pc'[t] = "lookup" /\ heap_call'[t] = c
  BY <1>1, <1>2, ThreadStep DEF HeapIInv
<1>4. ~Handling(t) /\ ~Handling(t)' /\ ~HasNew(t)'
  BY <1>3 DEF Handling, HasNew
<1>5. Live' = Live
  BY DEF Live
<1>6. c.ptr \in DOMAIN granted => \E r \in Live : r.payload_addr = c.ptr
  BY DEF HeapIInv, GrantsRecorded
<1>7. c.op = "free" => c.ptr \notin DOMAIN granted'
  BY WithoutFacts
<1>8. ClaimSound(t)'
  BY <1>3, <1>5, <1>6, <1>7 DEF ClaimSound, Claims, OwnedBy
<1>9. CallShape(t)' /\ NewSound(t)'
  BY <1>3, <1>4 DEF CallShape, NewSound
<1> QED
  BY <1>1, <1>2, <1>4, <1>8, <1>9, CallStep DEF KeptOrLost

LEMMA GrantedFacts ==
  ASSUME HeapIInv, NEW p \in DOMAIN granted
  PROVE  /\ p \in Nat \ {0} /\ granted[p] \in Grants
         /\ \E r \in Live :
              /\ Placed(r) /\ r.payload_addr = p /\ p \in DOMAIN memory
              /\ r.requested_size = granted[p].size
              /\ r.alignment % granted[p].alignment = 0
<1>1. granted[p] \in Grants
  BY DEF HeapIInv, HeapTypeOK
<1>2. PICK r \in Live : /\ r.payload_addr = p /\ r.requested_size = granted[p].size
                        /\ r.alignment % granted[p].alignment = 0
  BY DEF HeapIInv, GrantsRecorded
<1>3. Placed(r) /\ p \in DOMAIN memory
  BY <1>2 DEF HeapIInv, ListSound
<1> QED
  BY <1>1, <1>2, <1>3, PlacedFacts

LEMMA AllocateCallStep ==
  ASSUME HeapIInv, NEW t \in HeapThreads, AllocateCall(t)
  PROVE  HeapIInv'
<1>1. heap_pc[t] = "idle" /\ UNCHANGED <<mappings, active, memory, granted, refused>>
  BY DEF AllocateCall, HeapIdle
<1>2. ~Handling(t)
  BY <1>1 DEF Handling
<1>3. ASSUME NEW error, HeapFail(t, error) PROVE HeapIInv'
  BY <1>1, <1>2, <1>3, ReturnStep DEF HeapFail, KeptOrLost
<1>4. ASSUME NEW op \in {"plain", "calloc"}, NEW size \in Nat, NEW alignment \in Nat,
             Allocate(t, Request(op, size, alignment))
      PROVE  HeapIInv'
  <2>1. /\ Request(op, size, alignment) \in Calls
        /\ Request(op, size, alignment).op = op /\ Request(op, size, alignment).ptr = Null
    BY DEF Request, NoHeapCall, Calls, Null, None
  <2> QED
    BY <1>1, <1>4, <2>1, AllocateStep
<1>5. PICK size \in Requests :
       \/ malloc_impl(t, size)
       \/ \E nmemb \in {1, 7} : calloc_impl(t, nmemb, size)
       \/ valloc_impl(t, size)
       \/ pvalloc_impl(t, size)
       \/ \E alignment \in Alignments : \/ aligned_alloc_impl(t, alignment, size)
                                        \/ memalign_impl(t, alignment, size)
                                        \/ posix_memalign_impl(t, alignment, size)
  BY DEF AllocateCall
<1>6. size \in Nat /\ \A alignment \in Alignments : alignment \in Nat
  BY HeapAssumption DEF Word
<1>7. MALLOC_ALIGNMENT \in Nat /\ PAGE_SIZE \in Nat \ {0}
  BY SizesAssumption
<1>8. CASE malloc_impl(t, size)
  BY <1>4, <1>6, <1>7, <1>8 DEF malloc_impl
<1>9. ASSUME NEW nmemb \in {1, 7}, calloc_impl(t, nmemb, size) PROVE HeapIInv'
  <2>1. nmemb * size \in Nat
    BY <1>6
  <2>2. checked_calloc_size(nmemb, size) \in Nat \cup {None}
    BY <2>1 DEF checked_calloc_size, checked_mul
  <2> QED
    BY <1>3, <1>4, <1>7, <1>9, <2>2 DEF calloc_impl
<1>10. ASSUME NEW s \in Nat, valloc_impl(t, s) PROVE HeapIInv'
  BY <1>4, <1>7, <1>10 DEF valloc_impl
<1>11. CASE pvalloc_impl(t, size)
  <2>1. align_up(size, PAGE_SIZE) \in Nat \cup {None}
    BY <1>6, <1>7, CheckedTypes
  <2> QED
    BY <1>3, <1>7, <1>10, <1>11, <2>1 DEF pvalloc_impl
<1>12. ASSUME NEW alignment \in Alignments,
              \/ aligned_alloc_impl(t, alignment, size)
              \/ memalign_impl(t, alignment, size)
              \/ posix_memalign_impl(t, alignment, size)
       PROVE  HeapIInv'
  BY <1>3, <1>4, <1>6, <1>12 DEF aligned_alloc_impl, memalign_impl, posix_memalign_impl
<1> QED
  BY <1>5, <1>6, <1>8, <1>9, <1>10, <1>11, <1>12

LEMMA ReleaseCallStep ==
  ASSUME HeapIInv, NEW t \in HeapThreads, ReleaseCall(t)
  PROVE  HeapIInv'
<1>1. heap_pc[t] = "idle" /\ UNCHANGED <<mappings, active, memory, refused>>
  BY DEF ReleaseCall, HeapIdle
<1>2. PICK p \in OwnedBy(t) :
        /\ ~Passed(p)
        /\ free_impl(t, p) \/ realloc_impl(t, p, 0)
        /\ granted' = Without(granted, p)
  BY DEF ReleaseCall
<1>3. p \in DOMAIN granted /\ p \in Nat /\ p # Null
  BY GrantedFacts DEF OwnedBy, Null
<1>4. free_impl(t, p)
  BY <1>2, <1>3 DEF realloc_impl
<1> DEFINE c == [NoHeapCall EXCEPT !.op = "free", !.ptr = p]
<1>5. BeginValidated(t, c)
  BY <1>3, <1>4 DEF free_impl
<1>6. c \in Calls /\ c.op = "free" /\ c.ptr = p
  BY <1>3 DEF NoHeapCall, Calls, Null, None
<1> HIDE DEF c
<1> QED
  BY <1>1, <1>2, <1>3, <1>5, <1>6, BeginStep

LEMMA ResizeCallStep ==
  ASSUME HeapIInv, NEW t \in HeapThreads, ResizeCall(t)
  PROVE  HeapIInv'
<1>1. heap_pc[t] = "idle" /\ UNCHANGED <<mappings, active, memory, granted, refused>>
  BY DEF ResizeCall, HeapIdle
<1>2. ~Handling(t)
  BY <1>1 DEF Handling
<1>3. PICK p \in OwnedBy(t), size \in Requests \ {0} :
        ~Passed(p) /\ \/ realloc_impl(t, p, size)
                      \/ reallocarray_impl(t, p, 7, size)
  BY DEF ResizeCall
<1>4. p \in DOMAIN granted /\ p \in Nat /\ p # Null
  BY GrantedFacts DEF OwnedBy, Null
<1>5. size \in Nat \ {0}
  BY HeapAssumption DEF Word
<1>6. ASSUME NEW s \in Nat \ {0}, realloc_impl(t, p, s)
      PROVE  HeapIInv'
  <2>1. CASE HeapFail(t, "ENOMEM")
    BY <1>1, <1>2, <2>1, ReturnStep DEF HeapFail, KeptOrLost
  <2> DEFINE c == [NoHeapCall EXCEPT !.op = "realloc", !.ptr = p, !.size = s]
  <2>2. CASE BeginValidated(t, c)
    <3>1. c \in Calls /\ c.op = "realloc" /\ c.ptr = p
      BY <1>4 DEF NoHeapCall, Calls, Null, None
    <3> HIDE DEF c
    <3> QED
      BY <1>1, <1>3, <1>4, <2>2, <3>1, BeginStep
  <2> QED
    BY <1>4, <1>6, <2>1, <2>2 DEF realloc_impl
<1>7. CASE reallocarray_impl(t, p, 7, size)
  <2>1. 7 * size \in Nat \ {0}
    BY <1>5
  <2>2. checked_calloc_size(7, size) \in (Nat \ {0}) \cup {None}
    BY <2>1 DEF checked_calloc_size, checked_mul
  <2>3. CASE HeapFail(t, "ENOMEM")
    BY <1>1, <1>2, <2>3, ReturnStep DEF HeapFail, KeptOrLost
  <2> QED
    BY <1>6, <1>7, <2>2, <2>3 DEF reallocarray_impl
<1> QED
  BY <1>3, <1>5, <1>6, <1>7

LEMMA QueryCallStep ==
  ASSUME HeapIInv, NEW t \in HeapThreads, QueryCall(t)
  PROVE  HeapIInv'
<1>1. heap_pc[t] = "idle" /\ UNCHANGED <<mappings, active, memory, granted, refused>>
  BY DEF QueryCall, HeapIdle
<1>2. ~Handling(t)
  BY <1>1 DEF Handling
<1>3. PICK p \in DOMAIN granted \cup {Unknown} : ~Passed(p) /\ malloc_usable_size_impl(t, p)
  BY DEF QueryCall
<1>4. p \in Nat \cup {Unknown}
  BY <1>3, GrantedFacts
<1>5. CASE p = Null
  BY <1>1, <1>2, <1>3, <1>5, ReturnStep DEF malloc_usable_size_impl, KeptOrLost
<1>6. CASE p # Null
  <2> DEFINE c == [NoHeapCall EXCEPT !.op = "usable_size", !.ptr = p]
  <2>1. c \in Calls /\ c.op = "usable_size" /\ c.ptr = p
    BY <1>4 DEF NoHeapCall, Calls, Null, None
  <2>2. BeginValidated(t, c)
    BY <1>3, <1>6 DEF malloc_usable_size_impl
  <2> HIDE DEF c
  <2> QED
    BY <1>1, <1>3, <1>6, <2>1, <2>2, BeginStep
<1> QED
  BY <1>5, <1>6

LEMMA LookupStep ==
  ASSUME HeapIInv, NEW t \in HeapThreads, LookupRecord(t)
  PROVE  HeapIInv'
<1>1. heap_pc[t] = "lookup" /\ UNCHANGED <<mappings, active, memory, granted, refused>>
  BY DEF LookupRecord
<1>2. ~Handling(t)
  BY <1>1 DEF Handling
<1>3. CASE Records(heap_call[t].ptr) = {}
  BY <1>1, <1>2, <1>3, ReturnStep DEF LookupRecord, KeptOrLost
<1>4. CASE Records(heap_call[t].ptr) # {}
  <2> DEFINE r == active[FirstRecord(heap_call[t].ptr)]
             c == [heap_call[t] EXCEPT !.header = r]
  <2>1. r \in Live /\ r.payload_addr = heap_call[t].ptr
    BY <1>4, FirstRecordFacts DEF HeapIInv
  <2>2. r \in Headers
    BY <2>1 DEF HeapIInv, ListSound, Placed
  <2>3. heap_pc' = [heap_pc EXCEPT ![t] = "read"] /\ heap_call' = [heap_call EXCEPT ![t] = c]
    BY <1>4 DEF LookupRecord, HeapGoto
  <2>4. heap_call[t] \in Calls
    BY DEF HeapIInv, HeapTypeOK
  <2> HIDE DEF r
  <2>5. /\ c \in Calls /\ c.op = heap_call[t].op /\ c.ptr = heap_call[t].ptr /\ c.header = r
        /\ c.new = heap_call[t].new /\ c.size = heap_call[t].size
    BY <2>2, <2>4 DEF Calls
  <2> HIDE DEF c
  <2>6. "read" \in HeapLabels
    BY DEF HeapLabels
  <2>7. heap_pc'[t] = "read" /\ heap_call'[t] = c
    BY <2>3, <2>5, <2>6, ThreadStep DEF HeapIInv
  <2>8. ~Handling(t)' /\ (HasNew(t)' <=> HasNew(t)) /\ (Claims(t)' <=> Claims(t))
    BY <1>1, <2>5, <2>7 DEF Handling, HasNew, Claims
  <2>9. Live' = Live
    BY <1>1 DEF Live
  <2>10. CallShape(t) /\ ClaimSound(t) /\ NewSound(t)
    BY DEF HeapIInv
  <2>11. CallShape(t)'
    BY <1>1, <2>5, <2>7, <2>10 DEF CallShape
  <2>12. ClaimSound(t)'
    BY <1>1, <2>1, <2>5, <2>7, <2>8, <2>9, <2>10 DEF ClaimSound
  <2>13. NewSound(t)'
    BY <1>1, <2>5, <2>7, <2>8, <2>9, <2>10 DEF NewSound
  <2> QED
    BY <1>1, <1>2, <2>3, <2>5, <2>6, <2>8, <2>11, <2>12, <2>13, CallStep DEF KeptOrLost
<1> QED
  BY <1>3, <1>4

LEMMA ReadStep ==
  ASSUME HeapIInv, NEW t \in HeapThreads, ReadHeader(t)
  PROVE  HeapIInv'
<1>1. heap_pc[t] = "read" /\ UNCHANGED <<mappings, active, memory, granted, refused>>
  BY DEF ReadHeader
<1>2. ~Handling(t)
  BY <1>1 DEF Handling
<1>3. CallShape(t) /\ ClaimSound(t) /\ NewSound(t)
  BY DEF HeapIInv
<1>4. CASE HeapReturn(t)
  BY <1>1, <1>2, <1>4, ReturnStep DEF KeptOrLost
<1> DEFINE c == heap_call[t]
<1>5. c \in Calls
  BY DEF HeapIInv, HeapTypeOK
<1>6. CASE Allocate(t, [c EXCEPT !.alignment = c.header.alignment]) /\ c.op = "realloc"
  <2>1. c.header \in Headers
    BY <1>1, <1>3 DEF ClaimSound, HeapIInv, ListSound, Placed
  <2>2. [c EXCEPT !.alignment = c.header.alignment] \in Calls
    BY <1>5, <2>1 DEF Calls, Headers
  <2> QED
    BY <1>1, <1>6, <2>2, AllocateStep
<1>7. CASE HeapGoto(t, "unregister") /\ UNCHANGED heap_call /\ c.op \notin {"usable_size", "realloc"}
  <2>1. "unregister" \in HeapLabels
    BY DEF HeapLabels
  <2>2. heap_call' = [heap_call EXCEPT ![t] = c]
    BY <1>7 DEF HeapIInv, HeapTypeOK
  <2>3. heap_pc' = [heap_pc EXCEPT ![t] = "unregister"]
    BY <1>7 DEF HeapGoto
  <2>4. heap_pc'[t] = "unregister" /\ heap_call'[t] = c
    BY <1>5, <2>1, <2>2, <2>3, ThreadStep DEF HeapIInv
  <2>5. ~Handling(t)' /\ (HasNew(t)' <=> HasNew(t)) /\ (Claims(t)' <=> Claims(t))
    BY <1>1, <2>4 DEF Handling, HasNew, Claims
  <2>6. Live' = Live
    BY <1>1 DEF Live
  <2>7. CallShape(t)'
    BY <1>1, <1>3, <1>7, <2>4 DEF CallShape
  <2>8. ClaimSound(t)'
    BY <1>1, <1>3, <2>4, <2>5, <2>6 DEF ClaimSound
  <2>9. NewSound(t)'
    BY <1>1, <1>3, <2>4, <2>5, <2>6 DEF NewSound
  <2> QED
    BY <1>1, <1>2, <1>5, <2>1, <2>2, <2>3, <2>5, <2>7, <2>8, <2>9, CallStep DEF KeptOrLost
<1> QED
  BY <1>4, <1>6, <1>7 DEF ReadHeader

LEMMA MmapFailsStep ==
  ASSUME HeapIInv, NEW t \in HeapThreads, MmapFails(t)
  PROVE  HeapIInv'
<1>1. ~Handling(t)
  BY DEF MmapFails, Handling
<1> QED
  BY <1>1, ReturnStep DEF MmapFails, HeapFail, KeptOrLost

-----------------------------------------------------------------------------
(* The steps that move a mapping from hand to hand                         *)

(* A block that was made and not granted yet is nobody else's.             *)
LEMMA NewFacts ==
  ASSUME HeapIInv, NEW u \in HeapThreads, HasNew(u)
  PROVE  /\ heap_call[u].new \in DOMAIN memory /\ heap_call[u].new \notin DOMAIN granted
         /\ \E h : /\ Placed(h) /\ h.payload_addr = heap_call[u].new
                   /\ h \in Live \/ (heap_pc[u] = "register" /\ h = InHand(u))
<1>1. NewSound(u)
  BY DEF HeapIInv
<1>2. CASE heap_pc[u] = "register"
  BY <1>1, <1>2, HolderFacts DEF NewSound, Handling, InHand
<1>3. CASE heap_pc[u] # "register"
  BY <1>1, <1>3, HolderFacts DEF NewSound, HasNew
<1> QED
  BY <1>2, <1>3

LEMMA MmapStep ==
  ASSUME HeapIInv, NEW t \in HeapThreads, Mmap(t)
  PROVE  HeapIInv'
<1> DEFINE call == heap_call[t]
           alignment == effective_allocation_alignment(call.alignment)
           len == mapping_len_for(call.size, alignment)
<1>1. heap_pc[t] = "mmap" /\ UNCHANGED <<active, granted>>
  BY DEF Mmap
<1>2. CallShape(t) /\ ClaimSound(t) /\ NewSound(t) /\ CallsApart
  BY DEF HeapIInv
<1>3. call \in Calls /\ call.size \in Nat /\ call.alignment \in Nat /\ is_power_of_two(call.alignment)
  BY <1>1, <1>2 DEF HeapIInv, HeapTypeOK, Calls, NewSound
<1>4. /\ alignment \in Nat \ {0} /\ MALLOC_ALIGNMENT <= alignment
      /\ call.alignment <= alignment /\ alignment % call.alignment = 0
  BY <1>3, EffectiveFacts
<1>5. len \in Nat \ {0}
  <2>1. len # None
    BY <1>1, <1>2 DEF NewSound
  <2> HIDE DEF alignment
  <2>2. payload_size_for(call.size) \in Nat \ {0}
    BY <1>3 DEF payload_size_for, MIN_NONZERO_ALLOCATION
  <2>3. /\ len \in Nat
        /\ HEADER_SIZE + RECORD_SIZE + payload_size_for(call.size) + alignment - 1 <= len
    BY <1>3, <1>4, <2>1, LengthFacts
  <2> HIDE DEF len, call
  <2> QED
    BY <1>4, <2>2, <2>3, SizesAssumption
<1> HIDE DEF alignment, len
<1>6. PICK base \in {b \in Bases : IsFree(b, len)} :
        LET mapping == [base |-> base, len |-> len]
            payload == payload_addr_in(base, len, call.size, alignment)
            header == build_allocation_header(payload, base, len, call.size, alignment)
        IN IF payload = None
           THEN /\ HeapFail(t, "ENOMEM")
                /\ \/ UNCHANGED <<mappings, refused>>
                   \/ /\ mappings' = mappings \cup {mapping}
                      /\ refused' = refused \cup {mapping}
                /\ UNCHANGED memory
           ELSE /\ mappings' = mappings \cup {mapping}
                /\ memory' = Extend(memory, payload,
                               [header |-> header, data |-> Fresh(call.size)])
                /\ heap_call' = [heap_call EXCEPT ![t].new = payload]
                /\ HeapGoto(t, "register")
                /\ UNCHANGED refused
  BY DEF Mmap, alignment, len
<1>7. [base |-> base, len |-> len] \in Regions /\ IsFree(base, len)
  BY <1>5, HeapAssumption DEF Regions, Word
<1> DEFINE payload == payload_addr_in(base, len, call.size, alignment)
           header == build_allocation_header(payload, base, len, call.size, alignment)
<1>8. CASE payload = None
  <2>1. ~Handling(t)
    BY <1>1 DEF Handling
  <2>2. KeptOrLost
    BY <1>6, <1>8, <1>7 DEF KeptOrLost
  <2> QED
    BY <1>1, <1>6, <1>8, <2>1, <2>2, ReturnStep DEF HeapFail
<1>9. CASE payload # None
  <2>1. /\ Placed(header) /\ header.mapping_base = base /\ header.mapping_len = len
        /\ header.payload_addr = payload /\ header.requested_size = call.size
        /\ header.alignment = alignment
    BY <1>3, <1>4, <1>9, PlacementFacts DEF len
  <2> DEFINE c == [call EXCEPT !.new = payload]
             cell == [header |-> header, data |-> Fresh(call.size)]
  <2>2. /\ mappings' = mappings \cup {[base |-> base, len |-> len]} /\ refused' = refused
        /\ memory' = Extend(memory, payload, cell)
        /\ heap_call' = [heap_call EXCEPT ![t] = c]
        /\ heap_pc' = [heap_pc EXCEPT ![t] = "register"]
    BY <1>6, <1>9 DEF HeapGoto
  <2> HIDE DEF payload, header
  <2>3. payload \in Nat /\ header \in Headers
    BY <2>1, PlacedFacts
  <2>4. /\ c \in Calls /\ c.op = call.op /\ c.ptr = call.ptr /\ c.header = call.header
        /\ c.new = payload /\ c.size = call.size /\ c.alignment = call.alignment
    BY <1>3, <2>3 DEF Calls
  <2>5. cell \in Cells /\ cell.header = header /\ cell.data = Fresh(call.size)
    BY <1>3, <2>3 DEF Cells, Data, Fresh, Contents
  <2> HIDE DEF c, cell, call
  <2>6. "register" \in HeapLabels
    BY DEF HeapLabels
  <2>7. /\ heap_pc' \in [HeapThreads -> HeapLabels] /\ heap_call' \in [HeapThreads -> Calls]
        /\ heap_pc'[t] = "register" /\ heap_call'[t] = c
        /\ \A u \in HeapThreads \ {t} : heap_pc'[u] = heap_pc[u] /\ heap_call'[u] = heap_call[u]
    BY <2>2, <2>4, <2>6, ThreadStep DEF HeapIInv
  <2>8. /\ DOMAIN memory' = DOMAIN memory \cup {payload} /\ memory'[payload] = cell
        /\ \A q \in DOMAIN memory : q # payload => memory'[q] = memory[q]
    BY <2>2 DEF Extend
  <2>9. Live' = Live
    BY <1>1 DEF Live
  <2>10. ASSUME NEW g, Placed(g), MapOf(g) \in mappings
         PROVE  g.mapping_base # base /\ g.payload_addr # payload
    <3>1. ~Overlap(base, len, g.mapping_base, g.mapping_len)
      BY <2>10, <1>7 DEF IsFree, MapOf
    <3> QED
      BY <2>1, <2>10, <3>1, PlacedFacts DEF Overlap
  <2>11. \A r \in Live : r.mapping_base # base /\ r.payload_addr # payload
    BY <2>10, HolderFacts
  <2>12. payload \notin DOMAIN granted
    BY <2>11, GrantedFacts
  <2>13. \A u \in HeapThreads : Claims(u) => heap_call[u].ptr # payload
    BY <2>11 DEF HeapIInv, ClaimSound
  <2>14. \A u \in HeapThreads : HasNew(u) => heap_call[u].new # payload
    <3> TAKE u \in HeapThreads
    <3> HAVE HasNew(u)
    <3>1. PICK h : /\ Placed(h) /\ h.payload_addr = heap_call[u].new
                   /\ h \in Live \/ (heap_pc[u] = "register" /\ h = InHand(u))
      BY NewFacts
    <3>2. MapOf(h) \in mappings
      BY <3>1, HolderFacts DEF Handling
    <3> QED
      BY <2>10, <3>1, <3>2
  <2>15. ASSUME NEW u \in HeapThreads \ {t}
         PROVE  /\ CallShape(u)' /\ ClaimSound(u)' /\ NewSound(u)'
                /\ HasNew(u)' <=> HasNew(u)
                /\ Claims(u)' <=> Claims(u)
                /\ Handling(u)' <=> Handling(u)
                /\ Handling(u) => InHand(u)' = InHand(u)
    <3>1. HasNew(u) =>
            /\ heap_call[u].new \notin DOMAIN granted'
            /\ heap_call[u].new \in DOMAIN memory'
            /\ memory'[heap_call[u].new] = memory[heap_call[u].new]
      BY <1>1, <2>8, <2>14, NewFacts
    <3> QED
      BY <1>1, <2>7, <2>9, <3>1, OtherThread
  <2>16. /\ ~Handling(t) /\ Handling(t)' /\ HasNew(t)' /\ InHand(t)' = header
         /\ Claims(t)' <=> Claims(t)
    BY <1>1, <2>4, <2>5, <2>7, <2>8 DEF Handling, HasNew, InHand, Claims, call
  <2>17. CallShape(t)' /\ ClaimSound(t)' /\ NewSound(t)'
    <3>1. CallShape(t)'
      BY <1>1, <1>2, <2>4, <2>7 DEF CallShape, call
    <3>2. ClaimSound(t)'
      BY <1>1, <1>2, <2>4, <2>7, <2>9, <2>16 DEF ClaimSound, call
    <3>3. c.op = "realloc" => header.alignment = c.header.alignment
      <4>1. ASSUME c.op = "realloc" PROVE call.header \in Live /\ call.alignment = call.header.alignment
        BY <1>1, <1>2, <2>4, <4>1 DEF ClaimSound, NewSound, call
      <4>2. ASSUME c.op = "realloc" PROVE MALLOC_ALIGNMENT <= call.alignment
        BY <4>1, <4>2, HolderFacts, PlacedFacts
      <4>3. c.op = "realloc" => alignment = call.alignment
        BY <1>3, <4>2, SizesAssumption DEF alignment, effective_allocation_alignment
      <4> QED
        BY <2>1, <2>4, <4>1, <4>3
    <3>4. c.alignment # 0
      BY <1>3, <2>4 DEF is_power_of_two
    <3>5. payload \notin DOMAIN granted'
      BY <1>1, <2>12
    <3>6. NewSound(t)'
      BY <1>4, <2>1, <2>4, <2>5, <2>7, <2>8, <3>3, <3>4, <3>5 DEF NewSound
    <3> QED
      BY <3>1, <3>2, <3>6
  <2>18. HeapTypeOK'
    <3>1. memory' \in [DOMAIN memory' -> Cells]
      BY <2>2, <2>5 DEF Extend, HeapIInv, HeapTypeOK
    <3>2. refused' = refused
      BY <2>2
    <3> QED
      BY <1>1, <2>7, <3>1, <3>2 DEF HeapIInv, HeapTypeOK
  <2>19. ListSound'
    BY <1>1, <2>8, <2>9 DEF HeapIInv, ListSound
  <2>20. MappingsHeld'
    <3>1. MapOf(header) = [base |-> base, len |-> len]
      BY <2>1 DEF MapOf
    <3>2. mappings' = {MapOf(r) : r \in Live'}
                        \cup {MapOf(InHand(u)') : u \in {x \in HeapThreads : Handling(x)'}}
                        \cup refused'
      BY <2>2, <2>9, <2>15, <2>16, <3>1 DEF HeapIInv, MappingsHeld
    <3>3. ASSUME NEW m \in mappings', NEW n \in mappings', m # n
          PROVE  ~Overlap(m.base, m.len, n.base, n.len)
      <4>1. \A x \in mappings : /\ ~Overlap(base, len, x.base, x.len)
                                /\ ~Overlap(x.base, x.len, base, len)
        BY <1>7, FreeFacts
      <4> QED
        BY <2>2, <3>3, <4>1 DEF HeapIInv, MappingsHeld
    <3>4. ASSUME NEW x \in HeapThreads, Handling(x)'
          PROVE  /\ \A r \in Live' : r.mapping_base # InHand(x)'.mapping_base
                 /\ \A u \in HeapThreads : u # x /\ Handling(u)' =>
                      InHand(u)'.mapping_base # InHand(x)'.mapping_base
      <4>1. ASSUME NEW u \in HeapThreads \ {t}, Handling(u)'
            PROVE  InHand(u)'.mapping_base # base
        BY <2>10, <2>15, <4>1, HolderFacts
      <4>2. CASE x = t
        BY <2>1, <2>9, <2>11, <2>16, <4>1, <4>2
      <4>3. CASE x # t
        <5>1. Handling(x) /\ InHand(x)' = InHand(x)
          BY <2>15, <3>4, <4>3
        <5>2. \A r \in Live' : r.mapping_base # InHand(x)'.mapping_base
          BY <2>9, <5>1 DEF HeapIInv, MappingsHeld
        <5>3. ASSUME NEW u \in HeapThreads, u # x, Handling(u)'
              PROVE  InHand(u)'.mapping_base # InHand(x)'.mapping_base
          <6>1. CASE u = t
            BY <2>1, <2>16, <3>4, <4>1, <4>3, <6>1
          <6>2. CASE u # t
            <7>1. Handling(u) /\ InHand(u)' = InHand(u)
              BY <2>15, <5>3, <6>2
            <7> QED
              BY <5>1, <5>3, <7>1 DEF HeapIInv, MappingsHeld
          <6> QED
            BY <6>1, <6>2
        <5> QED
          BY <5>2, <5>3
      <4> QED
        BY <4>2, <4>3
    <3>5. ASSUME NEW m \in refused'
          PROVE  /\ \A r \in Live' : r.mapping_base # m.base
                 /\ \A u \in HeapThreads : Handling(u)' => InHand(u)'.mapping_base # m.base
      <4>1. m \in refused /\ m \in mappings
        BY <2>2, <3>5 DEF HeapIInv, MappingsHeld
      <4>2. m.base # base
        BY <1>7, <4>1, FreeFacts
      <4> QED
        BY <2>1, <2>9, <2>15, <2>16, <4>1, <4>2 DEF HeapIInv, MappingsHeld
    <3> QED
      BY <3>2, <3>3, <3>4, <3>5 DEF MappingsHeld, MapOf
  <2>21. GrantsRecorded'
    <3>1. \A p \in DOMAIN granted : memory'[p] = memory[p]
      BY <2>8, <2>12, GrantedFacts
    <3> QED
      BY <1>1, <2>9, <3>1 DEF HeapIInv, GrantsRecorded
  <2>22. CallsApart'
    <3>1. \A u \in HeapThreads : HasNew(u) \/ Claims(u) => heap_pc[u] # "idle"
      BY DEF HasNew, Claims
    <3> QED
      BY <1>1, <1>2, <2>4, <2>7, <2>13, <2>14, <2>16, <3>1, ApartStep DEF CallsApart, call
  <2> QED
    BY <2>7, <2>15, <2>17, <2>18, <2>19, <2>20, <2>21, <2>22 DEF HeapIInv
<1> QED
  BY <1>8, <1>9

LEMMA RegisterStep ==
  ASSUME HeapIInv, NEW t \in HeapThreads, Register(t)
  PROVE  HeapIInv'
<1> DEFINE call == heap_call[t]
           new == call.new
           h == memory[new].header
<1>1. heap_pc[t] = "register" /\ active' = <<h>> \o active /\ UNCHANGED <<mappings, memory, refused>>
  BY DEF Register
<1>2. CallShape(t) /\ ClaimSound(t) /\ NewSound(t) /\ CallsApart
  BY DEF HeapIInv
<1>3. Handling(t) /\ HasNew(t) /\ InHand(t) = h
  BY <1>1 DEF Handling, HasNew, InHand
<1>4. /\ call \in Calls /\ call.size \in Nat /\ call.alignment \in Nat \ {0}
      /\ call.op \in {"plain", "calloc", "realloc"}
  BY <1>1, <1>2 DEF HeapIInv, HeapTypeOK, Calls, NewSound, CallShape
<1>5. /\ new \in DOMAIN memory /\ new \notin DOMAIN granted /\ Placed(h)
      /\ h.payload_addr = new /\ h.requested_size = call.size
      /\ h.alignment % call.alignment = 0
      /\ call.op = "realloc" => h.alignment = call.header.alignment
      /\ memory[new].data = Fresh(call.size)
      /\ memory[new] \in Cells
  BY <1>1, <1>2, <1>3 DEF NewSound, HeapIInv, HeapTypeOK
<1> HIDE DEF h, new, call
<1>6. \A r \in Live : r.mapping_base # h.mapping_base /\ r.payload_addr # new
  <2>1. MapOf(h) \in mappings
    BY <1>3, HolderFacts
  <2>2. \A r \in Live : r.mapping_base # h.mapping_base
    BY <1>3 DEF HeapIInv, MappingsHeld
  <2> QED
    BY <1>5, <2>1, <2>2, HolderFacts, PlacesApart DEF HeapIInv
<1>7. active' \in Seq(Headers) /\ IsInjective(active') /\ Live' = Live \cup {h}
  BY <1>1, <1>5, <1>6, RegisterFacts DEF HeapIInv, Placed
(* The block is the first in the list; the rest is as it was.              *)
<1>8. ASSUME NEW label \in {"idle", "fill"}, NEW c \in Calls,
             heap_pc' = [heap_pc EXCEPT ![t] = label],
             heap_call' = [heap_call EXCEPT ![t] = c],
             granted' \in [DOMAIN granted' -> Grants],
             \A q : q # new => (q \in DOMAIN granted' <=> q \in DOMAIN granted),
             \A q \in DOMAIN granted : granted'[q] = granted[q],
             new \in DOMAIN granted' =>
               /\ call.size = granted'[new].size
               /\ h.alignment % granted'[new].alignment = 0
               /\ granted'[new].data.upto <= granted'[new].size
               /\ memory[new].data.stamp = granted'[new].data.stamp
               /\ memory[new].data.upto >= granted'[new].data.upto,
             label = "fill" => c = call,
             CallShape(t)', ClaimSound(t)', NewSound(t)'
      PROVE  HeapIInv'
  <2>1. label \in HeapLabels
    BY DEF HeapLabels
  <2>2. /\ heap_pc' \in [HeapThreads -> HeapLabels] /\ heap_call' \in [HeapThreads -> Calls]
        /\ heap_pc'[t] = label /\ heap_call'[t] = c
        /\ \A u \in HeapThreads \ {t} : heap_pc'[u] = heap_pc[u] /\ heap_call'[u] = heap_call[u]
    BY <1>8, <2>1, ThreadStep DEF HeapIInv
  <2>3. ASSUME NEW u \in HeapThreads \ {t}
        PROVE  /\ CallShape(u)' /\ ClaimSound(u)' /\ NewSound(u)'
               /\ HasNew(u)' <=> HasNew(u)
               /\ Claims(u)' <=> Claims(u)
               /\ Handling(u)' <=> Handling(u)
               /\ Handling(u) => InHand(u)' = InHand(u)
    <3>1. HasNew(u) => heap_call[u].new # new
      BY <1>2, <1>3 DEF CallsApart, new, call
    <3>2. Claims(u) => heap_call[u].ptr # new
      BY <1>2, <1>3 DEF CallsApart, new, call
    <3>3. HasNew(u) =>
            /\ heap_call[u].new \notin DOMAIN granted'
            /\ heap_call[u].new \in DOMAIN memory'
            /\ memory'[heap_call[u].new] = memory[heap_call[u].new]
      BY <1>1, <1>8, <3>1, NewFacts
    <3> QED
      BY <1>7, <1>8, <2>2, <3>2, <3>3, OtherThread
  <2>4. ~Handling(t)'
    BY <2>2 DEF Handling
  <2>5. HeapTypeOK'
    BY <1>1, <1>7, <1>8, <2>2 DEF HeapIInv, HeapTypeOK
  <2>6. ListSound'
    <3>1. \A r \in Live' : Placed(r) /\ r.payload_addr \in DOMAIN memory'
      BY <1>1, <1>5, <1>7, HolderFacts
    <3> QED
      BY <1>5, <1>6, <1>7, <3>1 DEF HeapIInv, ListSound
  <2>7. MappingsHeld'
    <3>1. mappings' = {MapOf(r) : r \in Live'}
                        \cup {MapOf(InHand(u)') : u \in {x \in HeapThreads : Handling(x)'}}
                        \cup refused'
      BY <1>1, <1>3, <1>7, <2>3, <2>4 DEF HeapIInv, MappingsHeld
    <3>2. ASSUME NEW x \in HeapThreads, Handling(x)'
          PROVE  /\ \A r \in Live' : r.mapping_base # InHand(x)'.mapping_base
                 /\ \A u \in HeapThreads : u # x /\ Handling(u)' =>
                      InHand(u)'.mapping_base # InHand(x)'.mapping_base
      <4>1. x # t /\ Handling(x) /\ InHand(x)' = InHand(x)
        BY <2>3, <2>4, <3>2
      <4>2. InHand(t).mapping_base # InHand(x).mapping_base
        BY <1>3, <4>1 DEF HeapIInv, MappingsHeld
      <4>3. ASSUME NEW u \in HeapThreads, u # x, Handling(u)'
            PROVE  InHand(u)'.mapping_base # InHand(x)'.mapping_base
        <5>1. Handling(u) /\ InHand(u)' = InHand(u)
          BY <2>3, <2>4, <4>3
        <5> QED
          BY <4>1, <4>3, <5>1 DEF HeapIInv, MappingsHeld
      <4> QED
        BY <1>3, <1>7, <4>1, <4>2, <4>3 DEF HeapIInv, MappingsHeld
    <3>3. ASSUME NEW m \in refused'
          PROVE  /\ \A r \in Live' : r.mapping_base # m.base
                 /\ \A u \in HeapThreads : Handling(u)' => InHand(u)'.mapping_base # m.base
      BY <1>1, <1>3, <1>7, <2>3, <2>4, <3>3 DEF HeapIInv, MappingsHeld
    <3> QED
      BY <1>1, <3>1, <3>2, <3>3 DEF HeapIInv, MappingsHeld, MapOf
  <2>8. GrantsRecorded'
    <3> SUFFICES ASSUME NEW p \in DOMAIN granted'
                 PROVE  \E r \in Live' :
                          /\ r.payload_addr = p
                          /\ r.requested_size = granted'[p].size
                          /\ r.alignment % granted'[p].alignment = 0
                          /\ granted'[p].data.upto <= granted'[p].size
                          /\ memory'[p].data.stamp = granted'[p].data.stamp
                          /\ memory'[p].data.upto >= granted'[p].data.upto
      BY DEF GrantsRecorded
    <3>1. CASE p = new
      BY <1>1, <1>5, <1>7, <1>8, <3>1
    <3>2. CASE p # new
      <4>1. p \in DOMAIN granted /\ granted'[p] = granted[p] /\ memory'[p] = memory[p]
        BY <1>1, <1>8, <3>2, GrantedFacts
      <4> QED
        BY <1>7, <4>1 DEF HeapIInv, GrantsRecorded
    <3> QED
      BY <3>1, <3>2
  <2>9. CallsApart'
    <3>1. \A u \in HeapThreads : HasNew(u) \/ Claims(u) => heap_pc[u] # "idle"
      BY DEF HasNew, Claims
    <3>2. label = "idle" => ~HasNew(t)' /\ ~Claims(t)'
      BY <2>2 DEF HasNew, Claims
    <3>3. label = "fill" => (Claims(t)' <=> Claims(t))
      BY <1>1, <1>8, <2>2 DEF Claims, call
    <3> QED
      BY <1>1, <1>2, <1>3, <1>8, <2>2, <3>1, <3>2, <3>3, ApartStep DEF CallsApart, call
  <2> QED
    BY <1>8, <2>2, <2>3, <2>5, <2>6, <2>7, <2>8, <2>9 DEF HeapIInv
<1>9. CASE call.op \in {"calloc", "realloc"}
  <2>1. /\ heap_pc' = [heap_pc EXCEPT ![t] = "fill"] /\ UNCHANGED <<heap_call, granted>>
        /\ heap_call' = [heap_call EXCEPT ![t] = call]
    BY <1>9 DEF Register, HeapGoto, HeapIInv, HeapTypeOK, call
  <2>2. heap_pc'[t] = "fill" /\ heap_call'[t] = call
    BY <1>4, <2>1, ThreadStep DEF HeapIInv, HeapLabels
  <2>3. CallShape(t)'
    BY <1>9, <2>2 DEF CallShape
  <2>4. ClaimSound(t)'
    <3>1. Claims(t)' <=> Claims(t)
      BY <1>1, <2>2 DEF Claims, call
    <3> QED
      BY <1>1, <1>2, <1>7, <2>1, <2>2, <3>1 DEF ClaimSound, call
  <2>5. NewSound(t)'
    BY <1>4, <1>5, <1>7, <2>1, <2>2 DEF NewSound, new
  <2>6. granted' \in [DOMAIN granted' -> Grants] /\ new \notin DOMAIN granted'
    BY <1>5, <2>1 DEF HeapIInv, HeapTypeOK
  <2> QED
    BY <1>4, <1>8, <2>1, <2>3, <2>4, <2>5, <2>6
<1>10. CASE call.op = "plain"
  <2> DEFINE g == [owner |-> t, size |-> call.size, alignment |-> call.alignment,
                   data |-> memory[new].data]
  <2>1. granted' = Extend(granted, new, g) /\ HeapReturn(t)
    BY <1>10 DEF Register, Grant, new, call
  <2>2. /\ g \in Grants /\ g.size = call.size /\ g.alignment = call.alignment
        /\ g.data = memory[new].data /\ g.data.upto = call.size
        /\ memory[new].data.upto = call.size
    BY <1>4, <1>5 DEF Grants, Data, Fresh, Contents
  <2> HIDE DEF g
  <2>3. /\ granted' \in [DOMAIN granted' -> Grants]
        /\ \A q : q # new => (q \in DOMAIN granted' <=> q \in DOMAIN granted)
        /\ \A q \in DOMAIN granted : granted'[q] = granted[q]
        /\ granted'[new] = g
    BY <1>5, <2>1, <2>2 DEF HeapIInv, HeapTypeOK, Extend
  <2>4. NoHeapCall \in Calls
    BY DEF NoHeapCall, Calls, Null, None
  <2>5. heap_pc'[t] = "idle"
    BY <2>1, <2>4, ThreadStep DEF HeapIInv, HeapReturn, HeapLabels
  <2>6. CallShape(t)' /\ ClaimSound(t)' /\ NewSound(t)'
    BY <2>5 DEF CallShape, ClaimSound, NewSound, Claims, HasNew
  <2>7. /\ call.size = granted'[new].size
        /\ h.alignment % granted'[new].alignment = 0
        /\ granted'[new].data.upto <= granted'[new].size
        /\ memory[new].data.stamp = granted'[new].data.stamp
        /\ memory[new].data.upto >= granted'[new].data.upto
    BY <1>4, <1>5, <2>2, <2>3
  <2> QED
    BY <1>8, <2>1, <2>3, <2>4, <2>6, <2>7 DEF HeapReturn
<1> QED
  BY <1>4, <1>9, <1>10

LEMMA FillStep ==
  ASSUME HeapIInv, NEW t \in HeapThreads, Fill(t)
  PROVE  HeapIInv'
<1> DEFINE call == heap_call[t]
           new == call.new
           old == call.ptr
<1>1. heap_pc[t] = "fill" /\ UNCHANGED <<mappings, active, refused>>
  BY DEF Fill
<1>2. CallShape(t) /\ ClaimSound(t) /\ NewSound(t) /\ CallsApart
  BY DEF HeapIInv
<1>3. ~Handling(t) /\ HasNew(t)
  BY <1>1 DEF Handling, HasNew
<1>4. /\ call \in Calls /\ call.size \in Nat /\ call.alignment \in Nat \ {0}
      /\ call.op \in {"calloc", "realloc"}
  BY <1>1, <1>2 DEF HeapIInv, HeapTypeOK, Calls, NewSound, CallShape
<1> HIDE DEF new, old, call
<1>5. PICK h \in Live : /\ h.payload_addr = new
                        /\ h.requested_size = call.size
                        /\ h.alignment % call.alignment = 0
                        /\ call.op = "realloc" => h.alignment = call.header.alignment
  BY <1>1, <1>2 DEF NewSound, new, call
<1>6. new \in DOMAIN memory /\ new \notin DOMAIN granted /\ memory[new] \in Cells
  BY <1>3, NewFacts DEF HeapIInv, HeapTypeOK, new, call
<1>7. Live' = Live
  BY <1>1 DEF Live
(* The list and the mappings are as they were; only the block changes.      *)
<1>8. ASSUME NEW label \in {"idle", "lookup"}, NEW c \in Calls,
             heap_pc' = [heap_pc EXCEPT ![t] = label],
             heap_call' = [heap_call EXCEPT ![t] = c],
             memory' \in [DOMAIN memory -> Cells],
             \A q \in DOMAIN memory : q # new => memory'[q] = memory[q],
             granted' \in [DOMAIN granted' -> Grants],
             \A q : q # new => (q \in DOMAIN granted' <=> q \in DOMAIN granted),
             \A q \in DOMAIN granted : granted'[q] = granted[q],
             new \in DOMAIN granted' =>
               /\ call.size = granted'[new].size
               /\ h.alignment % granted'[new].alignment = 0
               /\ granted'[new].data.upto <= granted'[new].size
               /\ memory'[new].data.stamp = granted'[new].data.stamp
               /\ memory'[new].data.upto >= granted'[new].data.upto,
             label = "lookup" => c.ptr = old /\ c.new = new /\ (Claims(t)' => Claims(t)),
             CallShape(t)', ClaimSound(t)', NewSound(t)'
      PROVE  HeapIInv'
  <2>1. label \in HeapLabels
    BY DEF HeapLabels
  <2>2. /\ heap_pc' \in [HeapThreads -> HeapLabels] /\ heap_call' \in [HeapThreads -> Calls]
        /\ heap_pc'[t] = label /\ heap_call'[t] = c
        /\ \A u \in HeapThreads \ {t} : heap_pc'[u] = heap_pc[u] /\ heap_call'[u] = heap_call[u]
    BY <1>8, <2>1, ThreadStep DEF HeapIInv
  <2>3. ASSUME NEW u \in HeapThreads \ {t}
        PROVE  /\ CallShape(u)' /\ ClaimSound(u)' /\ NewSound(u)'
               /\ HasNew(u)' <=> HasNew(u)
               /\ Claims(u)' <=> Claims(u)
               /\ Handling(u)' <=> Handling(u)
               /\ Handling(u) => InHand(u)' = InHand(u)
    <3>1. HasNew(u) => heap_call[u].new # new
      BY <1>2, <1>3 DEF CallsApart, new, call
    <3>2. Claims(u) => heap_call[u].ptr # new
      BY <1>2, <1>3 DEF CallsApart, new, call
    <3>3. HasNew(u) =>
            /\ heap_call[u].new \notin DOMAIN granted'
            /\ heap_call[u].new \in DOMAIN memory'
            /\ memory'[heap_call[u].new] = memory[heap_call[u].new]
      BY <1>8, <3>1, NewFacts
    <3> QED
      BY <1>7, <1>8, <2>2, <3>2, <3>3, OtherThread
  <2>4. ~Handling(t)'
    BY <2>2 DEF Handling
  <2>5. MappingsHeld' /\ refused' \subseteq Regions
    BY <1>1, <1>3, <1>7, <2>3, <2>4, HeldKept DEF KeptOrLost
  <2>6. HeapTypeOK'
    BY <1>1, <1>8, <2>2, <2>5 DEF HeapIInv, HeapTypeOK
  <2>7. ListSound'
    BY <1>1, <1>7, <1>8 DEF HeapIInv, ListSound
  <2>8. GrantsRecorded'
    <3> SUFFICES ASSUME NEW p \in DOMAIN granted'
                 PROVE  \E r \in Live' :
                          /\ r.payload_addr = p
                          /\ r.requested_size = granted'[p].size
                          /\ r.alignment % granted'[p].alignment = 0
                          /\ granted'[p].data.upto <= granted'[p].size
                          /\ memory'[p].data.stamp = granted'[p].data.stamp
                          /\ memory'[p].data.upto >= granted'[p].data.upto
      BY DEF GrantsRecorded
    <3>1. CASE p = new
      BY <1>5, <1>7, <1>8, <3>1
    <3>2. CASE p # new
      <4>1. p \in DOMAIN granted /\ granted'[p] = granted[p] /\ memory'[p] = memory[p]
        BY <1>8, <3>2, GrantedFacts
      <4> QED
        BY <1>7, <4>1 DEF HeapIInv, GrantsRecorded
    <3> QED
      BY <3>1, <3>2
  <2>9. CallsApart'
    <3>1. \A u \in HeapThreads : HasNew(u) \/ Claims(u) => heap_pc[u] # "idle"
      BY DEF HasNew, Claims
    <3>2. label = "idle" => ~HasNew(t)' /\ ~Claims(t)'
      BY <2>2 DEF HasNew, Claims
    <3> QED
      BY <1>1, <1>2, <1>3, <1>8, <2>2, <3>1, <3>2, ApartStep DEF CallsApart, new, old, call
  <2> QED
    BY <1>8, <2>2, <2>3, <2>5, <2>6, <2>7, <2>8, <2>9 DEF HeapIInv
<1>9. CASE call.op = "realloc"
  <2> DEFINE copied == Minimum(call.header.requested_size, call.size)
             d == Contents(memory[old].data.stamp, Minimum(copied, memory[old].data.upto))
             c == [call EXCEPT !.op = "release", !.header = None]
  <2>1. /\ memory' = [memory EXCEPT ![new].data = d]
        /\ heap_call' = [heap_call EXCEPT ![t] = c]
        /\ heap_pc' = [heap_pc EXCEPT ![t] = "lookup"]
        /\ UNCHANGED granted
    BY <1>4, <1>9 DEF Fill, HeapGoto, Calls, new, old, call
  <2>2. /\ c \in Calls /\ c.op = "release" /\ c.ptr = old /\ c.new = new /\ c.size = call.size
    BY <1>4 DEF Calls, new, old
  <2>3. Claims(t)
    BY <1>1, <1>9 DEF Claims, call
  <2>4. /\ call.header \in Live /\ call.header.payload_addr = old
        /\ old \in DOMAIN granted /\ granted[old].owner = t
    BY <1>1, <1>2, <1>9, <2>3 DEF ClaimSound, old, call
  <2>5. /\ call.header.requested_size = granted[old].size
        /\ call.header.alignment % granted[old].alignment = 0
        /\ granted[old].data.upto <= granted[old].size
        /\ memory[old].data.stamp = granted[old].data.stamp
        /\ memory[old].data.upto >= granted[old].data.upto
    BY <2>4 DEF HeapIInv, GrantsRecorded, ListSound
  <2>6. /\ old \in DOMAIN memory /\ memory[old] \in Cells /\ memory[old].data \in Data
        /\ granted[old] \in Grants /\ granted[old].data \in Data
        /\ granted[old].size \in Nat /\ call.header.requested_size \in Nat
    BY <2>4, <2>5, GrantedFacts DEF HeapIInv, HeapTypeOK, Cells, Grants
  <2>7. /\ d \in Data /\ d.stamp = granted[old].data.stamp
        /\ d.upto >= Minimum(granted[old].data.upto, call.size)
    BY <1>4, <2>5, <2>6 DEF Data, Contents, Minimum
  <2> HIDE DEF c, d
  <2>8. /\ memory' \in [DOMAIN memory -> Cells] /\ memory'[new].data = d
        /\ \A q \in DOMAIN memory : q # new => memory'[q] = memory[q]
    BY <1>6, <2>1, <2>7 DEF HeapIInv, HeapTypeOK, Cells
  <2>9. heap_pc'[t] = "lookup" /\ heap_call'[t] = c
    BY <2>1, <2>2, ThreadStep DEF HeapIInv, HeapLabels
  <2>10. ClaimSound(t)'
    <3>1. old \in DOMAIN granted' /\ granted'[old].owner = t
      BY <2>1, <2>4
    <3>2. call.header \in Live'
      BY <1>7, <2>4
    <3> QED
      BY <2>2, <2>4, <2>9, <3>1, <3>2 DEF ClaimSound, Claims
  <2>11. CallShape(t)'
    <3>1. old # Null
      BY <2>4, GrantedFacts DEF Null
    <3> QED
      BY <2>2, <2>9, <3>1 DEF CallShape
  <2>12. NewSound(t)'
    <3>1. h \in Live' /\ h.alignment % granted'[old].alignment = 0
      BY <1>5, <1>7, <1>9, <2>1, <2>5
    <3>2. new \notin DOMAIN granted'
      BY <1>6, <2>1
    <3> QED
      BY <1>5, <2>1, <2>2, <2>7, <2>8, <2>9, <3>1, <3>2 DEF NewSound
  <2>13. granted' \in [DOMAIN granted' -> Grants]
    BY <2>1 DEF HeapIInv, HeapTypeOK
  <2> QED
    BY <1>6, <1>8, <2>1, <2>2, <2>3, <2>8, <2>10, <2>11, <2>12, <2>13
<1>10. CASE call.op = "calloc"
  <2> DEFINE d == Contents("zero", call.size)
             g == [owner |-> t, size |-> call.size, alignment |-> call.alignment, data |-> d]
  <2>1. /\ memory' = [memory EXCEPT ![new].data = d]
        /\ granted' = Extend(granted, new, g)
        /\ HeapReturn(t)
    BY <1>10 DEF Fill, Grant, new, call
  <2>2. d \in Data /\ d.upto = call.size
    BY <1>4 DEF Data, Contents
  <2>3. g \in Grants /\ g.size = call.size /\ g.alignment = call.alignment /\ g.data = d
    BY <1>4, <2>2 DEF Grants
  <2> HIDE DEF d, g
  <2>4. /\ memory' \in [DOMAIN memory -> Cells] /\ memory'[new].data = d
        /\ \A q \in DOMAIN memory : q # new => memory'[q] = memory[q]
    BY <1>6, <2>1, <2>2 DEF HeapIInv, HeapTypeOK, Cells
  <2>5. /\ granted' \in [DOMAIN granted' -> Grants]
        /\ \A q : q # new => (q \in DOMAIN granted' <=> q \in DOMAIN granted)
        /\ \A q \in DOMAIN granted : granted'[q] = granted[q]
        /\ granted'[new] = g
    BY <1>6, <2>1, <2>3 DEF HeapIInv, HeapTypeOK, Extend
  <2>6. NoHeapCall \in Calls
    BY DEF NoHeapCall, Calls, Null, None
  <2>7. heap_pc'[t] = "idle"
    BY <2>1, <2>6, ThreadStep DEF HeapIInv, HeapReturn, HeapLabels
  <2>8. CallShape(t)' /\ ClaimSound(t)' /\ NewSound(t)'
    BY <2>7 DEF CallShape, ClaimSound, NewSound, Claims, HasNew
  <2>9. /\ call.size = granted'[new].size
        /\ h.alignment % granted'[new].alignment = 0
        /\ granted'[new].data.upto <= granted'[new].size
        /\ memory'[new].data.stamp = granted'[new].data.stamp
        /\ memory'[new].data.upto >= granted'[new].data.upto
    BY <1>4, <1>5, <2>2, <2>3, <2>4, <2>5
  <2> QED
    BY <1>8, <2>1, <2>4, <2>5, <2>6, <2>8, <2>9 DEF HeapReturn
<1> QED
  BY <1>4, <1>9, <1>10

LEMMA UnregisterStep ==
  ASSUME HeapIInv, NEW t \in HeapThreads, Unregister(t)
  PROVE  HeapIInv'
<1> DEFINE call == heap_call[t]
           new == call.new
           old == call.ptr
           h == call.header
<1>1. heap_pc[t] = "unregister" /\ UNCHANGED <<mappings, memory, refused>>
  BY DEF Unregister
<1>2. CallShape(t) /\ ClaimSound(t) /\ NewSound(t) /\ CallsApart
  BY DEF HeapIInv
<1>3. call \in Calls /\ call.size \in Nat /\ call.op \in {"free", "release"} /\ old # Null
  BY <1>1, <1>2 DEF HeapIInv, HeapTypeOK, Calls, CallShape
<1>4. Claims(t) /\ ~Handling(t) /\ (HasNew(t) <=> call.op = "release")
  BY <1>1, <1>3 DEF Claims, Handling, HasNew
<1> HIDE DEF call, old, new, h
<1>5. h \in Live /\ h.payload_addr = old /\ Placed(h)
  BY <1>1, <1>2, HolderFacts DEF ClaimSound, call, old, h
<1>6. Records(old) # {}
  BY <1>5, FirstRecordFacts DEF HeapIInv, Live, Records
<1>7. /\ RemoveRecord(old)
      /\ heap_pc' = [heap_pc EXCEPT ![t] = "munmap"]
      /\ UNCHANGED heap_call
      /\ granted' = IF call.op = "free" THEN granted
                    ELSE LET g == granted[old] IN
                         Extend(Without(granted, old), new,
                           [g EXCEPT !.size = call.size,
                              !.data = Contents(g.data.stamp,
                                         Minimum(g.data.upto, call.size))])
  BY <1>6 DEF Unregister, HeapGoto, call, old, new
<1>8. /\ active' \in Seq(Headers) /\ IsInjective(active')
      /\ Live' = {r \in Live : r.payload_addr # old}
  BY <1>6, <1>7, RemoveFacts DEF HeapIInv
<1>9. \A r \in Live : r.payload_addr = old => r = h
  BY <1>5 DEF HeapIInv, ListSound
<1>10. /\ heap_pc' \in [HeapThreads -> HeapLabels]
       /\ heap_call' \in [HeapThreads -> Calls]
       /\ heap_pc'[t] = "munmap" /\ heap_call'[t] = call
       /\ \A u \in HeapThreads \ {t} : heap_pc'[u] = heap_pc[u] /\ heap_call'[u] = heap_call[u]
  BY <1>7 DEF HeapIInv, HeapTypeOK, HeapLabels, call
<1>11. Handling(t)' /\ ~Claims(t)' /\ ~HasNew(t)' /\ InHand(t)' = h
  BY <1>10 DEF Handling, Claims, HasNew, InHand, h
(* What the clients hold: the old block is gone, the new one takes its place. *)
<1>12. call.op = "free" => old \notin DOMAIN granted /\ granted' = granted
  BY <1>2, <1>4, <1>7 DEF ClaimSound, call, old
<1>13. ASSUME call.op = "release"
       PROVE  /\ old # new /\ new \notin DOMAIN granted
              /\ DOMAIN granted' = (DOMAIN granted \ {old}) \cup {new}
              /\ \A q \in DOMAIN granted \ {old} : granted'[q] = granted[q]
              /\ granted'[new] \in Grants
              /\ \E r \in Live' :
                   /\ r.payload_addr = new
                   /\ r.requested_size = granted'[new].size
                   /\ r.alignment % granted'[new].alignment = 0
                   /\ granted'[new].data.upto <= granted'[new].size
                   /\ memory[new].data.stamp = granted'[new].data.stamp
                   /\ memory[new].data.upto >= granted'[new].data.upto
  <2> DEFINE g == granted[old]
             g2 == [g EXCEPT !.size = call.size,
                             !.data = Contents(g.data.stamp, Minimum(g.data.upto, call.size))]
  <2>1. old # new
    BY <1>2, <1>4, <1>13 DEF CallsApart, call, old, new
  <2>2. old \in DOMAIN granted
    BY <1>2, <1>4, <1>13 DEF ClaimSound, call, old
  <2>3. g \in Grants /\ g.data \in Data /\ g.data.upto \in Nat
    BY <2>2 DEF HeapIInv, HeapTypeOK, Grants, Data
  <2>4. new \notin DOMAIN granted
    BY <1>4, <1>13, NewFacts DEF new, call
  <2>5. PICK r \in Live : /\ r.payload_addr = new /\ r.requested_size = call.size
                          /\ r.alignment % g.alignment = 0
                          /\ memory[new].data.stamp = g.data.stamp
                          /\ memory[new].data.upto >= Minimum(g.data.upto, call.size)
    BY <1>1, <1>2, <1>4, <1>13 DEF NewSound, new, old, call
  <2>6. r \in Live'
    BY <1>8, <2>1, <2>5
  <2>7. granted' = Extend(Without(granted, old), new, g2)
    BY <1>7, <1>13
  <2>8. /\ g2 \in Grants /\ g2.size = call.size /\ g2.alignment = g.alignment
        /\ g2.data.stamp = g.data.stamp /\ g2.data.upto = Minimum(g.data.upto, call.size)
        /\ g2.data.upto <= g2.size
    <3> DEFINE d == Contents(g.data.stamp, Minimum(g.data.upto, call.size))
    <3>1. Minimum(g.data.upto, call.size) \in Nat /\ Minimum(g.data.upto, call.size) <= call.size
      BY <1>3, <2>3 DEF Minimum
    <3>2. d \in Data /\ d.stamp = g.data.stamp /\ d.upto = Minimum(g.data.upto, call.size)
      BY <2>3, <3>1 DEF Data, Contents
    <3> HIDE DEF d, g
    <3>3. /\ g2 \in Grants /\ g2.size = call.size /\ g2.alignment = g.alignment
          /\ g2.data = d
      BY <1>3, <2>3, <3>2 DEF Grants, d
    <3> QED
      BY <3>1, <3>2, <3>3
  <2> HIDE DEF g, g2
  <2>9. /\ DOMAIN granted' = (DOMAIN granted \ {old}) \cup {new}
        /\ \A q \in DOMAIN granted \ {old} : granted'[q] = granted[q]
        /\ granted'[new] = g2
    BY <2>4, <2>7, WithoutFacts DEF Extend
  <2> QED
    BY <2>1, <2>4, <2>5, <2>6, <2>8, <2>9
<1>14. ASSUME NEW u \in HeapThreads \ {t}
       PROVE  /\ CallShape(u)' /\ ClaimSound(u)' /\ NewSound(u)'
              /\ HasNew(u)' <=> HasNew(u)
              /\ Claims(u)' <=> Claims(u)
              /\ Handling(u)' <=> Handling(u)
              /\ Handling(u) => InHand(u)' = InHand(u)
  <2>1. heap_pc[u] # "idle" => heap_call[u].ptr # old
    BY <1>1, <1>2, <1>3 DEF CallsApart, call, old
  <2>2. HasNew(u) => heap_call[u].new # old
    BY <1>2, <1>4 DEF CallsApart, call, old
  <2>3. heap_pc[u] # "idle" => \A r \in Live :
           \/ r.payload_addr = heap_call[u].ptr
           \/ HasNew(u) /\ r.payload_addr = heap_call[u].new
           => r \in Live'
    BY <1>8, <2>1, <2>2
  <2>4. call.op = "release" /\ Claims(u) => heap_call[u].ptr # new
    BY <1>2, <1>4 DEF CallsApart, call, new
  <2>5. call.op = "release" /\ HasNew(u) => heap_call[u].new # new
    BY <1>2, <1>4 DEF CallsApart, call, new
  <2>6. Claims(u) =>
          /\ heap_call[u].ptr \in DOMAIN granted' <=> heap_call[u].ptr \in DOMAIN granted
          /\ heap_call[u].ptr \in DOMAIN granted =>
               granted'[heap_call[u].ptr] = granted[heap_call[u].ptr]
    <3>1. Claims(u) => heap_pc[u] # "idle"
      BY DEF Claims
    <3> QED
      BY <1>3, <1>12, <1>13, <2>1, <2>4, <3>1
  <2>7. HasNew(u) =>
          /\ heap_call[u].new \notin DOMAIN granted'
          /\ heap_call[u].new \in DOMAIN memory'
          /\ memory'[heap_call[u].new] = memory[heap_call[u].new]
    BY <1>1, <1>3, <1>12, <1>13, <2>5, NewFacts
  <2> QED
    BY <1>10, <2>3, <2>6, <2>7, OtherThread
<1>15. HeapTypeOK'
  <2>1. granted' \in [DOMAIN granted' -> Grants]
    <3>1. CASE call.op = "free"
      BY <1>12, <3>1 DEF HeapIInv, HeapTypeOK
    <3>2. CASE call.op = "release"
      <4>1. \A q \in DOMAIN granted' : granted'[q] \in Grants
        BY <1>13, <3>2 DEF HeapIInv, HeapTypeOK
      <4>2. granted' = [q \in DOMAIN granted' |-> granted'[q]]
        BY <1>7, <3>2 DEF Extend
      <4> QED
        BY <4>1, <4>2
    <3> QED
      BY <1>3, <3>1, <3>2
  <2> QED
    BY <1>1, <1>8, <1>10, <2>1 DEF HeapIInv, HeapTypeOK
<1>16. ListSound'
  BY <1>1, <1>8 DEF HeapIInv, ListSound
<1>17. MappingsHeld'
  <2>1. mappings' = {MapOf(r) : r \in Live'}
                      \cup {MapOf(InHand(u)') : u \in {x \in HeapThreads : Handling(x)'}}
                      \cup refused'
    <3>1. Live = Live' \cup {h}
      BY <1>5, <1>8, <1>9
    <3> QED
      BY <1>1, <1>4, <1>11, <1>14, <3>1 DEF HeapIInv, MappingsHeld
  <2>2. ASSUME NEW x \in HeapThreads, Handling(x)'
        PROVE  /\ \A r \in Live' : r.mapping_base # InHand(x)'.mapping_base
               /\ \A u \in HeapThreads : u # x /\ Handling(u)' =>
                    InHand(u)'.mapping_base # InHand(x)'.mapping_base
    <3>1. ASSUME NEW u \in HeapThreads \ {t}, Handling(u)'
          PROVE  InHand(u)'.mapping_base # h.mapping_base
      BY <1>5, <1>14, <3>1 DEF HeapIInv, MappingsHeld
    <3>2. CASE x = t
      <4>1. \A r \in Live' : r.mapping_base # h.mapping_base
        BY <1>5, <1>8 DEF HeapIInv, ListSound
      <4> QED
        BY <1>11, <3>1, <3>2, <4>1
    <3>3. CASE x # t
      <4>1. Handling(x) /\ InHand(x)' = InHand(x)
        BY <1>14, <2>2, <3>3
      <4>2. \A r \in Live' : r.mapping_base # InHand(x)'.mapping_base
        BY <1>8, <4>1 DEF HeapIInv, MappingsHeld
      <4>3. ASSUME NEW u \in HeapThreads, u # x, Handling(u)'
            PROVE  InHand(u)'.mapping_base # InHand(x)'.mapping_base
        <5>1. CASE u = t
          BY <1>11, <2>2, <3>1, <3>3, <5>1
        <5>2. CASE u # t
          <6>1. Handling(u) /\ InHand(u)' = InHand(u)
            BY <1>14, <4>3, <5>2
          <6> QED
            BY <4>1, <4>3, <6>1 DEF HeapIInv, MappingsHeld
        <5> QED
          BY <5>1, <5>2
      <4> QED
        BY <4>2, <4>3
    <3> QED
      BY <3>2, <3>3
  <2>3. ASSUME NEW m \in refused'
        PROVE  /\ \A r \in Live' : r.mapping_base # m.base
               /\ \A u \in HeapThreads : Handling(u)' => InHand(u)'.mapping_base # m.base
    BY <1>1, <1>5, <1>8, <1>11, <1>14, <2>3 DEF HeapIInv, MappingsHeld
  <2> QED
    BY <1>1, <2>1, <2>2, <2>3 DEF HeapIInv, MappingsHeld, MapOf
<1>18. GrantsRecorded'
  <2> SUFFICES ASSUME NEW p \in DOMAIN granted'
               PROVE  \E r \in Live' :
                        /\ r.payload_addr = p
                        /\ r.requested_size = granted'[p].size
                        /\ r.alignment % granted'[p].alignment = 0
                        /\ granted'[p].data.upto <= granted'[p].size
                        /\ memory'[p].data.stamp = granted'[p].data.stamp
                        /\ memory'[p].data.upto >= granted'[p].data.upto
    BY DEF GrantsRecorded
  <2>1. CASE call.op = "release" /\ p = new
    BY <1>1, <1>13, <2>1
  <2>2. CASE ~(call.op = "release" /\ p = new)
    <3>1. p \in DOMAIN granted /\ p # old /\ granted'[p] = granted[p]
      BY <1>3, <1>12, <1>13, <2>2
    <3> QED
      BY <1>1, <1>8, <3>1 DEF HeapIInv, GrantsRecorded
  <2> QED
    BY <2>1, <2>2
<1>19. CallsApart'
  <2>1. \A u \in HeapThreads \ {t} :
          heap_pc[u] # "idle" /\ call.ptr # Null => call.ptr # heap_call[u].ptr
    BY <1>1, <1>2 DEF CallsApart, call
  <2> QED
    BY <1>10, <1>11, <2>1, ApartStep
<1>20. CallShape(t)' /\ ClaimSound(t)' /\ NewSound(t)'
  <2>1. CallShape(t)'
    BY <1>3, <1>10 DEF CallShape, old
  <2>2. ClaimSound(t)'
    BY <1>5, <1>10, <1>11 DEF ClaimSound, old, h
  <2>3. NewSound(t)'
    BY <1>10, <1>11 DEF NewSound
  <2> QED
    BY <2>1, <2>2, <2>3
<1> QED
  BY <1>10, <1>14, <1>15, <1>16, <1>17, <1>18, <1>19, <1>20 DEF HeapIInv

LEMMA MunmapStep ==
  ASSUME HeapIInv, NEW t \in HeapThreads, Munmap(t)
  PROVE  HeapIInv'
<1> DEFINE h == InHand(t)
           old == heap_call[t].ptr
<1>1. heap_pc[t] = "munmap" /\ UNCHANGED <<active, granted>>
  BY DEF Munmap
<1>2. Handling(t) /\ h = heap_call[t].header
  BY <1>1 DEF Handling, InHand
<1>3. Placed(h) /\ MapOf(h) \in mappings /\ h.payload_addr = old
  BY <1>1, <1>2, HolderFacts
<1>4. /\ \/ /\ mappings' = {m \in mappings : m.base # h.mapping_base} /\ refused' = refused
            /\ memory' = [q \in DOMAIN memory \ {old} |-> memory[q]]
         \/ /\ mappings' = mappings /\ refused' = refused \cup {MapOf(h)}
            /\ memory' = memory
      /\ heap_pc' = [heap_pc EXCEPT ![t] = "idle"]
      /\ heap_call' = [heap_call EXCEPT ![t] = NoHeapCall]
  BY <1>2, WithoutFacts DEF Munmap, Unmap, HeapReturn, MapOf
<1> HIDE DEF h, old
<1>5. NoHeapCall \in Calls /\ "idle" \in HeapLabels
  BY DEF NoHeapCall, Calls, Null, None, HeapLabels
<1>6. /\ heap_pc' \in [HeapThreads -> HeapLabels] /\ heap_call' \in [HeapThreads -> Calls]
      /\ heap_pc'[t] = "idle" /\ heap_call'[t] = NoHeapCall
      /\ \A u \in HeapThreads \ {t} : heap_pc'[u] = heap_pc[u] /\ heap_call'[u] = heap_call[u]
  BY <1>4, <1>5, ThreadStep DEF HeapIInv
<1>7. ~Handling(t)' /\ ~HasNew(t)' /\ ~Claims(t)'
  BY <1>6 DEF Handling, HasNew, Claims
<1>8. Live' = Live
  BY <1>1 DEF Live
<1>9. \A r \in Live : r.mapping_base # h.mapping_base /\ r.payload_addr # old
  <2>1. \A r \in Live : r.mapping_base # h.mapping_base
    BY <1>2 DEF HeapIInv, MappingsHeld, h
  <2> QED
    BY <1>3, <2>1, HolderFacts, PlacesApart DEF HeapIInv
<1>10. ASSUME NEW u \in HeapThreads \ {t}, HasNew(u)
       PROVE  heap_call[u].new # old
  <2>1. PICK g : /\ Placed(g) /\ g.payload_addr = heap_call[u].new
                 /\ g \in Live \/ (heap_pc[u] = "register" /\ g = InHand(u))
    BY <1>10, NewFacts
  <2>2. CASE g \in Live
    BY <1>9, <2>1, <2>2
  <2>3. CASE heap_pc[u] = "register" /\ g = InHand(u)
    <3>1. Handling(u)
      BY <2>3 DEF Handling
    <3>2. g.mapping_base # h.mapping_base /\ MapOf(g) \in mappings
      BY <1>2, <2>3, <3>1, HolderFacts DEF HeapIInv, MappingsHeld, h
    <3> QED
      BY <1>3, <2>1, <3>2, PlacesApart DEF HeapIInv
  <2> QED
    BY <2>1, <2>2, <2>3
<1>11. ASSUME NEW u \in HeapThreads \ {t}
       PROVE  /\ CallShape(u)' /\ ClaimSound(u)' /\ NewSound(u)'
              /\ HasNew(u)' <=> HasNew(u)
              /\ Claims(u)' <=> Claims(u)
              /\ Handling(u)' <=> Handling(u)
              /\ Handling(u) => InHand(u)' = InHand(u)
  <2>1. HasNew(u) =>
          /\ heap_call[u].new \notin DOMAIN granted'
          /\ heap_call[u].new \in DOMAIN memory'
          /\ memory'[heap_call[u].new] = memory[heap_call[u].new]
    BY <1>1, <1>4, <1>10, NewFacts
  <2> QED
    BY <1>1, <1>6, <1>8, <2>1, OtherThread
<1>12. HeapTypeOK'
  <2>1. memory' \in [DOMAIN memory' -> Cells]
    BY <1>4 DEF HeapIInv, HeapTypeOK
  <2>2. refused' \subseteq Regions
    BY <1>3, <1>4, HolderFacts DEF HeapIInv, HeapTypeOK
  <2> QED
    BY <1>1, <1>6, <2>1, <2>2 DEF HeapIInv, HeapTypeOK
<1>13. ListSound'
  BY <1>1, <1>4, <1>8, <1>9 DEF HeapIInv, ListSound
(* The mapping is gone, or it is no longer in any hand.                    *)
<1>14. MappingsHeld'
  <2>1. ASSUME NEW u \in HeapThreads \ {t}, Handling(u)
        PROVE  InHand(u).mapping_base # h.mapping_base
    BY <1>2, <2>1 DEF HeapIInv, MappingsHeld, h
  <2>2. \A g : MapOf(g).base = g.mapping_base
    BY DEF MapOf
  <2>3. mappings' = {MapOf(r) : r \in Live'}
                      \cup {MapOf(InHand(u)') : u \in {x \in HeapThreads : Handling(x)'}}
                      \cup refused'
    <3>1. ASSUME NEW m \in mappings'
          PROVE  \/ m \in {MapOf(r) : r \in Live}
                 \/ \E u \in HeapThreads \ {t} : Handling(u) /\ m = MapOf(InHand(u))
                 \/ m \in refused'
      BY <1>2, <1>4, <2>2 DEF HeapIInv, MappingsHeld, h
    <3>2. ASSUME NEW r \in Live PROVE MapOf(r) \in mappings'
      BY <1>4, <1>9, <2>2, HolderFacts
    <3>3. ASSUME NEW u \in HeapThreads \ {t}, Handling(u) PROVE MapOf(InHand(u)) \in mappings'
      BY <1>4, <2>1, <2>2, <3>3, HolderFacts
    <3>4. ASSUME NEW m \in refused' PROVE m \in mappings'
      BY <1>2, <1>3, <1>4, <3>4 DEF HeapIInv, MappingsHeld, h
    <3> QED
      BY <1>7, <1>8, <1>11, <3>1, <3>2, <3>3, <3>4
  <2>4. ASSUME NEW x \in HeapThreads, Handling(x)'
        PROVE  /\ \A r \in Live' : r.mapping_base # InHand(x)'.mapping_base
               /\ \A u \in HeapThreads : u # x /\ Handling(u)' =>
                    InHand(u)'.mapping_base # InHand(x)'.mapping_base
    <3>1. \A u \in HeapThreads : Handling(u)' => Handling(u) /\ InHand(u)' = InHand(u)
      BY <1>7, <1>11
    <3> QED
      BY <1>8, <2>4, <3>1 DEF HeapIInv, MappingsHeld
  <2>5. \A m, n \in mappings' : m # n => ~Overlap(m.base, m.len, n.base, n.len)
    BY <1>4 DEF HeapIInv, MappingsHeld
  <2>6. ASSUME NEW m \in refused'
        PROVE  /\ \A r \in Live' : r.mapping_base # m.base
               /\ \A u \in HeapThreads : Handling(u)' => InHand(u)'.mapping_base # m.base
    <3>1. CASE m \in refused
      BY <1>7, <1>8, <1>11, <3>1 DEF HeapIInv, MappingsHeld
    <3>2. CASE m = MapOf(h)
      BY <1>7, <1>8, <1>9, <1>11, <2>1, <2>2, <3>2
    <3> QED
      BY <1>4, <2>6, <3>1, <3>2
  <2> QED
    BY <2>3, <2>4, <2>5, <2>6 DEF MappingsHeld, MapOf
<1>15. GrantsRecorded'
  <2>1. \A p \in DOMAIN granted : memory'[p] = memory[p]
    BY <1>4, <1>9, GrantedFacts
  <2> QED
    BY <1>1, <1>8, <2>1 DEF HeapIInv, GrantsRecorded
<1>16. CallsApart'
  BY <1>6, <1>7, ApartStep
<1>17. CallShape(t)' /\ ClaimSound(t)' /\ NewSound(t)'
  BY <1>6, <1>7 DEF CallShape, ClaimSound, NewSound
<1> QED
  BY <1>6, <1>11, <1>12, <1>13, <1>14, <1>15, <1>16, <1>17 DEF HeapIInv

-----------------------------------------------------------------------------
(* The clients, between calls                                              *)

LEMMA ClientStep ==
  ASSUME HeapIInv, NEW t \in HeapThreads, heap_pc[t] = "idle", NEW p \in OwnedBy(t),
         UNCHANGED <<mappings, active, heap_pc, heap_call, refused>>,
         memory' \in [DOMAIN memory -> Cells],
         \A q \in DOMAIN memory : q # p => memory'[q] = memory[q],
         granted' \in [DOMAIN granted -> Grants],
         \A q \in DOMAIN granted : q # p => granted'[q] = granted[q],
         granted'[p].size = granted[p].size, granted'[p].alignment = granted[p].alignment,
         granted'[p].data.upto <= granted[p].size,
         memory'[p].data.stamp = granted'[p].data.stamp,
         memory'[p].data.upto >= granted'[p].data.upto
  PROVE  HeapIInv'
<1>1. p \in DOMAIN granted /\ granted[p].owner = t
  BY DEF OwnedBy
<1>2. Live' = Live
  BY DEF Live
<1>3. ASSUME NEW u \in HeapThreads
      PROVE  /\ CallShape(u)' /\ ClaimSound(u)' /\ NewSound(u)'
             /\ HasNew(u)' <=> HasNew(u)
             /\ Claims(u)' <=> Claims(u)
             /\ Handling(u)' <=> Handling(u)
             /\ Handling(u) => InHand(u)' = InHand(u)
  <2>1. Claims(u) => heap_call[u].ptr # p
    <3>1. Claims(u) => u # t
      BY DEF Claims
    <3>2. ClaimSound(u)
      BY DEF HeapIInv
    <3> QED
      BY <1>1, <3>1, <3>2 DEF ClaimSound
  <2>2. HasNew(u) =>
          /\ heap_call[u].new \notin DOMAIN granted'
          /\ heap_call[u].new \in DOMAIN memory'
          /\ memory'[heap_call[u].new] = memory[heap_call[u].new]
    BY <1>1, NewFacts
  <2> QED
    BY <1>2, <2>1, <2>2, OtherThread
<1>4. HeapTypeOK'
  BY DEF HeapIInv, HeapTypeOK
<1>5. ListSound'
  BY <1>2 DEF HeapIInv, ListSound
<1>6. MappingsHeld'
  BY <1>2, <1>3, HeldKept DEF KeptOrLost
<1>7. GrantsRecorded'
  <2> SUFFICES ASSUME NEW q \in DOMAIN granted
               PROVE  \E r \in Live :
                        /\ r.payload_addr = q
                        /\ r.requested_size = granted'[q].size
                        /\ r.alignment % granted'[q].alignment = 0
                        /\ granted'[q].data.upto <= granted'[q].size
                        /\ memory'[q].data.stamp = granted'[q].data.stamp
                        /\ memory'[q].data.upto >= granted'[q].data.upto
    BY <1>2 DEF GrantsRecorded
  <2>1. CASE q = p
    BY <1>1, <2>1 DEF HeapIInv, GrantsRecorded
  <2>2. CASE q # p
    <3>1. granted'[q] = granted[q] /\ memory'[q] = memory[q]
      BY <2>2, GrantedFacts
    <3> QED
      BY <3>1 DEF HeapIInv, GrantsRecorded
  <2> QED
    BY <2>1, <2>2
<1>8. CallsApart'
  BY <1>3 DEF HeapIInv, CallsApart
<1> QED
  BY <1>3, <1>4, <1>5, <1>6, <1>7, <1>8 DEF HeapIInv

LEMMA FillBlockStep ==
  ASSUME HeapIInv, NEW t \in HeapThreads, FillBlock(t)
  PROVE  HeapIInv'
<1>1. heap_pc[t] = "idle" /\ UNCHANGED <<mappings, active, heap_pc, heap_call, refused>>
  BY DEF FillBlock, HeapIdle
<1>2. PICK p \in OwnedBy(t) :
        /\ memory' = [memory EXCEPT ![p].data = Contents("written", granted[p].size)]
        /\ granted' = [granted EXCEPT ![p].data = Contents("written", granted[p].size)]
  BY DEF FillBlock
<1> DEFINE d == Contents("written", granted[p].size)
<1>3. p \in DOMAIN granted /\ p \in DOMAIN memory /\ granted[p] \in Grants /\ memory[p] \in Cells
  BY GrantedFacts DEF OwnedBy, HeapIInv, HeapTypeOK
<1>4. d \in Data /\ d.upto = granted[p].size /\ d.upto \in Nat
  BY <1>3 DEF Grants, Data, Contents
<1> HIDE DEF d
<1>5. /\ memory' \in [DOMAIN memory -> Cells] /\ memory'[p].data = d
      /\ \A q \in DOMAIN memory : q # p => memory'[q] = memory[q]
  BY <1>2, <1>3, <1>4 DEF HeapIInv, HeapTypeOK, Cells, d
<1>6. /\ granted' \in [DOMAIN granted -> Grants] /\ granted'[p].data = d
      /\ granted'[p].size = granted[p].size /\ granted'[p].alignment = granted[p].alignment
      /\ \A q \in DOMAIN granted : q # p => granted'[q] = granted[q]
  BY <1>2, <1>3, <1>4 DEF HeapIInv, HeapTypeOK, Grants, d
<1> QED
  BY <1>1, <1>4, <1>5, <1>6, ClientStep

LEMMA SpoofHeaderStep ==
  ASSUME HeapIInv, NEW t \in HeapThreads, SpoofHeader(t)
  PROVE  HeapIInv'
<1>1. heap_pc[t] = "idle" /\ UNCHANGED <<mappings, active, heap_pc, heap_call, granted, refused>>
  BY DEF SpoofHeader, HeapIdle
<1>2. PICK p \in OwnedBy(t) :
        LET h == memory[p].header
        IN memory' = [memory EXCEPT ![p].header =
               build_allocation_header(p, h.mapping_base, h.mapping_len, 0, h.alignment)]
  BY DEF SpoofHeader
<1> DEFINE h == memory[p].header
           g == build_allocation_header(p, h.mapping_base, h.mapping_len, 0, h.alignment)
<1>3. p \in DOMAIN granted /\ p \in DOMAIN memory /\ p \in Nat /\ memory[p] \in Cells
  BY GrantedFacts DEF OwnedBy, HeapIInv, HeapTypeOK
<1>4. /\ h \in Headers /\ h.mapping_base \in Bases /\ h.mapping_base \in Nat
      /\ h.mapping_len \in Nat /\ h.alignment \in Nat \ {0}
  <2>1. h \in Headers
    BY <1>3 DEF Cells
  <2>2. \A b \in Bases : b \in Nat
    BY HeapAssumption DEF Word
  <2> HIDE DEF h
  <2> QED
    BY <2>1, <2>2 DEF Headers
<1>5. g \in Headers
  BY <1>3, <1>4 DEF Headers, build_allocation_header, allocation_cookie
<1> HIDE DEF g
<1>6. /\ memory' \in [DOMAIN memory -> Cells] /\ memory'[p].data = memory[p].data
      /\ \A q \in DOMAIN memory : q # p => memory'[q] = memory[q]
  BY <1>2, <1>3, <1>5 DEF HeapIInv, HeapTypeOK, Cells, g
<1>7. /\ granted' \in [DOMAIN granted -> Grants]
      /\ granted[p].data.upto <= granted[p].size
      /\ memory[p].data.stamp = granted[p].data.stamp
      /\ memory[p].data.upto >= granted[p].data.upto
  BY <1>1, <1>3 DEF HeapIInv, HeapTypeOK, GrantsRecorded
<1> QED
  BY <1>1, <1>6, <1>7, ClientStep

-----------------------------------------------------------------------------
(* The invariant holds, and what it implies                                *)

(* The heap starts with nothing in it.                                     *)
LEMMA HeapInitEstablishes == ASSUME HeapInit PROVE HeapIInv
<1>1. HeapTypeOK
  BY DEF HeapInit, HeapTypeOK, HeapLabels, NoHeapCall, Calls, Null, None
<1>2. Live = {} /\ ListSound
  BY DEF HeapInit, Live, ListSound, IsInjective
<1>3. \A t \in HeapThreads : ~Handling(t) /\ ~HasNew(t) /\ ~Claims(t)
  BY DEF HeapInit, Handling, HasNew, Claims
<1>4. MappingsHeld
  BY <1>2, <1>3 DEF HeapInit, MappingsHeld
<1>5. GrantsRecorded
  BY DEF HeapInit, GrantsRecorded
<1>6. CallsApart
  BY <1>3 DEF HeapInit, CallsApart
<1>7. \A t \in HeapThreads : CallShape(t) /\ ClaimSound(t) /\ NewSound(t)
  BY <1>3 DEF HeapInit, CallShape, ClaimSound, NewSound
<1> QED
  BY <1>1, <1>2, <1>4, <1>5, <1>6, <1>7 DEF HeapIInv

(* Every step of every call, and every step of the program, keeps it.      *)
LEMMA HeapStepPreserves == ASSUME HeapIInv, [HeapNext]_heap_vars PROVE HeapIInv'
<1>1. CASE UNCHANGED heap_vars
  <2>1. UNCHANGED <<mappings, active, memory, heap_pc, heap_call, granted, refused>>
    BY <1>1 DEF heap_vars
  <2>2. Live' = Live
    BY <2>1 DEF Live
  <2>3. ASSUME NEW u \in HeapThreads
        PROVE  /\ CallShape(u)' /\ ClaimSound(u)' /\ NewSound(u)'
               /\ HasNew(u)' <=> HasNew(u)
               /\ Claims(u)' <=> Claims(u)
               /\ Handling(u)' <=> Handling(u)
               /\ Handling(u) => InHand(u)' = InHand(u)
    BY <2>1, <2>2, NewFacts, OtherThread
  <2>4. HeapTypeOK' /\ ListSound' /\ GrantsRecorded'
    BY <2>1, <2>2 DEF HeapIInv, HeapTypeOK, ListSound, GrantsRecorded
  <2>5. MappingsHeld'
    BY <2>1, <2>2, <2>3, HeldKept DEF KeptOrLost
  <2>6. CallsApart'
    BY <2>1, <2>3 DEF HeapIInv, CallsApart
  <2> QED
    BY <2>3, <2>4, <2>5, <2>6 DEF HeapIInv
<1>2. ASSUME NEW t \in HeapThreads,
             \/ AllocateCall(t) \/ ReleaseCall(t) \/ ResizeCall(t) \/ QueryCall(t)
             \/ FillBlock(t) \/ SpoofHeader(t)
             \/ MmapFails(t) \/ Mmap(t) \/ Register(t) \/ Fill(t)
             \/ LookupRecord(t) \/ ReadHeader(t) \/ Unregister(t) \/ Munmap(t)
      PROVE  HeapIInv'
  BY <1>2, AllocateCallStep, ReleaseCallStep, ResizeCallStep, QueryCallStep, FillBlockStep,
     SpoofHeaderStep, MmapFailsStep, MmapStep, RegisterStep, FillStep, LookupStep,
     ReadStep, UnregisterStep, MunmapStep
<1> QED
  BY <1>1, <1>2 DEF HeapNext

(* The invariant holds in every state, over every interleaving of the calls. *)
THEOREM HeapInductive == HeapSpec => []HeapIInv
<1> QED
  BY HeapInitEstablishes, HeapStepPreserves, PTL DEF HeapSpec

(* A granted block has the alignment, the room, the one record and the      *)
(* contents it was granted with, in a mapping without another.              *)
LEMMA BlocksAreBacked == ASSUME HeapIInv PROVE GrantedIsBacked
<1> SUFFICES ASSUME NEW p \in DOMAIN granted
             PROVE  /\ p % granted[p].alignment = 0
                    /\ p \in DOMAIN memory
                    /\ memory[p].data.stamp = granted[p].data.stamp
                    /\ memory[p].data.upto >= granted[p].data.upto
                    /\ \E m \in mappings \ refused :
                         /\ p - HEADER_SIZE >= m.base + RECORD_SIZE
                         /\ p + granted[p].size <= m.base + m.len
                         /\ \A q \in DOMAIN granted \ {p} : ~(m.base <= q /\ q < m.base + m.len)
                    /\ Cardinality(Records(p)) = 1
  BY DEF GrantedIsBacked
<1>1. PICK r \in Live : /\ Placed(r) /\ r.payload_addr = p /\ p \in DOMAIN memory
                        /\ r.requested_size = granted[p].size
                        /\ r.alignment % granted[p].alignment = 0
  BY GrantedFacts
<1>2. granted[p].alignment \in Nat \ {0}
  BY GrantedFacts DEF Grants
<1>3. p % granted[p].alignment = 0
  BY <1>1, <1>2, PlacedFacts, DivisibleTransitive
<1>4. memory[p].data.stamp = granted[p].data.stamp /\ memory[p].data.upto >= granted[p].data.upto
  BY DEF HeapIInv, GrantsRecorded
<1>5. /\ MapOf(r) \in mappings \ refused
      /\ p - HEADER_SIZE >= MapOf(r).base + RECORD_SIZE
      /\ p + granted[p].size <= MapOf(r).base + MapOf(r).len
  <2>1. MapOf(r) \notin refused
    BY <1>1 DEF HeapIInv, MappingsHeld, MapOf
  <2> QED
    BY <1>1, <2>1, HolderFacts, PlacedFacts DEF MapOf
<1>6. ASSUME NEW q \in DOMAIN granted \ {p}
      PROVE  ~(MapOf(r).base <= q /\ q < MapOf(r).base + MapOf(r).len)
  <2>1. PICK s \in Live : Placed(s) /\ s.payload_addr = q
    BY GrantedFacts
  <2>2. MapOf(s) \in mappings /\ r.mapping_base # s.mapping_base
    BY <1>1, <2>1, HolderFacts DEF HeapIInv, ListSound
  <2>3. ~Overlap(r.mapping_base, r.mapping_len, s.mapping_base, s.mapping_len)
    BY <1>5, <2>2 DEF HeapIInv, MappingsHeld, MapOf
  <2> QED
    BY <1>1, <2>1, <2>3, PlacedFacts DEF Overlap, MapOf
<1>7. Cardinality(Records(p)) = 1
  <2>1. Records(p) # {}
    BY <1>1, FirstRecordFacts DEF HeapIInv
  <2>2. Records(p) = {FirstRecord(p)}
    BY <2>1, FirstRecordFacts DEF HeapIInv
  <2> QED
    BY <2>2, FS_Singleton
<1> QED
  BY <1>1, <1>3, <1>4, <1>5, <1>6, <1>7

(* Every mapping has one holder, a record or a thread, or was refused.     *)
LEMMA HoldersAreAccounted == ASSUME HeapIInv PROVE MappingsAreAccounted
<1> DEFINE recorded == {[base |-> active[i].mapping_base, len |-> active[i].mapping_len] :
                          i \in DOMAIN active}
           handled == {[base |-> memory[heap_call[t].new].header.mapping_base,
                        len |-> memory[heap_call[t].new].header.mapping_len] :
                         t \in {u \in HeapThreads : heap_pc[u] = "register"}}
                      \cup
                      {[base |-> heap_call[t].header.mapping_base,
                        len |-> heap_call[t].header.mapping_len] :
                         t \in {u \in HeapThreads : heap_pc[u] = "munmap"}}
           n == Len(active)
<1>1. active \in Seq(Headers) /\ n \in Nat /\ DOMAIN active = 1..n /\ IsInjective(active)
  BY DEF HeapIInv, HeapTypeOK, ListSound
<1>2. recorded = {MapOf(r) : r \in Live}
  BY DEF Live, MapOf
<1>3. handled = {MapOf(InHand(t)) : t \in {u \in HeapThreads : Handling(u)}}
  <2>1. \A t \in HeapThreads : heap_pc[t] = "register" =>
          Handling(t) /\ InHand(t) = memory[heap_call[t].new].header
    BY DEF Handling, InHand
  <2>2. \A t \in HeapThreads : heap_pc[t] = "munmap" =>
          Handling(t) /\ InHand(t) = heap_call[t].header
    BY DEF Handling, InHand
  <2>3. \A t \in HeapThreads : Handling(t) => heap_pc[t] = "register" \/ heap_pc[t] = "munmap"
    BY DEF Handling
  <2> QED
    BY <2>1, <2>2, <2>3 DEF MapOf
<1> HIDE DEF handled
<1>4. mappings = recorded \cup handled \cup refused
  BY <1>2, <1>3 DEF HeapIInv, MappingsHeld
<1>5. recorded \cap handled = {}
  <2> SUFFICES ASSUME NEW r \in Live, NEW t \in HeapThreads, Handling(t), MapOf(r) = MapOf(InHand(t))
               PROVE  FALSE
    BY <1>2, <1>3
  <2>1. r.mapping_base # InHand(t).mapping_base
    BY DEF HeapIInv, MappingsHeld
  <2> QED
    BY <2>1 DEF MapOf
<1>6. Cardinality(recorded) = n
  <2> DEFINE f == [i \in 1..n |-> MapOf(active[i])]
  <2>1. \A i, j \in 1..n : f[i] = f[j] => i = j
    <3> SUFFICES ASSUME NEW i \in 1..n, NEW j \in 1..n, f[i] = f[j] PROVE i = j
      OBVIOUS
    <3>1. active[i] \in Live /\ active[j] \in Live
      BY <1>1 DEF Live
    <3>2. active[i].mapping_base = active[j].mapping_base
      BY DEF MapOf
    <3>3. active[i] = active[j]
      BY <3>1, <3>2 DEF HeapIInv, ListSound
    <3> QED
      BY <1>1, <3>3 DEF IsInjective
  <2>2. f \in [1..n -> recorded] /\ \A m \in recorded : \E i \in 1..n : f[i] = m
    BY <1>1 DEF MapOf
  <2> HIDE DEF f, recorded, n
  <2>3. f \in Bijection(1..n, recorded)
    BY <2>1, <2>2 DEF Bijection, Injection, Surjection, IsInjective
  <2>4. ExistsBijection(1..n, recorded)
    BY <2>3 DEF ExistsBijection
  <2>5. IsFiniteSet(1..n) /\ Cardinality(1..n) = n
    BY <1>1, FS_Interval
  <2> QED
    BY <2>4, <2>5, FS_Bijection
<1>7. refused \cap (recorded \cup handled) = {}
  BY <1>2, <1>3 DEF HeapIInv, MappingsHeld, MapOf
<1>8. ASSUME NEW t \in HeapThreads
      PROVE  /\ \/ heap_pc[t] = "read"
                \/ heap_pc[t] = "fill" /\ heap_call[t].op = "realloc"
                => heap_call[t].ptr \in DOMAIN memory
             /\ heap_pc[t] = "fill" => heap_call[t].new \in DOMAIN memory
  BY DEF HeapIInv, ClaimSound, NewSound, ListSound
<1> QED
  BY <1>4, <1>5, <1>6, <1>7, <1>8 DEF MappingsAreAccounted, handled

(* The allocator's promise, for every set of threads, page-aligned bases,   *)
(* requests, alignments and sizes of the structures, under every            *)
(* interleaving of the calls, whichever mmap and munmap the kernel refuses. *)
THEOREM HeapSound == HeapSpec => []HeapIsSound
<1>1. HeapIInv => HeapIsSound
  BY BlocksAreBacked, HoldersAreAccounted DEF HeapIsSound
<1> QED
  BY <1>1, HeapInductive, PTL
=============================================================================
