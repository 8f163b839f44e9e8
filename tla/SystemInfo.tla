----------------------------- MODULE SystemInfo -----------------------------
(***************************************************************************)
(* The system information of system.rs: sysconf and the sources it falls   *)
(* back on, the page size, and gethostname.                                *)
(*                                                                         *)
(* A file the kernel may not provide is <<>>, else <<contents>>. A CPU     *)
(* list is a sequence of tokens: <<first, last>>, or BadToken for one that *)
(* is not a number or a range of numbers.                                  *)
(***************************************************************************)
EXTENDS Integers, Sequences, SequencesExt, FiniteSets, FiniteSetsExt

CONSTANTS
  USIZE_MAX,                   \* usize::MAX, the bound of the checked sums
  SYS_LONG_MAX,                \* c_long::MAX
  SYS_INT_MAX,                 \* c_int::MAX
  SCHED_AFFINITY_BYTES,
  MAX_SCHED_AFFINITY_BYTES,
  UTSNAME_MAX_PAYLOAD_LEN

Unavailable == <<>>
BadToken == <<>>
PAGE_SIZE_VALUE == 4096
CLK_TCK_VALUE == 100
OPEN_MAX_FALLBACK_VALUE == 1024
AT_NULL == 0
AT_PAGESZ == 6

Some(value) == <<value>>
Unwrap(option, default) == IF option = Unavailable THEN default ELSE option[1]
OrElse(option, other) == IF option = Unavailable THEN other ELSE option

\* Mutant: a range that overlaps the one before it is accepted.
MutCpuRangeList_Overlap(tokens) ==
  LET run[n \in 0..Len(tokens)] ==
        IF n = 0 THEN Some(0)
        ELSE IF run[n - 1] = Unavailable \/ tokens[n] = BadToken THEN Unavailable
        ELSE IF tokens[n][2] < tokens[n][1] THEN Unavailable
        ELSE Some(run[n - 1][1] + tokens[n][2] - tokens[n][1] + 1)
  IN IF tokens = <<>> THEN Unavailable ELSE run[Len(tokens)]

\* The CPUs of the list, None when it is malformed or a sum overflows.
parse_cpu_range_list(tokens) ==
  LET Refused(n) ==
        \/ tokens[n] = BadToken
        \/ tokens[n][2] < tokens[n][1]
        \/ n > 1 /\ tokens[n - 1][2] + 1 > USIZE_MAX
        \/ n > 1 /\ tokens[n][1] < tokens[n - 1][2] + 1
        \/ tokens[n][2] - tokens[n][1] + 1 > USIZE_MAX
      run[n \in 0..Len(tokens)] ==
        IF n = 0 THEN Some(0)
        ELSE IF run[n - 1] = Unavailable \/ Refused(n) THEN Unavailable
        ELSE LET total == run[n - 1][1] + tokens[n][2] - tokens[n][1] + 1
             IN IF total > USIZE_MAX THEN Unavailable ELSE Some(total)
  IN IF tokens = <<>> THEN Unavailable ELSE run[Len(tokens)]

\* parse_online_processor_count and parse_configured_processor_count.
parse_processor_count(contents) ==
  LET count == IF contents = Unavailable THEN Unavailable ELSE parse_cpu_range_list(contents[1])
  IN IF count # Unavailable /\ count[1] \in 1..SYS_LONG_MAX THEN count ELSE Unavailable

\* /proc/stat, as the number of its lines for one CPU.
parse_proc_stat_processor_count(stat) ==
  IF stat = Unavailable THEN Unavailable ELSE Some(Max({stat[1], 1}))

\* sched_getaffinity with a mask of so many bytes: EINVAL while the kernel's
\* mask is longer, another error, or the CPUs of the mask.
query_online_processor_count(mask_len, kernel) ==
  CASE kernel.fails -> [ok |-> FALSE, count |-> 0, errno |-> "other"]
    [] ~kernel.fails /\ mask_len < kernel.bytes -> [ok |-> FALSE, count |-> 0, errno |-> "EINVAL"]
    [] OTHER -> [ok |-> TRUE, count |-> Max({kernel.cpus, 1}), errno |-> "none"]

\* The mask is doubled until the kernel takes it or it would be too long.
online_processor_count_with_retries(kernel) ==
  LET lengths == {SCHED_AFFINITY_BYTES * 2^k : k \in 0..10} \cap (0..MAX_SCHED_AFFINITY_BYTES)
      tried   == {len \in lengths :
                    \A less \in lengths : less < len =>
                      query_online_processor_count(less, kernel).errno = "EINVAL"}
      last    == query_online_processor_count(Max(tried), kernel)
  IN IF last.ok THEN Max({last.count, 1}) ELSE 1

online_processor_count(online, stat, kernel) ==
  Unwrap(OrElse(parse_processor_count(online), parse_proc_stat_processor_count(stat)),
         online_processor_count_with_retries(kernel))

configured_processor_count(possible, present, fallback_online) ==
  Max({Unwrap(OrElse(parse_processor_count(possible), parse_processor_count(present)),
              fallback_online), 1})

\* The auxiliary vector is a sequence of <<key, value>>.
parse_page_size_from_auxv_bytes(auxv) ==
  LET hits == {n \in DOMAIN auxv : /\ auxv[n][1] = AT_PAGESZ
                                   /\ \A m \in 1..(n - 1) : auxv[m][1] \notin {AT_NULL, AT_PAGESZ}}
      value == auxv[CHOOSE n \in hits : TRUE][2]
  IN IF hits # {} /\ value \in 1..SYS_INT_MAX THEN Some(value) ELSE Unavailable

detect_page_size(auxv) ==
  Unwrap(IF auxv = Unavailable THEN Unavailable ELSE parse_page_size_from_auxv_bytes(auxv[1]),
         PAGE_SIZE_VALUE)

\* RLIM_INFINITY is usize::MAX; a failed prlimit64 is <<>>.
open_max_value(limit) ==
  CASE limit = Unavailable -> OPEN_MAX_FALLBACK_VALUE
    [] limit = Some(USIZE_MAX) -> OPEN_MAX_FALLBACK_VALUE
    [] OTHER -> IF limit[1] > SYS_LONG_MAX THEN SYS_LONG_MAX ELSE limit[1]

sysconf(name, world) ==
  LET online == online_processor_count(world.online, world.stat, world.kernel)
  IN CASE name = "_SC_CLK_TCK"          -> CLK_TCK_VALUE
       [] name = "_SC_OPEN_MAX"         -> open_max_value(world.limit)
       [] name = "_SC_PAGESIZE"         -> detect_page_size(world.auxv)
       [] name = "_SC_NPROCESSORS_CONF" ->
            configured_processor_count(world.possible, world.present, online)
       [] name = "_SC_NPROCESSORS_ONLN" -> online
       [] OTHER                         -> -1

\* The bytes before the first NUL, at most the payload.
nodename_payload_len(nodename) ==
  LET ends == {i \in 0..(UTSNAME_MAX_PAYLOAD_LEN - 1) : i < Len(nodename) /\ nodename[i + 1] = 0}
  IN IF ends = {} THEN UTSNAME_MAX_PAYLOAD_LEN ELSE Min(ends)

\* gethostname: the buffer it leaves (the bytes it wrote) and its answer. A
\* null `name' and a failed uname leave the buffer alone.
gethostname(len, null, uname_fails, nodename) ==
  LET name_len == nodename_payload_len(nodename)
      copy_len == IF len < name_len THEN len ELSE name_len
      prefix   == SubSeq(nodename, 1, copy_len)
  IN CASE len = 0                              -> [written |-> <<>>, errno |-> "ENAMETOOLONG"]
       [] len > 0 /\ null                      -> [written |-> <<>>, errno |-> "EFAULT"]
       [] len > 0 /\ ~null /\ uname_fails      -> [written |-> <<>>, errno |-> "kernel"]
       [] OTHER -> IF len > name_len THEN [written |-> Append(prefix, 0), errno |-> "none"]
                   ELSE [written |-> prefix, errno |-> "ENAMETOOLONG"]

-----------------------------------------------------------------------------
(* The processor counts sysconf gives are positive, and when the kernel's  *)
(* list is one of disjoint ascending ranges they are the number of CPUs in *)
(* it; a malformed list never counts, the next source does (system.rs,     *)
(* parse_cpu_range_list and the chain of fallbacks behind it).             *)
ProcessorCountsAreExact(list, world) ==
  LET w      == [world EXCEPT !.online = Some(list)]
      count  == sysconf("_SC_NPROCESSORS_ONLN", w)
      cpus   == UNION {list[n][1]..list[n][2] : n \in DOMAIN list}
      sound  == /\ list # <<>>
                /\ \A n \in DOMAIN list : list[n] # BadToken /\ list[n][1] <= list[n][2]
                /\ \A n \in 2..Len(list) : list[n - 1][2] < list[n][1]
  IN /\ count >= 1
     /\ sound => count = Cardinality(cpus)
     /\ ~sound => count = sysconf("_SC_NPROCESSORS_ONLN", [world EXCEPT !.online = Unavailable])
     /\ sysconf("_SC_NPROCESSORS_CONF", w) >= 1
     /\ world.online = Unavailable /\ world.stat = Unavailable /\ ~world.kernel.fails
          /\ world.kernel.bytes <= MAX_SCHED_AFFINITY_BYTES
          /\ world.kernel.cpus > 0 =>
            sysconf("_SC_NPROCESSORS_ONLN", world) = world.kernel.cpus

=============================================================================
