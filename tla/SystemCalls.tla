----------------------------- MODULE SystemCalls -----------------------------
(***************************************************************************)
(* The thin wrappers over system calls and the thread-local errno they     *)
(* report through: src/src/unistd.rs, src/src/fs/mod.rs, src/src/socket.rs,*)
(* src/src/fcntl.rs, src/src/resource.rs, src/src/errno.rs and             *)
(* src/src/syscall/mod.rs; and setlocale (src/src/locale.rs), which must   *)
(* leave errno alone.  The kernel is external: a call answers with a raw   *)
(* register value, a negated error number or a result.  Every wrapper      *)
(* decodes the register in its own way; none keeps state but errno and the *)
(* locale.                                                                 *)
(***************************************************************************)
EXTENDS Integers, Sequences

CONSTANTS
    CallThreads,     \* threads, each with its errno
    MAX_ERRNO,       \* largest error number the kernel answers (4095)
    SIGN_BIT,        \* the first id whose bits are a negative c_int (2^31)
    KernelErrors,    \* error numbers the kernel answers with
    KernelValues,    \* results of descriptor and count calls
    KernelIds,       \* user and group ids
    EFAULT_NUMBER,   \* the value of EFAULT
    Environments     \* values of the locale variables: [variable -> value]

ASSUME CallsAssumption ==
    /\ MAX_ERRNO \in Nat \ {0} /\ SIGN_BIT \in Nat \ {0}
    /\ KernelErrors \subseteq 1..MAX_ERRNO /\ EFAULT_NUMBER \in 1..MAX_ERRNO
    /\ KernelValues \subseteq Nat /\ KernelIds \subseteq 0..(2 * SIGN_BIT - 1)

VARIABLES
    errno_of,   \* thread -> its errno
    answer,     \* thread -> what its last call returned
    raw_of,     \* thread -> the register its last call saw and the call's kind
    before_of   \* thread -> its errno when that call was made
call_vars == <<errno_of, answer, raw_of, before_of>>

(***************************************************************************)
(* Decoding.                                                               *)
(***************************************************************************)
errno_from_raw(raw) == -raw

MutDecodeRaw_Window(raw) ==
    IF raw \in (-MAX_ERRNO)..(-2) THEN [ok |-> FALSE, value |-> -raw]
    ELSE [ok |-> TRUE, value |-> raw]

(* Only the window of error numbers is a failure.                           *)
decode_raw(raw) ==
    IF raw \in (-MAX_ERRNO)..(-1) THEN [ok |-> FALSE, value |-> -raw]
    ELSE [ok |-> TRUE, value |-> raw]

(* c_int::from_ne_bytes of the unsigned value: the upper half is negative.  *)
abi_u32_bits_as_c_int(raw) ==
    IF raw < SIGN_BIT THEN raw ELSE raw - 2 * SIGN_BIT

MutSetErrno_Shared(errnos, t, value) == [u \in CallThreads |-> value]

(* errno is thread-local storage.                                          *)
set_errno(errnos, t, value) == [errnos EXCEPT ![t] = value]

(* What a wrapper does with the register: [answer, error], error 0 when     *)
(* errno is not written.                                                    *)
Failed(raw, value) == [answer |-> value, error |-> errno_from_raw(raw)]
Passing(raw) == IF raw < 0 THEN Failed(raw, -1) ELSE [answer |-> raw, error |-> 0]
status_result(raw) == IF raw < 0 THEN Failed(raw, -1) ELSE [answer |-> 0, error |-> 0]
fd_result(raw) == Passing(raw)
Identity(raw) ==
    IF raw < 0 THEN Failed(raw, -1)
    ELSE [answer |-> abi_u32_bits_as_c_int(raw), error |-> 0]
isatty(raw) == IF raw < 0 THEN Failed(raw, 0) ELSE [answer |-> 1, error |-> 0]
sync(raw) == [answer |-> 0, error |-> 0]
syscall_status(raw) ==
    LET decoded == decode_raw(raw)
    IN IF decoded.ok THEN [answer |-> 0, error |-> 0]
       ELSE [answer |-> -1, error |-> decoded.value]

(***************************************************************************)
(* The calls.  A kind groups the functions with the same body.             *)
(***************************************************************************)
Return(t, kind, raw, outcome) ==
    /\ before_of' = [before_of EXCEPT ![t] = errno_of[t]]
    /\ raw_of' = [raw_of EXCEPT ![t] = [kind |-> kind, raw |-> raw]]
    /\ answer' = [answer EXCEPT ![t] = outcome.answer]
    /\ errno_of' = IF outcome.error = 0 THEN errno_of
                   ELSE set_errno(errno_of, t, outcome.error)

Errors == {-error : error \in KernelErrors}
Registers == Errors \union KernelValues

access_unlink(t) ==
    \E raw \in Errors \union {0} : Return(t, "status", raw, Passing(raw))
pipe(t) ==
    \E raw \in Errors \union {0} : Return(t, "status", raw, Passing(raw))
fsync(t) ==
    \E raw \in Errors \union {0} : Return(t, "status", raw, Passing(raw))
sync_call(t) ==
    \E raw \in {0} : Return(t, "silent", raw, sync(raw))
close_dup(t) ==
    \E raw \in Registers : Return(t, "number", raw, Passing(raw))
open(t) ==
    \E raw \in Registers : Return(t, "number", raw, Passing(raw))
openat(t) ==
    \E raw \in Registers : Return(t, "number", raw, Passing(raw))
getpid(t) ==
    \E raw \in Registers : Return(t, "number", raw, Passing(raw))
getuid(t) ==
    \E raw \in Errors \union KernelIds : Return(t, "identity", raw, Identity(raw))
lseek(t) ==
    \E raw \in Registers : Return(t, "number", raw, Passing(raw))
read_write(t) ==
    \E raw \in Registers : Return(t, "number", raw, Passing(raw))
send_recv(t) ==
    \E raw \in Registers : Return(t, "number", raw, Passing(raw))
isatty_call(t) ==
    \E raw \in Errors \union {0} : Return(t, "terminal", raw, isatty(raw))
stat(t) ==
    \E raw \in Errors \union {0} : Return(t, "status", raw, syscall_status(raw))
socket(t) ==
    \E raw \in Registers : Return(t, "number", raw, fd_result(raw))
accept(t) ==
    \E raw \in Registers : Return(t, "number", raw, fd_result(raw))
connect_bind_listen(t) ==
    \E raw \in Errors \union {0} : Return(t, "status", raw, status_result(raw))
fcntl(t) ==
    \E raw \in Registers : Return(t, "number", raw, Passing(raw))
prlimit64(t) ==
    \E raw \in Errors \union {0} : Return(t, "status", raw, status_result(raw))

(* getrlimit and setrlimit refuse a null pointer before they call           *)
(* prlimit64; the refusal is what the kernel would have answered.           *)
NullRlimit(t) ==
    Return(t, "status", -EFAULT_NUMBER, [answer |-> -1, error |-> EFAULT_NUMBER])

(***************************************************************************)
(* setlocale: an empty name is resolved from the environment.              *)
(***************************************************************************)
CATEGORY_VARIABLES == {"LC_CTYPE", "LC_NUMERIC", "LC_TIME", "LC_COLLATE",
                       "LC_MONETARY", "LC_MESSAGES"}
LocaleNames == {"C", "POSIX"}

parse_environment_locale(environment, variable) ==
    LET name == IF variable \in DOMAIN environment THEN environment[variable] ELSE ""
    IN IF name = "" THEN "NotSet"
       ELSE IF name \in LocaleNames THEN "Supported" ELSE "Unsupported"

resolve_locale_with_fallback(preferred, fallback) ==
    IF preferred = "NotSet" THEN fallback # "Unsupported" ELSE preferred = "Supported"

resolve_category_locale_from_environment(environment, category) ==
    LET all == parse_environment_locale(environment, "LC_ALL")
    IN IF all # "NotSet" THEN all = "Supported"
       ELSE resolve_locale_with_fallback(
                parse_environment_locale(environment, category),
                parse_environment_locale(environment, "LANG"))

resolve_all_categories_from_environment(environment) ==
    LET all == parse_environment_locale(environment, "LC_ALL")
        lang == parse_environment_locale(environment, "LANG")
    IN IF all # "NotSet" THEN all = "Supported"
       ELSE \A variable \in CATEGORY_VARIABLES :
                resolve_locale_with_fallback(
                    parse_environment_locale(environment, variable), lang)

(* The answer of setlocale: TRUE for the pointer to "C", FALSE for null.     *)
Localised(environment, category, name) ==
    CASE category \notin CATEGORY_VARIABLES \union {"LC_ALL"} -> FALSE
      [] name = "null" -> TRUE
      [] name # "" -> name \in LocaleNames
      [] category = "LC_ALL" -> resolve_all_categories_from_environment(environment)
      [] OTHER -> resolve_category_locale_from_environment(environment, category)

MutGuard_Drops(errnos, t, within) == [errnos EXCEPT ![t] = within]

(* ErrnoGuard: whatever is written while the call runs is undone when it    *)
(* returns.                                                                 *)
ErrnoGuard(errnos, t, within) == [errnos EXCEPT ![t] = errnos[t]]

setlocale(t) ==
    \E environment \in Environments, name \in {"null", "", "POSIX", "xx"},
       category \in {"LC_ALL", "LC_TIME", "bad"}, within \in KernelErrors :
        /\ before_of' = [before_of EXCEPT ![t] = errno_of[t]]
        /\ raw_of' = [raw_of EXCEPT ![t] = [kind |-> "silent", raw |-> 0]]
        /\ answer' = [answer EXCEPT ![t] =
               IF Localised(environment, category, name) THEN 1 ELSE 0]
        /\ errno_of' = ErrnoGuard(errno_of, t, within)

CallInit ==
    /\ errno_of = [t \in CallThreads |-> 0]
    /\ before_of = [t \in CallThreads |-> 0]
    /\ answer = [t \in CallThreads |-> 0]
    /\ raw_of = [t \in CallThreads |-> [kind |-> "silent", raw |-> 0]]

CallNext ==
    \E t \in CallThreads :
        \/ access_unlink(t) \/ pipe(t) \/ fsync(t) \/ sync_call(t) \/ close_dup(t)
        \/ open(t) \/ openat(t) \/ accept(t) \/ getpid(t) \/ getuid(t) \/ lseek(t) \/ read_write(t)
        \/ send_recv(t) \/ isatty_call(t) \/ stat(t) \/ socket(t)
        \/ connect_bind_listen(t) \/ fcntl(t) \/ prlimit64(t) \/ NullRlimit(t)
        \/ setlocale(t)

CallSpec == CallInit /\ [][CallNext]_call_vars

(***************************************************************************)
(* Properties.                                                             *)
(***************************************************************************)
(* A caller can tell what happened from the return value and its own errno, *)
(* however long it waits and whatever the other threads' calls do: a        *)
(* failure (-1, or 0 of isatty) comes with the kernel's error number in the *)
(* caller's errno, and a success leaves errno as it was and gives the       *)
(* kernel's value, ids in the upper half of their range included            *)
(* (set_errno, errno_from_raw, decode_raw, abi_u32_bits_as_c_int).          *)
ErrnoIsOfTheCaller ==
    \A t \in CallThreads :
        LET kind == raw_of[t].kind raw == raw_of[t].raw
        IN IF kind # "silent" /\ raw < 0
           THEN errno_of[t] = -raw /\ answer[t] = IF kind = "terminal" THEN 0 ELSE -1
           ELSE /\ errno_of[t] = before_of[t]
                /\ kind \in {"number", "status"} => answer[t] = raw
                /\ kind = "identity" =>
                       /\ (answer[t] - raw) % (2 * SIGN_BIT) = 0
                       /\ answer[t] \in (-SIGN_BIT)..(SIGN_BIT - 1)
                /\ kind = "terminal" => answer[t] = 1

(* setlocale(LC_ALL, "") succeeds exactly when every category's             *)
(* setlocale(category, "") does (resolve_all_categories_from_environment     *)
(* against resolve_category_locale_from_environment), so a program that     *)
(* asks for all at once or one by one ends up alike.                        *)
LocaleIsUniform(environment) ==
    Localised(environment, "LC_ALL", "") <=>
        \A category \in CATEGORY_VARIABLES : Localised(environment, category, "")
=============================================================================
