---------------------------- MODULE PthreadAttrs -----------------------------
(***************************************************************************)
(* Attribute objects of mutexes and condition variables and the objects    *)
(* made from them (src/src/pthread.rs).  An attribute object is storage of *)
(* the caller: before its init it holds anything.  The objects made from   *)
(* it are seen only as what they were made with; PthreadMutex and          *)
(* PthreadCond model what they do.                                         *)
(***************************************************************************)
EXTENDS Integers, Sequences

CONSTANTS
    AttrMutexes,       \* mutex objects to be made
    AttrConds,         \* condition variables to be made
    MutexTypes,        \* PTHREAD_MUTEX_NORMAL, _RECURSIVE, _ERRORCHECK
    DefaultType,       \* PTHREAD_MUTEX_DEFAULT
    BadType,           \* a number that is no mutex type
    BadShared          \* a number that is no process-shared selector

ASSUME AttrsAssumption == DefaultType \in MutexTypes

VARIABLES
    mutexattr,   \* [initialized, mutex_type, pshared]
    condattr,    \* [initialized, pshared]
    made,        \* mutex -> <<>> or <<its type>>
    conds_made,  \* condition variable -> whether it is initialised
    asked_type,  \* <<>> or <<the type the program chose for mutexattr>>
    made_as      \* mutex -> <<>> or <<the type the program chose for it>>
attr_vars == <<mutexattr, condattr, made, conds_made, asked_type, made_as>>

SharedSelectors == {"PRIVATE", "SHARED"}
validate_mutex_type(mutex_type) == mutex_type \in MutexTypes

pthread_mutexattr_init ==
    /\ mutexattr' = [initialized |-> TRUE, mutex_type |-> DefaultType,
                     pshared |-> "PRIVATE"]
    /\ asked_type' = <<DefaultType>>
    /\ UNCHANGED <<condattr, made, conds_made, made_as>>

pthread_mutexattr_destroy ==
    /\ mutexattr' = [mutexattr EXCEPT !.initialized = FALSE]
    /\ asked_type' = <<>>
    /\ UNCHANGED <<condattr, made, conds_made, made_as>>

(* An EINVAL answer leaves the object as it is.                            *)
pthread_mutexattr_settype(mutex_type) ==
    /\ validate_mutex_type(mutex_type) /\ mutexattr.initialized
    /\ mutexattr' = [mutexattr EXCEPT !.mutex_type = mutex_type]
    /\ asked_type' = IF asked_type = <<>> THEN <<>> ELSE <<mutex_type>>
    /\ UNCHANGED <<condattr, made, conds_made, made_as>>

pthread_mutexattr_setpshared(pshared) ==
    /\ mutexattr.initialized /\ pshared \in SharedSelectors
    /\ mutexattr' = [mutexattr EXCEPT !.pshared = pshared]
    /\ UNCHANGED <<condattr, made, conds_made, asked_type, made_as>>

(* gettype and getpshared: <<>> stands for EINVAL.                         *)
pthread_mutexattr_gettype ==
    IF mutexattr.initialized THEN <<mutexattr.mutex_type>> ELSE <<>>

pthread_mutexattr_getpshared ==
    IF mutexattr.initialized THEN <<mutexattr.pshared>> ELSE <<>>

MutConfigured_Unvalidated(with_attr) ==
    IF ~with_attr THEN <<DefaultType>>
    ELSE IF ~mutexattr.initialized THEN <<>> ELSE <<mutexattr.mutex_type>>

(* The type pthread_mutex_init_impl makes a mutex with, <<>> for EINVAL.    *)
Configured(with_attr) ==
    IF ~with_attr THEN <<DefaultType>>
    ELSE IF \/ ~mutexattr.initialized
            \/ ~validate_mutex_type(mutexattr.mutex_type)
            \/ mutexattr.pshared \notin SharedSelectors
         THEN <<>> ELSE <<mutexattr.mutex_type>>

pthread_mutex_init(m, with_attr) ==
    /\ Configured(with_attr) # <<>>
    /\ made[m] = <<>>                       \* otherwise EBUSY
    /\ made' = [made EXCEPT ![m] = Configured(with_attr)]
    /\ made_as' = [made_as EXCEPT ![m] = IF with_attr THEN asked_type ELSE <<DefaultType>>]
    /\ UNCHANGED <<mutexattr, condattr, conds_made, asked_type>>

pthread_condattr_init ==
    /\ condattr' = [initialized |-> TRUE, pshared |-> "PRIVATE"]
    /\ UNCHANGED <<mutexattr, made, conds_made, asked_type, made_as>>

(* A no-op: the object stays usable.                                       *)
pthread_condattr_destroy == UNCHANGED attr_vars

pthread_condattr_setpshared(pshared) ==
    /\ condattr.initialized /\ pshared \in SharedSelectors
    /\ condattr' = [condattr EXCEPT !.pshared = pshared]
    /\ UNCHANGED <<mutexattr, made, conds_made, asked_type, made_as>>

pthread_condattr_getpshared ==
    IF condattr.initialized THEN <<condattr.pshared>> ELSE <<>>

pthread_cond_init(c, with_attr) ==
    /\ with_attr => condattr.initialized /\ condattr.pshared \in SharedSelectors
    /\ ~conds_made[c]                       \* otherwise EBUSY
    /\ conds_made' = [conds_made EXCEPT ![c] = TRUE]
    /\ UNCHANGED <<mutexattr, condattr, made, asked_type, made_as>>

AttrInit ==
    /\ mutexattr \in [initialized: BOOLEAN, mutex_type: {BadType} \union MutexTypes,
                      pshared: {BadShared, "SHARED"}]
    /\ condattr \in [initialized: BOOLEAN, pshared: {BadShared, "SHARED"}]
    /\ made = [m \in AttrMutexes |-> <<>>] /\ made_as = made
    /\ conds_made = [c \in AttrConds |-> FALSE]
    /\ asked_type = <<>>

AttrNext ==
    \/ pthread_mutexattr_init \/ pthread_mutexattr_destroy
    \/ \E mutex_type \in MutexTypes \union {BadType} : pthread_mutexattr_settype(mutex_type)
    \/ \E pshared \in SharedSelectors \union {BadShared} :
           pthread_mutexattr_setpshared(pshared) \/ pthread_condattr_setpshared(pshared)
    \/ pthread_condattr_init \/ pthread_condattr_destroy
    \/ \E with_attr \in BOOLEAN :
           \/ \E m \in AttrMutexes : pthread_mutex_init(m, with_attr)
           \/ \E c \in AttrConds : pthread_cond_init(c, with_attr)

AttrSpec == AttrInit /\ [][AttrNext]_attr_vars

(* A mutex is of the type its program chose when it was made, whatever is   *)
(* done to the attribute object afterwards, and of a real type even when    *)
(* the attribute object was never initialised (pthread_mutex_init_impl,     *)
(* pthread_mutexattr_settype_impl); what gettype reports of an initialised  *)
(* object is what the next mutex gets.                                      *)
MutexesAreAsConfigured ==
    /\ \A m \in AttrMutexes :
           made[m] # <<>> =>
               /\ validate_mutex_type(made[m][1])
               /\ made_as[m] # <<>> => made[m] = made_as[m]
    /\ asked_type # <<>> =>
           /\ pthread_mutexattr_gettype = asked_type
           /\ pthread_mutexattr_getpshared[1] \in SharedSelectors
           /\ Configured(TRUE) = asked_type
=============================================================================
