----------------------------- MODULE MCServices ------------------------------
(***************************************************************************)
(* The services of the library that keep state between calls, one behaviour *)
(* for each: a behaviour picks its subject at the start and takes only that *)
(* service's steps. They share no state, so nothing is lost by checking     *)
(* them side by side. The subject "locale" takes no step: it stands for the *)
(* rule by which setlocale reads the environment.                           *)
(***************************************************************************)
EXTENDS Allocator, Loader, Signals, SystemCalls, PthreadAttrs

CONSTANT Subjects
VARIABLE subject

service_vars == <<heap_vars, loader_vars, signal_vars, call_vars, attr_vars,
                  subject>>

-----------------------------------------------------------------------------
(* Values of the constants *)

LocaleVariables == CATEGORY_VARIABLES \cup {"LC_ALL", "LANG"}
LocaleSettings == [LocaleVariables -> {"", "POSIX", "xx"}]
MCEnvironments == {[v \in {"LC_TIME"} |-> "xx"], [v \in {"LC_ALL"} |-> "POSIX"]}

ThreadSymmetry == Permutations(HeapThreads)

-----------------------------------------------------------------------------
\* A service that is not the subject starts in one of its initial states.
ServicesInit ==
  /\ subject \in Subjects
  /\ HeapInit
  /\ LoaderInit /\ (subject # "loader" => host_loader)
  /\ SignalInit
  /\ CallInit
  /\ AttrInit /\ (subject # "attributes" =>
                    /\ mutexattr = [initialized |-> FALSE, mutex_type |-> BadType,
                                    pshared |-> BadShared]
                    /\ condattr = [initialized |-> FALSE, pshared |-> BadShared])

ServicesNext ==
  \/ /\ subject = "allocator" /\ HeapNext
     /\ UNCHANGED <<loader_vars, signal_vars, call_vars, attr_vars, subject>>
  \/ /\ subject = "loader" /\ LoaderNext
     /\ UNCHANGED <<heap_vars, signal_vars, call_vars, attr_vars, subject>>
  \/ /\ subject = "signals" /\ SignalNext
     /\ UNCHANGED <<heap_vars, loader_vars, call_vars, attr_vars, subject>>
  \/ /\ subject = "calls" /\ CallNext
     /\ UNCHANGED <<heap_vars, loader_vars, signal_vars, attr_vars, subject>>
  \/ /\ subject = "attributes" /\ AttrNext
     /\ UNCHANGED <<heap_vars, loader_vars, signal_vars, call_vars, subject>>

ServicesSpec == ServicesInit /\ [][ServicesNext]_service_vars

-----------------------------------------------------------------------------
(* Properties *)

\* ErrnoIsOfTheCaller of the wrappers and setlocale; and LocaleIsUniform of
\* setlocale, for every setting of the locale's variables.
ErrnoAndLocaleAreExact ==
  /\ ErrnoIsOfTheCaller
  /\ subject = "locale" =>
       \A environment \in LocaleSettings : LocaleIsUniform(environment)
=============================================================================
