---------------------------- MODULE Environment ----------------------------
(***************************************************************************)
(* getenv, setenv, unsetenv, putenv and clearenv of stdlib/env_core.rs and *)
(* stdlib/env_mut.rs.                                                      *)
(*                                                                         *)
(* Every call holds ENV_MUTATION_LOCK from its first look at the state to  *)
(* its last, so that a call is one step. The program that owns a buffer it *)
(* gave to putenv may rewrite it between any two calls, name and all.      *)
(*                                                                         *)
(* An entry is [name, value, at]: `at' stands for the address of its       *)
(* string. A string without `=' has the name Malformed. errno, which the   *)
(* calls save and restore, is left out.                                    *)
(***************************************************************************)
EXTENDS Integers, Sequences, SequencesExt, FiniteSetsExt

CONSTANTS
  EnvNames, EnvValues,
  Buffers,             \* strings of the program that it passes to putenv
  Malformed,           \* the name of a string without `='
  StartupVectors,      \* what envp may hold: sequences of <<name, value>>
  EntryAddresses       \* positive: as many as entries and borrowed pointers need

\* A string without `=' defines no name.
ASSUME EnvAssumption ==
  /\ Malformed \notin EnvNames
  /\ StartupVectors \subseteq Seq((EnvNames \cup {Malformed}) \X (EnvValues \cup {""}))

VARIABLES
  initialized, entries,    \* OwnedEnviron
  environ,                 \* "null", "startup" or "owned": what it points at
  startup_vector,          \* the strings of the host, fixed
  putenv_aliases,          \* PUTENV_ALIASES: a sequence of [name, buffer]
  buffer,                  \* by buffer: its text, [name, value, has_equals]
  borrowed,                \* ghost: by name, where the value getenv returned is
  bound                    \* ghost: by name, what the calls so far promise

env_vars == <<initialized, entries, environ, startup_vector, putenv_aliases, buffer,
              borrowed, bound>>
owned_vars == <<initialized, entries, environ>>

\* NAME=VALUE, NAME, and =VALUE, whose name is empty.
Texts == [name : EnvNames, value : EnvValues, has_equals : {TRUE}]
           \cup [name : EnvNames, value : {""}, has_equals : {FALSE}]
           \cup [name : {""}, value : {""}, has_equals : {TRUE}]

HostStrings == -1         \* an address in memory that nobody frees
NotBorrowed == 0

Unset == [kind |-> "unset"]
Value(v) == [kind |-> "value", value |-> v]
AliasOf(b) == [kind |-> "alias", buffer |-> b]

-----------------------------------------------------------------------------
\* Vec::retain: the elements of a sequence at the indices I, in their order.
Kept(s, I) ==
  [j \in 1 .. Cardinality(I) |-> s[CHOOSE i \in I : Cardinality({k \in I : k <= i}) = j]]

WithoutNames(s, names) == Kept(s, {i \in DOMAIN s : s[i].name \notin names})

-----------------------------------------------------------------------------
(* OwnedEnviron: the state as a record, so that one call may change it more *)
(* than once.                                                               *)

owned == [initialized |-> initialized, entries |-> entries, environ |-> environ]

env_entry_has_name(entry, name) == entry.name = name

publish(o) == [o EXCEPT !.environ = IF o.entries = <<>> THEN "null" ELSE "owned"]

\* An address for a new string that no entry has and nobody may still read.
FreshAddress(o) ==
  Min(EntryAddresses \ ({o.entries[i].at : i \in DOMAIN o.entries}
                          \cup {borrowed[n] : n \in EnvNames}))

\* Copies at addresses of their own. Nothing was copied before, so that only
\* strings of the host are borrowed.
CopyEntries(strings) ==
  [i \in DOMAIN strings |-> [name |-> strings[i][1], value |-> strings[i][2], at |-> i]]

copy_entries_from_host_env(strings) ==
  CopyEntries(Kept(strings, {i \in DOMAIN strings : strings[i][1] # Malformed}))

ensure_initialized(o) ==
  IF o.initialized THEN o
  ELSE publish([o EXCEPT !.initialized = TRUE,
                         !.entries = IF o.environ = "null"
                                     THEN copy_entries_from_host_env(startup_vector)
                                     ELSE CopyEntries(startup_vector)])

find_name_index(o, name) ==
  LET found == {i \in DOMAIN o.entries : env_entry_has_name(o.entries[i], name)}
  IN IF found = {} THEN 0 ELSE Min(found)

contains_name(o, name) == find_name_index(o, name) # 0

\* The new entry goes where the last one was, whose string is moved.
MutSetNameValue_MovesLast(o, name, value) ==
  LET index == find_name_index(o, name)
      entry == [name |-> name, value |-> value, at |-> FreshAddress(o)]
      others == SelectSeq(o.entries, LAMBDA e : ~env_entry_has_name(e, name))
  IN publish([o EXCEPT !.entries =
       IF index # 0 THEN Append(others, entry)
       ELSE IF others = <<>> THEN <<entry>>
       ELSE Append(Front(others), [Last(others) EXCEPT !.at = entry.at])
              \o <<[entry EXCEPT !.at = Last(others).at]>>])

set_name_value(o, name, value) ==
  LET index == find_name_index(o, name)
      entry == [name |-> name, value |-> value, at |-> FreshAddress(o)]
      stays == {i \in DOMAIN o.entries :
                  i = index \/ ~env_entry_has_name(o.entries[i], name)}
  IN publish([o EXCEPT !.entries =
       IF index = 0 THEN Append(o.entries, entry)
       ELSE Kept([o.entries EXCEPT ![index] = entry], stays)])

\* remove_name for each of the names.
RemoveEach(o, names) ==
  LET kept == WithoutNames(o.entries, names)
  IN IF Len(kept) # Len(o.entries) THEN publish([o EXCEPT !.entries = kept]) ELSE o

remove_name(o, name) == RemoveEach(o, {name})

env_clear(o) == publish([o EXCEPT !.entries = <<>>])

RemoveNames(o, names) == IF o.initialized THEN RemoveEach(o, names) ELSE o

-----------------------------------------------------------------------------
(* PUTENV_ALIASES *)

\* parse_alias_value_ptr: the buffer still begins with the name and `='.
parse_alias(b, name) == buffer[b].has_equals /\ buffer[b].name = name

WithoutName(aliases, name) == WithoutNames(aliases, {name})

\* lookup_putenv_alias_value: of the aliases of the name whose buffers still
\* begin with it the last is the answer and the only one kept. When all were
\* stale the name goes from the owned entries too.
ValidAliases(aliases, name) ==
  {i \in DOMAIN aliases : aliases[i].name = name /\ parse_alias(aliases[i].buffer, name)}

AliasFound(aliases, name) == ValidAliases(aliases, name) # {}

LookupOwned(o, aliases, name) ==
  LET stale == ~AliasFound(aliases, name) /\ \E i \in DOMAIN aliases : aliases[i].name = name
  IN IF stale THEN RemoveNames(o, {name}) ELSE o

PruneAliases(aliases, names) ==
  Kept(aliases, {i \in DOMAIN aliases :
                   \/ aliases[i].name \notin names
                   \/ LET valid == ValidAliases(aliases, aliases[i].name)
                      IN valid # {} /\ i = Max(valid)})

LookupAliases(aliases, name) == PruneAliases(aliases, {name})

\* rebind_putenv_alias: the list, and the other names the buffer had.
RebindAliases(aliases, name, b) ==
  Append(Kept(aliases, {i \in DOMAIN aliases :
                          aliases[i].name # name /\ aliases[i].buffer # b}),
         [name |-> name, buffer |-> b])

RenamedNames(aliases, name, b) ==
  {a.name : a \in {x \in Range(aliases) : x.name # name /\ x.buffer = b}}

\* The names among these that no alias defines lose their copies: the loops at
\* the end of putenv, whose lookups prune the list (PruneAliases).
DropRenamed(o, aliases, names) ==
  RemoveNames(o, {n \in names : ~AliasFound(aliases, n)})

-----------------------------------------------------------------------------
(* The calls *)

SetOwned(o) ==
  initialized' = o.initialized /\ entries' = o.entries /\ environ' = o.environ

\* A call that gives a name another binding ends what getenv promised of it.
Returned(names) ==
  borrowed' = [n \in EnvNames |-> IF n \in names THEN NotBorrowed ELSE borrowed[n]]

Binds(new) == bound' = [n \in EnvNames |-> IF n \in DOMAIN new THEN new[n] ELSE bound[n]]

\* The strings environ points at.
EnvironStrings(o) ==
  CASE o.environ = "null" -> <<>>
    [] o.environ = "owned" -> o.entries
    [] OTHER -> [i \in DOMAIN startup_vector |->
                   [name |-> startup_vector[i][1], value |-> startup_vector[i][2],
                    at |-> HostStrings]]

lookup_environ_value(o, name) ==
  LET strings == EnvironStrings(o)
      found == {i \in DOMAIN strings : strings[i].name = name}
  IN IF found = {} THEN [kind |-> "null"]
     ELSE [kind |-> "string", value |-> strings[Min(found)].value, at |-> strings[Min(found)].at]

\* The state getenv looks at: aliases first, then the vector, which is made
\* when there is none yet.
OwnedForLookup(name) ==
  LET o == LookupOwned(owned, putenv_aliases, name)
  IN IF o.environ = "null" /\ ~o.initialized THEN ensure_initialized(o) ELSE o

\* What getenv returns. After OwnedForLookup the vector is there or the owned
\* entries are, so the code's last resort, /proc, is never read.
GetenvResult(name) ==
  IF AliasFound(putenv_aliases, name)
  THEN LET b == putenv_aliases[Max(ValidAliases(putenv_aliases, name))].buffer
       IN [kind |-> "alias", value |-> buffer[b].value, at |-> b]
  ELSE lookup_environ_value(OwnedForLookup(name), name)

getenv(name) ==
  LET result == GetenvResult(name)
  IN /\ IF AliasFound(putenv_aliases, name) THEN UNCHANGED owned_vars
        ELSE SetOwned(OwnedForLookup(name))
     /\ putenv_aliases' = LookupAliases(putenv_aliases, name)
     /\ borrowed' = [borrowed EXCEPT ![name] =
                       IF result.kind = "string" THEN result.at ELSE NotBorrowed]
     /\ Binds([n \in {name} |-> IF result.kind = "null" THEN Unset ELSE bound[n]])
     /\ UNCHANGED <<startup_vector, buffer>>

SetenvExists(o, name) ==
  AliasFound(putenv_aliases, name)
    \/ contains_name(LookupOwned(o, putenv_aliases, name), name)

setenv(name, value, overwrite) ==
  LET start == ensure_initialized(owned)
      looked == IF overwrite THEN start ELSE LookupOwned(start, putenv_aliases, name)
      aliases == IF overwrite THEN putenv_aliases ELSE LookupAliases(putenv_aliases, name)
  IN /\ IF ~overwrite /\ SetenvExists(start, name)
        THEN /\ SetOwned(looked)
             /\ putenv_aliases' = aliases
             /\ UNCHANGED <<borrowed, bound>>
        ELSE /\ SetOwned(set_name_value(looked, name, value))
             /\ putenv_aliases' = WithoutName(aliases, name)
             /\ Returned({name}) /\ Binds([n \in {name} |-> Value(value)])
     /\ UNCHANGED <<startup_vector, buffer>>

unsetenv(name) ==
  /\ SetOwned(remove_name(ensure_initialized(owned), name))
  /\ putenv_aliases' = WithoutName(putenv_aliases, name)
  /\ Returned({name}) /\ Binds([n \in {name} |-> Unset])
  /\ UNCHANGED <<startup_vector, buffer>>

\* The names that the calls bound to a buffer.
BoundTo(b) == {n \in EnvNames : bound[n] = AliasOf(b)}

\* The buffer's old names keep the copies that were made of them.
MutPutenvSet_KeepsRenamed(b) ==
  LET text == buffer[b]
  IN /\ text.has_equals /\ text.name # ""
     /\ SetOwned(set_name_value(ensure_initialized(owned), text.name, text.value))
     /\ putenv_aliases' = RebindAliases(putenv_aliases, text.name, b)
     /\ Returned({text.name} \cup BoundTo(b))
     /\ Binds([n \in {text.name} \cup BoundTo(b) |->
                 IF n = text.name THEN AliasOf(b) ELSE Unset])

PutenvSet(b) ==
  LET text == buffer[b]
      renamed == RenamedNames(putenv_aliases, text.name, b)
      rebound == RebindAliases(putenv_aliases, text.name, b)
  IN /\ text.has_equals /\ text.name # ""
     /\ SetOwned(DropRenamed(set_name_value(ensure_initialized(owned), text.name, text.value),
                             rebound, renamed))
     /\ putenv_aliases' = PruneAliases(rebound, renamed)
     /\ Returned({text.name} \cup BoundTo(b))
     /\ Binds([n \in {text.name} \cup BoundTo(b) |->
                 IF n = text.name THEN AliasOf(b) ELSE Unset])

PutenvRemove(b) ==
  LET text == buffer[b]
      kept == Kept(putenv_aliases, {i \in DOMAIN putenv_aliases :
                     putenv_aliases[i].name # text.name /\ putenv_aliases[i].buffer # b})
      removed == {a.name : a \in {x \in Range(putenv_aliases) : x.name = text.name \/ x.buffer = b}}
  IN /\ ~text.has_equals /\ text.name # ""
     /\ SetOwned(DropRenamed(remove_name(ensure_initialized(owned), text.name), kept, removed))
     /\ putenv_aliases' = PruneAliases(kept, removed)
     /\ Returned({text.name} \cup BoundTo(b))
     /\ Binds([n \in {text.name} \cup BoundTo(b) |-> Unset])

\* EINVAL for an empty name, after the owned environment was made.
PutenvInvalid(b) ==
  /\ buffer[b].name = ""
  /\ SetOwned(ensure_initialized(owned))
  /\ UNCHANGED <<putenv_aliases, borrowed, bound>>

putenv(b) ==
  /\ PutenvSet(b) \/ PutenvRemove(b) \/ PutenvInvalid(b)
  /\ UNCHANGED <<startup_vector, buffer>>

clearenv ==
  /\ SetOwned(env_clear(ensure_initialized(owned)))
  /\ putenv_aliases' = <<>>
  /\ Returned(EnvNames) /\ Binds([n \in EnvNames |-> Unset])
  /\ UNCHANGED <<startup_vector, buffer>>

\* The program rewrites a buffer that it owns.
RewriteBuffer(b, text) ==
  /\ buffer' = [buffer EXCEPT ![b] = text]
  /\ UNCHANGED <<owned_vars, startup_vector, putenv_aliases, borrowed, bound>>

-----------------------------------------------------------------------------
EnvInit ==
  /\ initialized = FALSE /\ entries = <<>>
  /\ environ \in {"null", "startup"}
  /\ startup_vector \in StartupVectors
  /\ putenv_aliases = <<>>
  /\ buffer \in [Buffers -> {t \in Texts : t.name # "" /\ t.has_equals}]
  /\ borrowed = [n \in EnvNames |-> NotBorrowed]
  /\ bound = [n \in EnvNames |->
                LET found == {i \in DOMAIN startup_vector : startup_vector[i][1] = n}
                IN IF found = {} THEN Unset ELSE Value(startup_vector[Min(found)][2])]

EnvNext ==
  \/ \E name \in EnvNames : getenv(name) \/ unsetenv(name)
  \/ \E name \in EnvNames, value \in EnvValues, overwrite \in BOOLEAN :
       setenv(name, value, overwrite)
  \/ \E b \in Buffers : putenv(b)
  \/ \E b \in Buffers, text \in Texts : RewriteBuffer(b, text)
  \/ clearenv

EnvSpec == EnvInit /\ [][EnvNext]_env_vars

-----------------------------------------------------------------------------
(* Properties *)

\* What the calls so far make of a name: nothing, the value of the last setenv,
\* or what the buffer of the last putenv says now, if it still has the name.
Promised(name) ==
  CASE bound[name].kind = "unset" -> [kind |-> "null"]
    [] bound[name].kind = "value" -> [kind |-> "string", value |-> bound[name].value]
    [] OTHER -> LET b == bound[name].buffer
                IN IF parse_alias(b, name) THEN [kind |-> "alias", value |-> buffer[b].value]
                   ELSE [kind |-> "null"]

\* getenv answers every name as the calls so far and the buffers' present texts
\* say, before and after the owned copy is made, however the strings of the host
\* repeat a name and whichever buffers were renamed or shared: no copy that
\* putenv made, no second entry and no stale alias brings a name back.
GetenvIsCurrent ==
  \A name \in EnvNames :
    LET result == GetenvResult(name)
        promised == Promised(name)
    IN /\ result.kind = promised.kind
       /\ promised.kind # "null" => result.value = promised.value

\* The string that getenv returned for a name stays where it is until a call
\* gives that name another binding: changes of other names, and making the owned
\* copy, leave it alone.
BorrowedStringsStay ==
  \A name \in EnvNames : borrowed[name] # NotBorrowed =>
    \/ borrowed[name] = HostStrings
    \/ \E i \in DOMAIN entries : entries[i].at = borrowed[name] /\ entries[i].name = name
=============================================================================
