----------------------------- MODULE TextsProofs -----------------------------
(***************************************************************************)
(* Theorems about the machines of MCTexts that need no recursive operator: *)
(* the environment, for every set of names, values, buffers and addresses  *)
(* and every list of strings the host may hand over, and directory         *)
(* streams, for every directory and every way to cut it into buffers; and  *)
(* multibyte conversion, for all bytes and every way to cut them into      *)
(* calls.                                                                  *)
(*                                                                         *)
(* EnvIInv says what each of the three places getenv looks in tells of a   *)
(* name: PUTENV_ALIASES (AliasesTell), the host's strings while environ    *)
(* points at them (HostTells) and the owned entries once they are made     *)
(* (OwnedTells). The calls change these places by taking elements out of   *)
(* lists, so that most lemmas are about Kept.                              *)
(*                                                                         *)
(* DirIInv says which records the buffer holds and that the names read are *)
(* those of all records before the cursor.                                 *)
(*                                                                         *)
(* MbIInv says that a state the code would use holds the bytes begun.      *)
(***************************************************************************)
EXTENDS Environment, DirStreams, Multibyte, WellFoundedInduction, FiniteSetTheorems, SequenceTheorems,
        TLAPS

(* A set of naturals has a least element: find_name_index's index is one.   *)
LEMMA LeastNatural ==
  ASSUME NEW S, S \subseteq Nat, S # {}
  PROVE  \E n \in S : \A k \in S : n <= k
<1>1. PICK n \in S : \A k \in S : ~(<<k, n>> \in OpToRel(<, Nat))
  BY NatLessThanWellFounded, WFMin
<1>2. \A k \in S : ~(k < n)
  BY <1>1, Zenon DEF OpToRel
<1> QED
  BY <1>2

-----------------------------------------------------------------------------
(* What is kept of a list                                                  *)

IsList(s) == s \in Seq({s[i] : i \in DOMAIN s})

\* f counts the indices in I upwards.
Counts(f, I) ==
  /\ f \in [1 .. Cardinality(I) -> I]
  /\ \A j, k \in DOMAIN f : j < k => f[j] < f[k]
  /\ \A i \in I : \E j \in DOMAIN f : f[j] = i

\* ... and leads from the places of what is kept to where it was.
Leads(f, s, I) == Counts(f, I) /\ \A j \in 1 .. Cardinality(I) : Kept(s, I)[j] = s[f[j]]

LEMMA ListFacts ==
  ASSUME NEW s, IsList(s)
  PROVE  Len(s) \in Nat /\ DOMAIN s = 1 .. Len(s) /\ s = [i \in 1 .. Len(s) |-> s[i]]
  BY DEF IsList

LEMMA ListOf ==
  ASSUME NEW n \in Nat, NEW s, DOMAIN s = 1 .. n, s = [i \in 1 .. n |-> s[i]]
  PROVE  IsList(s) /\ Len(s) = n
<1>1. s \in [1 .. n -> {s[i] : i \in DOMAIN s}]
  OBVIOUS
<1>2. IsList(s)
  BY <1>1 DEF IsList
<1> QED
  BY <1>1, <1>2, LenProperties DEF IsList

LEMMA ListAppended ==
  ASSUME NEW s, IsList(s), NEW e
  PROVE  /\ DOMAIN Append(s, e) = 1 .. Len(s) + 1 /\ IsList(Append(s, e))
         /\ \A i \in 1 .. Len(s) : Append(s, e)[i] = s[i]
         /\ Append(s, e)[Len(s) + 1] = e
<1> DEFINE R == {s[i] : i \in DOMAIN s}
           S == R \cup {e}
<1>1. s \in Seq(R) /\ R \subseteq S /\ e \in S
  BY DEF IsList
<1> HIDE DEF S, R
<1>2. s \in Seq(S)
  BY <1>1, SeqMonotonic
<1>3. /\ Append(s, e) \in Seq(S) /\ Len(Append(s, e)) = Len(s) + 1
      /\ \A i \in 1 .. Len(s) : Append(s, e)[i] = s[i]
      /\ Append(s, e)[Len(s) + 1] = e
  BY <1>1, <1>2, AppendProperties
<1>4. DOMAIN Append(s, e) = 1 .. Len(s) + 1 /\ Append(s, e) \in [1 .. Len(s) + 1 -> S]
  BY <1>3, LenProperties
<1>5. Len(s) + 1 \in Nat
  BY ListFacts
<1>6. IsList(Append(s, e))
  BY <1>4, <1>5, ListOf
<1> QED
  BY <1>3, <1>4, <1>6

(* Kept takes the elements at I in their order: an index in I has as many   *)
(* of I up to it as its place in the result says.                           *)
LEMMA KeptFacts ==
  ASSUME NEW s, IsList(s), NEW I, I \subseteq DOMAIN s
  PROVE  /\ IsFiniteSet(I) /\ Cardinality(I) \in Nat
         /\ IsList(Kept(s, I)) /\ Len(Kept(s, I)) = Cardinality(I)
         /\ DOMAIN Kept(s, I) = 1 .. Cardinality(I)
         /\ \E f : Leads(f, s, I)
<1> DEFINE c == Cardinality(I)
           upto(i) == {k \in I : k <= i}
           rank == [i \in I |-> Cardinality(upto(i))]
           f == [j \in 1 .. c |-> CHOOSE i \in I : Cardinality(upto(i)) = j]
<1>1. IsFiniteSet(I) /\ c \in Nat /\ I \subseteq Nat
  <2>1. I \in SUBSET (1 .. Len(s)) /\ Len(s) \in Nat
    BY ListFacts
  <2>2. IsFiniteSet(1 .. Len(s))
    BY <2>1, FS_Interval
  <2>3. IsFiniteSet(I)
    BY <2>1, <2>2, FS_Subset
  <2> QED
    BY <2>1, <2>3, FS_CardinalityType
<1>2. ASSUME NEW i \in I PROVE IsFiniteSet(upto(i)) /\ rank[i] \in 1 .. c
  <2>1. upto(i) \in SUBSET I /\ i \in upto(i)
    BY <1>1
  <2>2. IsFiniteSet(upto(i)) /\ Cardinality(upto(i)) <= c
    BY <1>1, <2>1, FS_Subset
  <2>3. Cardinality(upto(i)) \in Nat /\ Cardinality(upto(i)) # 0
    BY <2>1, <2>2, FS_CardinalityType, FS_EmptySet
  <2> QED
    BY <1>1, <2>2, <2>3
<1>3. ASSUME NEW i \in I, NEW j \in I, i < j PROVE rank[i] < rank[j]
  <2>1. upto(i) \in SUBSET upto(j) /\ j \in upto(j) /\ j \notin upto(i)
    BY <1>1, <1>3
  <2>2. Cardinality(upto(i)) <= Cardinality(upto(j)) /\ Cardinality(upto(i)) # Cardinality(upto(j))
    BY <1>2, <2>1, FS_Subset
  <2> HIDE DEF upto
  <2> QED
    BY <1>2, <2>2
<1> HIDE DEF upto
<1>4. \A j \in 1 .. c : \E i \in I : rank[i] = j
  <2>1. rank \in [I -> 1 .. c]
    BY <1>2
  <2>2. \A i, j \in I : rank[i] = rank[j] => i = j
    <3> HIDE DEF rank
    <3> QED
      BY <1>1, <1>2, <1>3
  <2> HIDE DEF rank
  <2>3. rank \in Injection(I, 1 .. c)
    BY <2>1, <2>2 DEF Injection, IsInjective
  <2>4. IsFiniteSet(1 .. c) /\ Cardinality(1 .. c) = c
    BY <1>1, FS_Interval
  <2>5. rank \in Surjection(I, 1 .. c)
    BY <2>3, <2>4, FS_Injection
  <2> QED
    BY <2>5 DEF Surjection
<1>5. \A j \in 1 .. c : f[j] \in I /\ rank[f[j]] = j
  BY <1>4
<1>6. Kept(s, I) = [j \in 1 .. c |-> s[f[j]]]
  BY DEF Kept, upto
<1> HIDE DEF f
<1>7. IsList(Kept(s, I)) /\ Len(Kept(s, I)) = c /\ DOMAIN Kept(s, I) = 1 .. c
  BY <1>1, <1>6, ListOf
<1>8. Counts(f, I)
  <2> HIDE DEF rank, c
  <2>1. DOMAIN f = 1 .. c /\ f \in [1 .. c -> I]
    BY <1>5 DEF f
  <2>2. ASSUME NEW j \in 1 .. c, NEW k \in 1 .. c, j < k PROVE f[j] < f[k]
    <3>1. rank[f[j]] = j /\ rank[f[k]] = k /\ f[j] \in I /\ f[k] \in I
      BY <1>5
    <3>2. ~(f[k] < f[j]) /\ f[k] # f[j]
      BY <1>1, <1>3, <2>2, <3>1
    <3> QED
      BY <1>1, <3>1, <3>2
  <2>3. ASSUME NEW i \in I PROVE \E j \in 1 .. c : f[j] = i
    <3>1. rank[i] \in 1 .. c
      BY <1>2
    <3>2. f[rank[i]] \in I /\ rank[f[rank[i]]] = rank[i]
      BY <1>5, <3>1
    <3>3. f[rank[i]] = i
      BY <1>1, <1>2, <1>3, <3>2
    <3> QED
      BY <3>1, <3>3
  <2> QED
    BY <2>1, <2>2, <2>3 DEF Counts, c
<1>9. Leads(f, s, I)
  BY <1>6, <1>8 DEF Leads
<1> HIDE DEF c
<1> QED
  BY <1>1, <1>7, <1>9 DEF c

(* Every element of Kept is one of those at I, and each of those is in it. *)
LEMMA KeptElements ==
  ASSUME NEW s, IsList(s), NEW I, I \subseteq DOMAIN s
  PROVE  /\ \A j \in DOMAIN Kept(s, I) : \E i \in I : Kept(s, I)[j] = s[i]
         /\ \A i \in I : \E j \in DOMAIN Kept(s, I) : Kept(s, I)[j] = s[i]
<1>1. DOMAIN Kept(s, I) = 1 .. Cardinality(I)
  BY KeptFacts
<1>2. PICK f : Leads(f, s, I)
  BY KeptFacts
<1>3. \A j \in 1 .. Cardinality(I) : f[j] \in I
  BY <1>2 DEF Counts, Leads
<1>4. \A i \in I : \E j \in 1 .. Cardinality(I) : f[j] = i
  BY <1>2 DEF Counts, Leads
<1> QED
  BY <1>1, <1>2, <1>3, <1>4 DEF Leads

-----------------------------------------------------------------------------
(* What a list says of a name                                              *)

Lacks(s, n) == \A i \in DOMAIN s : s[i].name # n

\* The first entry of the name has the value.
Begins(s, n, v) ==
  \E i \in DOMAIN s : /\ s[i].name = n /\ s[i].value = v
                      /\ \A j \in DOMAIN s : j < i => s[j].name # n

Holds(s, n, at) == \E i \in DOMAIN s : s[i].at = at /\ s[i].name = n

\* t says what s says.
Agree(s, t, n) ==
  /\ Lacks(s, n) => Lacks(t, n)
  /\ \A v : Begins(s, n, v) => Begins(t, n, v)

Keeps(s, t, n) == \A at : Holds(s, n, at) => Holds(t, n, at)

(* Taking elements out changes nothing about a name that has none of them.  *)
LEMMA CountedAgree ==
  ASSUME NEW s, NEW t, NEW f, NEW m \in Nat, DOMAIN s = 1 .. m,
         NEW I, I \subseteq DOMAIN s, Cardinality(I) \in Nat, Counts(f, I),
         DOMAIN t = 1 .. Cardinality(I),
         \A j \in DOMAIN t : t[j].name = s[f[j]].name /\ t[j].value = s[f[j]].value,
         NEW n, \A i \in DOMAIN s : s[i].name = n => i \in I
  PROVE  Agree(s, t, n)
<1>1. \A j \in DOMAIN t : f[j] \in I /\ f[j] \in DOMAIN s
  BY DEF Counts, Leads
<1>2. ASSUME NEW v, Begins(s, n, v) PROVE Begins(t, n, v)
  <2>1. PICK i \in DOMAIN s : /\ s[i].name = n /\ s[i].value = v
                             /\ \A j \in DOMAIN s : j < i => s[j].name # n
    BY <1>2 DEF Begins
  <2>2. PICK j \in DOMAIN t : f[j] = i
    BY <2>1 DEF Counts, Leads
  <2>3. ASSUME NEW k \in DOMAIN t, k < j PROVE t[k].name # n
    <3>1. f[k] < i
      BY <2>2, <2>3 DEF Counts, Leads
    <3> QED
      BY <1>1, <2>1, <3>1
  <2> QED
    BY <2>1, <2>2, <2>3 DEF Begins
<1> QED
  BY <1>1, <1>2 DEF Agree, Lacks

LEMMA KeptAgrees ==
  ASSUME NEW s, IsList(s), NEW I, I \subseteq DOMAIN s,
         NEW n, \A i \in DOMAIN s : s[i].name = n => i \in I
  PROVE  Agree(s, Kept(s, I), n) /\ Keeps(s, Kept(s, I), n)
<1>1. /\ Cardinality(I) \in Nat /\ DOMAIN Kept(s, I) = 1 .. Cardinality(I)
      /\ Len(s) \in Nat /\ DOMAIN s = 1 .. Len(s)
  BY KeptFacts, ListFacts
<1>2. PICK f : Leads(f, s, I)
  BY KeptFacts
<1>3. Agree(s, Kept(s, I), n)
  BY <1>1, <1>2, CountedAgree DEF Leads
<1>4. Keeps(s, Kept(s, I), n)
  BY KeptElements DEF Keeps, Holds
<1> QED
  BY <1>3, <1>4

(* The first element of a name stays its first element.                    *)
LEMMA KeptBegins ==
  ASSUME NEW s, IsList(s), NEW I, I \subseteq DOMAIN s, NEW i \in I,
         \A j \in DOMAIN s : j < i => s[j].name # s[i].name
  PROVE  Begins(Kept(s, I), s[i].name, s[i].value)
<1>1. /\ Cardinality(I) \in Nat /\ DOMAIN Kept(s, I) = 1 .. Cardinality(I)
  BY KeptFacts
<1>2. PICK f : Leads(f, s, I)
  BY KeptFacts
<1>3. PICK j \in 1 .. Cardinality(I) : f[j] = i
  BY <1>2 DEF Counts, Leads
<1>4. ASSUME NEW k \in 1 .. Cardinality(I), k < j PROVE Kept(s, I)[k].name # s[i].name
  <2>1. f[k] < i /\ f[k] \in DOMAIN s
    BY <1>2, <1>3, <1>4 DEF Counts, Leads
  <2> QED
    BY <1>2, <2>1 DEF Leads
<1> QED
  BY <1>1, <1>2, <1>3, <1>4 DEF Begins, Leads

(* No two elements of a name stay no two.                                  *)
Unique(s) == \A i, j \in DOMAIN s : s[i].name = s[j].name => i = j

(* What is kept of a list with no two of a name has no two either.         *)
LEMMA KeptUnique ==
  ASSUME NEW s, IsList(s), NEW I, I \subseteq DOMAIN s, Unique(s)
  PROVE  Unique(Kept(s, I))
<1>1. /\ Cardinality(I) \in Nat /\ DOMAIN Kept(s, I) = 1 .. Cardinality(I)
      /\ DOMAIN s = 1 .. Len(s) /\ Len(s) \in Nat
  BY KeptFacts, ListFacts
<1>2. PICK f : Leads(f, s, I)
  BY KeptFacts
<1>3. SUFFICES ASSUME NEW j \in 1 .. Cardinality(I), NEW k \in 1 .. Cardinality(I),
                      Kept(s, I)[j].name = Kept(s, I)[k].name
               PROVE  j = k
  BY <1>1 DEF Unique
<1>4. f[j] \in DOMAIN s /\ f[k] \in DOMAIN s /\ f[j] = f[k]
  BY <1>1, <1>2, <1>3 DEF Unique, Counts, Leads
<1>5. ~(j < k) /\ ~(k < j)
  BY <1>1, <1>2, <1>4 DEF Counts, Leads
<1> QED
  BY <1>1, <1>5

-----------------------------------------------------------------------------
(* The owned environment                                                   *)

\* What environ points at once the owned environment is made.
Published(list) == IF list = <<>> THEN "null" ELSE "owned"

Made(o) ==
  /\ DOMAIN o = {"initialized", "entries", "environ"}
  /\ o.initialized /\ IsList(o.entries) /\ o.environ = Published(o.entries)

(* publish points environ at the entries, or nowhere when there are none.  *)
LEMMA PublishMakes ==
  ASSUME NEW o, DOMAIN o = {"initialized", "entries", "environ"}, o.initialized, IsList(o.entries)
  PROVE  Made(publish(o)) /\ publish(o).entries = o.entries
<1>1. publish(o) = [o EXCEPT !.environ = Published(o.entries)]
  BY DEF publish, Published
<1>2. /\ DOMAIN publish(o) = DOMAIN o /\ (publish(o).initialized <=> o.initialized)
      /\ publish(o).entries = o.entries /\ publish(o).environ = Published(o.entries)
  BY <1>1
<1> QED
  BY <1>2 DEF Made

LEMMA RepublishMakes ==
  ASSUME NEW o, Made(o), NEW list, IsList(list)
  PROVE  /\ Made(publish([o EXCEPT !.entries = list]))
         /\ publish([o EXCEPT !.entries = list]).entries = list
<1> DEFINE p == [o EXCEPT !.entries = list]
<1>1. /\ DOMAIN p = {"initialized", "entries", "environ"}
      /\ p.initialized /\ p.entries = list
  BY DEF Made
<1> HIDE DEF p
<1>2. Made(publish(p)) /\ publish(p).entries = list
  BY <1>1, PublishMakes
<1> QED
  BY <1>2 DEF p

(* remove_name leaves no entry of the names, and the others as they were.   *)
LEMMA RemoveEachFacts ==
  ASSUME NEW o, Made(o), NEW names
  PROVE  /\ Made(RemoveEach(o, names))
         /\ \A n \in names : Lacks(RemoveEach(o, names).entries, n)
         /\ \A n : n \notin names => /\ Agree(o.entries, RemoveEach(o, names).entries, n)
                                    /\ Keeps(o.entries, RemoveEach(o, names).entries, n)
<1> DEFINE s == o.entries
           I == {i \in DOMAIN s : s[i].name \notin names}
<1>1. IsList(s) /\ I \subseteq DOMAIN s /\ WithoutNames(s, names) = Kept(s, I)
  BY DEF Made, WithoutNames
<1>2. DOMAIN s = 1 .. Len(s) /\ Len(s) \in Nat
  BY <1>1, ListFacts
<1>3. IsList(Kept(s, I)) /\ Len(Kept(s, I)) = Cardinality(I)
  BY <1>1, KeptFacts
<1>4. CASE Len(Kept(s, I)) # Len(s)
  <2>1. RemoveEach(o, names) = publish([o EXCEPT !.entries = Kept(s, I)])
    BY <1>1, <1>4 DEF RemoveEach
  <2>2. Made(RemoveEach(o, names)) /\ RemoveEach(o, names).entries = Kept(s, I)
    BY <1>3, <2>1, RepublishMakes DEF Made
  <2>3. \A n \in names : Lacks(Kept(s, I), n)
    BY <1>1, KeptElements DEF Lacks
  <2>4. ASSUME NEW n, n \notin names PROVE Agree(s, Kept(s, I), n) /\ Keeps(s, Kept(s, I), n)
    BY <1>1, <2>4, KeptAgrees
  <2> HIDE DEF I
  <2> QED
    BY <2>2, <2>3, <2>4
<1>5. CASE Len(Kept(s, I)) = Len(s)
  <2>1. IsFiniteSet(DOMAIN s) /\ Cardinality(DOMAIN s) = Len(s)
    <3>1. IsFiniteSet(1 .. Len(s)) /\ Cardinality(1 .. Len(s)) = Len(s)
      BY <1>2, FS_Interval
    <3> QED
      BY <1>2, <3>1
  <2>2. I = DOMAIN s
    BY <1>1, <1>3, <1>5, <2>1, FS_Subset
  <2>3. RemoveEach(o, names) = o
    BY <1>1, <1>5 DEF RemoveEach
  <2> QED
    BY <2>2, <2>3 DEF Lacks, Agree, Keeps
<1> QED
  BY <1>4, <1>5

LEMMA RemoveNamesFacts ==
  ASSUME NEW o, Made(o), NEW names
  PROVE  RemoveNames(o, names) = RemoveEach(o, names)
  BY DEF Made, RemoveNames

(* The first of the entries of a name is the one find_name_index finds.     *)
LEMMA FirstEntry ==
  ASSUME NEW s, IsList(s), NEW P, P = {i \in DOMAIN s : i \in P}, P # {}
  PROVE  Min(P) \in P /\ \A i \in P : Min(P) <= i
<1>1. P \subseteq Nat
  BY ListFacts
<1>2. \E n \in P : \A k \in P : n <= k
  BY <1>1, LeastNatural
<1> QED
  BY <1>2 DEF Min

LEMMA IndexFacts ==
  ASSUME NEW o, IsList(o.entries), NEW name
  PROVE  LET k == find_name_index(o, name) IN
         /\ k = 0 <=> Lacks(o.entries, name)
         /\ k # 0 => /\ k \in DOMAIN o.entries /\ o.entries[k].name = name
                     /\ \A j \in DOMAIN o.entries : j < k => o.entries[j].name # name
<1> DEFINE s == o.entries
           found == {i \in DOMAIN s : env_entry_has_name(s[i], name)}
<1>1. DOMAIN s = 1 .. Len(s) /\ Len(s) \in Nat
  BY ListFacts
<1>2. CASE found = {}
  BY <1>2 DEF find_name_index, Lacks, env_entry_has_name
<1>3. CASE found # {}
  <2>1. Min(found) \in found /\ \A i \in found : Min(found) <= i
    BY <1>3, FirstEntry
  <2>2. find_name_index(o, name) = Min(found)
    BY <1>3 DEF find_name_index
  <2>3. Min(found) \in DOMAIN s /\ s[Min(found)].name = name
    BY <2>1 DEF env_entry_has_name
  <2>4. ASSUME NEW j \in DOMAIN s, j < Min(found) PROVE s[j].name # name
    <3>1. j \notin found
      <4> HIDE DEF found
      <4>1. Min(found) \in Nat /\ j \in Nat
        BY <1>1, <2>3
      <4> QED
        BY <2>1, <2>4, <4>1
    <3> QED
      BY <3>1 DEF env_entry_has_name
  <2>5. Min(found) # 0
    BY <1>1, <2>3
  <2> HIDE DEF found
  <2> QED
    BY <2>2, <2>3, <2>4, <2>5 DEF Lacks
<1> QED
  BY <1>2, <1>3

(* set_name_value leaves one entry of the name, with the value, and those   *)
(* of the other names as they were.                                         *)
LEMMA SetFacts ==
  ASSUME NEW o, Made(o), NEW name, NEW value
  PROVE  LET after == set_name_value(o, name, value) IN
         /\ Made(after) /\ Begins(after.entries, name, value)
         /\ \A n : n # name => /\ Agree(o.entries, after.entries, n)
                               /\ Keeps(o.entries, after.entries, n)
<1> DEFINE s == o.entries
           k == find_name_index(o, name)
           entry == [name |-> name, value |-> value, at |-> FreshAddress(o)]
           I == {i \in DOMAIN s : i = k \/ ~env_entry_has_name(s[i], name)}
           r == [s EXCEPT ![k] = entry]
           list == IF k = 0 THEN Append(s, entry) ELSE Kept(r, I)
<1>1. IsList(s) /\ DOMAIN s = 1 .. Len(s) /\ Len(s) \in Nat
  BY ListFacts DEF Made
<1>2. /\ k = 0 => Lacks(s, name)
      /\ k # 0 => /\ k \in DOMAIN s /\ s[k].name = name
                  /\ \A j \in DOMAIN s : j < k => s[j].name # name
  BY <1>1, IndexFacts
<1>3. set_name_value(o, name, value) = publish([o EXCEPT !.entries = list])
  BY DEF set_name_value
<1>4. entry.name = name /\ entry.value = value
  OBVIOUS
<1> HIDE DEF entry, k
<1>5. CASE k = 0
  <2>1. list = Append(s, entry)
    BY <1>5
  <2>2. /\ DOMAIN list = 1 .. Len(s) + 1
        /\ \A i \in 1 .. Len(s) : list[i] = s[i]
        /\ list[Len(s) + 1] = entry
        /\ IsList(list)
    <3> HIDE DEF s, list
    <3> QED
      BY <1>1, <2>1, ListAppended
  <2> HIDE DEF list, s
  <2>3. IsList(list)
    BY <2>2
  <2>4. Begins(list, name, value)
    <3>1. \A j \in DOMAIN list : j < Len(s) + 1 => list[j].name # name
      BY <1>1, <1>2, <1>5, <2>2 DEF Lacks
    <3> QED
      BY <1>1, <1>4, <2>2, <3>1 DEF Begins
  <2>5. ASSUME NEW n, n # name PROVE Agree(s, list, n) /\ Keeps(s, list, n)
    <3>1. Lacks(s, n) => Lacks(list, n)
      BY <1>1, <1>4, <2>2, <2>5 DEF Lacks
    <3>2. ASSUME NEW v, Begins(s, n, v) PROVE Begins(list, n, v)
      BY <1>1, <2>2, <3>2 DEF Begins
    <3>3. Keeps(s, list, n)
      BY <1>1, <2>2 DEF Keeps, Holds
    <3> QED
      BY <3>1, <3>2, <3>3 DEF Agree
  <2> QED
    BY <1>3, <2>3, <2>4, <2>5, RepublishMakes DEF Made, s
<1>6. CASE k # 0
  <2>1. list = Kept(r, I)
    BY <1>6
  <2>2. /\ DOMAIN r = 1 .. Len(s) /\ r = [i \in 1 .. Len(s) |-> r[i]]
        /\ \A i \in 1 .. Len(s) : r[i] = IF i = k THEN entry ELSE s[i]
    BY <1>1, <1>2, <1>6, ListFacts
  <2>3. I \subseteq DOMAIN r /\ k \in I
    BY <1>1, <1>2, <1>6, <2>2
  <2>4. \A i \in DOMAIN s : i # k => (i \in I <=> s[i].name # name)
    BY DEF env_entry_has_name
  <2> HIDE DEF list, s, r, I
  <2>5. IsList(r)
    BY <1>1, <2>2, ListOf
  <2>6. IsList(list)
    BY <2>1, <2>3, <2>5, KeptFacts
  <2>7. Begins(list, name, value)
    <3>1. r[k] = entry
      BY <1>1, <1>2, <1>6, <2>2
    <3>2. \A j \in DOMAIN r : j < k => r[j].name # r[k].name
      BY <1>1, <1>2, <1>4, <1>6, <2>2, <3>1
    <3> QED
      BY <1>4, <2>1, <2>3, <2>5, <3>1, <3>2, KeptBegins
  <2>8. ASSUME NEW n, n # name PROVE Agree(s, list, n) /\ Keeps(s, list, n)
    <3>1. \A i \in DOMAIN r : r[i].name = n => i \in I
      BY <1>1, <1>2, <1>4, <1>6, <2>2, <2>4, <2>8
    <3>2. Agree(r, list, n) /\ Keeps(r, list, n)
      BY <2>1, <2>3, <2>5, <3>1, KeptAgrees
    <3>3. \A i \in 1 .. Len(s) : i # k => r[i] = s[i]
      BY <2>2
    <3>4. s[k].name # n /\ r[k].name # n
      BY <1>1, <1>2, <1>4, <1>6, <2>2, <2>8
    <3>5. Lacks(s, n) => Lacks(r, n)
      BY <1>1, <2>2, <3>3, <3>4 DEF Lacks
    <3>6. ASSUME NEW v, Begins(s, n, v) PROVE Begins(r, n, v)
      BY <1>1, <2>2, <3>3, <3>4, <3>6 DEF Begins
    <3>7. Keeps(s, r, n)
      BY <1>1, <2>2, <3>3, <3>4 DEF Keeps, Holds
    <3> QED
      BY <3>2, <3>5, <3>6, <3>7 DEF Agree, Keeps
  <2> QED
    BY <1>3, <2>6, <2>7, <2>8, RepublishMakes DEF Made, s
<1> QED
  BY <1>5, <1>6

-----------------------------------------------------------------------------
(* The inductive invariant                                                 *)

\* A list says of a name what was bound to it.
Tells(s, n, w) ==
  /\ w.kind = "unset" => Lacks(s, n)
  /\ w.kind = "value" => Begins(s, n, w.value)

\* A string that getenv returned for a name is in the list.
Lends(s, n, at) == at # NotBorrowed /\ at # HostStrings => Holds(s, n, at)

EnvTypeOK ==
  /\ IsList(entries)
  /\ startup_vector \in StartupVectors
  /\ buffer \in [Buffers -> Texts]
  /\ borrowed = [n \in EnvNames |-> borrowed[n]]
  /\ bound = [n \in EnvNames |-> bound[n]]
  /\ \A n \in EnvNames : bound[n].kind \in {"unset", "value", "alias"}

\* A name that a buffer defines has one alias, of that buffer; an alias may be stale.
AliasesTell(al, w) ==
  /\ IsList(al) /\ Unique(al)
  /\ \A i \in DOMAIN al : /\ al[i].name \in EnvNames /\ al[i].buffer \in Buffers
                           /\ w[al[i].name] = AliasOf(al[i].buffer)
  /\ \A n \in EnvNames : w[n].kind = "alias" => \E i \in DOMAIN al : al[i].name = n

\* Before the owned environment is made the strings are the host's ...
HostTells ==
  ~initialized =>
    /\ entries = <<>> /\ putenv_aliases = <<>> /\ environ \in {"null", "startup"}
    /\ \A n \in EnvNames : borrowed[n] \in {NotBorrowed, HostStrings}
    /\ \A n \in EnvNames : Tells(CopyEntries(startup_vector), n, bound[n])

\* ... and afterwards the entries, which are there as long as somebody reads them.
OwnedTells ==
  initialized =>
    /\ environ = Published(entries)
    /\ \A n \in EnvNames : Tells(entries, n, bound[n]) /\ Lends(entries, n, borrowed[n])

EnvIInv == EnvTypeOK /\ AliasesTell(putenv_aliases, bound) /\ HostTells /\ OwnedTells

LEMMA Kinds ==
  /\ Unset.kind = "unset"
  /\ \A v : Value(v).kind = "value" /\ Value(v).value = v
  /\ \A b : AliasOf(b).kind = "alias" /\ AliasOf(b).buffer = b
  BY DEF Unset, Value, AliasOf

LEMMA Agreed ==
  ASSUME NEW s, NEW t, NEW n, Agree(s, t, n)
  PROVE  \A w : Tells(s, n, w) => Tells(t, n, w)
  BY DEF Agree, Tells

LEMMA Lent ==
  ASSUME NEW s, NEW t, NEW n, Keeps(s, t, n)
  PROVE  \A at : Lends(s, n, at) => Lends(t, n, at)
  BY DEF Keeps, Lends

(* The strings of the host are a list of names with values.                *)
LEMMA StartupFacts ==
  ASSUME NEW v \in StartupVectors
  PROVE  /\ Len(v) \in Nat /\ DOMAIN v = 1 .. Len(v) /\ IsList(v)
         /\ IsList(CopyEntries(v)) /\ DOMAIN CopyEntries(v) = DOMAIN v
         /\ \A i \in DOMAIN v : /\ CopyEntries(v)[i].name = v[i][1]
                               /\ CopyEntries(v)[i].value = v[i][2]
<1>1. v \in Seq((EnvNames \cup {Malformed}) \X (EnvValues \cup {""}))
  BY EnvAssumption
<1>2. /\ Len(v) \in Nat /\ DOMAIN v = 1 .. Len(v)
      /\ v \in [1 .. Len(v) -> (EnvNames \cup {Malformed}) \X (EnvValues \cup {""})]
  BY <1>1, LenProperties
<1>3. v = [i \in 1 .. Len(v) |-> v[i]]
  BY <1>2
<1>4. /\ DOMAIN CopyEntries(v) = 1 .. Len(v)
      /\ CopyEntries(v) = [i \in 1 .. Len(v) |-> CopyEntries(v)[i]]
  BY <1>2 DEF CopyEntries
<1>5. IsList(v) /\ IsList(CopyEntries(v))
  BY <1>2, <1>3, <1>4, ListOf
<1>6. ASSUME NEW i \in DOMAIN v
      PROVE  CopyEntries(v)[i].name = v[i][1] /\ CopyEntries(v)[i].value = v[i][2]
  BY DEF CopyEntries
<1> QED
  BY <1>2, <1>4, <1>5, <1>6

(* The copy that is made says of every name what the host's strings say:    *)
(* those without `=' define none.                                          *)
LEMMA CopyAgrees ==
  ASSUME NEW v \in StartupVectors
  PROVE  /\ IsList(copy_entries_from_host_env(v))
         /\ \A n \in EnvNames : Agree(CopyEntries(v), copy_entries_from_host_env(v), n)
<1> DEFINE I == {i \in DOMAIN v : v[i][1] # Malformed}
           t == Kept(v, I)
           c == Cardinality(I)
<1>1. /\ Len(v) \in Nat /\ DOMAIN v = 1 .. Len(v) /\ IsList(v)
      /\ DOMAIN CopyEntries(v) = DOMAIN v
      /\ \A i \in DOMAIN v : /\ CopyEntries(v)[i].name = v[i][1]
                            /\ CopyEntries(v)[i].value = v[i][2]
  BY StartupFacts
<1>2. I \subseteq DOMAIN v /\ copy_entries_from_host_env(v) = CopyEntries(t)
  BY DEF copy_entries_from_host_env
<1>3. \A n \in EnvNames : \A i \in DOMAIN v : v[i][1] = n => i \in I
  BY EnvAssumption
<1> HIDE DEF I
<1>4. /\ c \in Nat /\ DOMAIN t = 1 .. c
      /\ \E f : Leads(f, v, I)
  BY <1>1, <1>2, KeptFacts
<1>5. PICK f : Leads(f, v, I)
  BY <1>4
<1>6. Counts(f, I) /\ \A j \in 1 .. c : t[j] = v[f[j]] /\ f[j] \in I
  BY <1>5 DEF Leads, Counts
<1> HIDE DEF t, c
<1>7. /\ DOMAIN CopyEntries(t) = 1 .. c
      /\ CopyEntries(t) = [i \in 1 .. c |-> CopyEntries(t)[i]]
  BY <1>4 DEF CopyEntries
<1>8. IsList(CopyEntries(t))
  BY <1>4, <1>7, ListOf
<1>9. ASSUME NEW j \in 1 .. c
      PROVE  /\ CopyEntries(t)[j].name = CopyEntries(v)[f[j]].name
             /\ CopyEntries(t)[j].value = CopyEntries(v)[f[j]].value
  <2>1. CopyEntries(t)[j].name = t[j][1] /\ CopyEntries(t)[j].value = t[j][2]
    BY <1>4 DEF CopyEntries
  <2>2. t[j] = v[f[j]] /\ f[j] \in DOMAIN v
    BY <1>2, <1>6
  <2> QED
    BY <1>1, <2>1, <2>2
<1>10. ASSUME NEW n \in EnvNames PROVE Agree(CopyEntries(v), CopyEntries(t), n)
  <2>1. \A i \in DOMAIN CopyEntries(v) : CopyEntries(v)[i].name = n => i \in I
    BY <1>1, <1>3
  <2>2. DOMAIN CopyEntries(v) = 1 .. Len(v) /\ I \subseteq DOMAIN CopyEntries(v)
    BY <1>1, <1>2
  <2>3. \A j \in DOMAIN CopyEntries(t) :
          /\ CopyEntries(t)[j].name = CopyEntries(v)[f[j]].name
          /\ CopyEntries(t)[j].value = CopyEntries(v)[f[j]].value
    BY <1>7, <1>9
  <2> QED
    BY <1>1, <1>4, <1>6, <1>7, <2>1, <2>2, <2>3, CountedAgree DEF c
<1> QED
  BY <1>2, <1>8, <1>10

(* ensure_initialized: the owned environment is there and says of each name *)
(* what was bound to it, and nothing that somebody reads was moved.         *)
LEMMA EnsureFacts ==
  ASSUME EnvIInv
  PROVE  LET o == ensure_initialized(owned) IN
         /\ Made(o)
         /\ \A n \in EnvNames : Tells(o.entries, n, bound[n]) /\ Lends(o.entries, n, borrowed[n])
         /\ initialized => o = owned
<1>1. /\ DOMAIN owned = {"initialized", "entries", "environ"}
      /\ (owned.initialized <=> initialized) /\ owned.entries = entries /\ owned.environ = environ
  BY DEF owned
<1>2. IsList(entries) /\ startup_vector \in StartupVectors
  BY DEF EnvIInv, EnvTypeOK
<1>3. CASE initialized
  <2>1. ensure_initialized(owned) = owned
    BY <1>1, <1>3 DEF ensure_initialized
  <2>2. environ = Published(entries) /\ \A n \in EnvNames :
          Tells(entries, n, bound[n]) /\ Lends(entries, n, borrowed[n])
    BY <1>3 DEF EnvIInv, OwnedTells
  <2> QED
    BY <1>1, <1>2, <1>3, <2>1, <2>2 DEF Made
<1>4. CASE ~initialized
  <2> DEFINE list == IF environ = "null" THEN copy_entries_from_host_env(startup_vector)
                                         ELSE CopyEntries(startup_vector)
             p == [owned EXCEPT !.initialized = TRUE, !.entries = list]
  <2>1. IsList(list) /\ \A n \in EnvNames : Agree(CopyEntries(startup_vector), list, n)
    BY <1>2, CopyAgrees, StartupFacts DEF Agree
  <2>2. ensure_initialized(owned) = publish(p)
    BY <1>1, <1>4 DEF ensure_initialized
  <2> HIDE DEF list
  <2>3. DOMAIN p = {"initialized", "entries", "environ"} /\ p.initialized /\ p.entries = list
    BY <1>1
  <2> HIDE DEF p
  <2>4. Made(publish(p)) /\ publish(p).entries = list
    BY <2>1, <2>3, PublishMakes
  <2>5. ASSUME NEW n \in EnvNames
        PROVE  Tells(list, n, bound[n]) /\ Lends(list, n, borrowed[n])
    <3>1. /\ Tells(CopyEntries(startup_vector), n, bound[n])
          /\ borrowed[n] \in {NotBorrowed, HostStrings}
      BY <1>4 DEF EnvIInv, HostTells
    <3> QED
      BY <2>1, <3>1, Agreed DEF Lends
  <2> QED
    BY <1>4, <2>2, <2>4, <2>5
<1> QED
  BY <1>3, <1>4

-----------------------------------------------------------------------------
(* The aliases                                                             *)

(* Taking aliases out leaves them as the calls bound them, when the names  *)
(*  of those taken out are no longer bound to an alias.                    *)
LEMMA AliasesKept ==
  ASSUME NEW al, NEW w, AliasesTell(al, w), NEW I, I \subseteq DOMAIN al, NEW new,
         \A i \in I : new[al[i].name] = w[al[i].name],
         \A n \in EnvNames : new[n].kind = "alias" => \E i \in I : al[i].name = n
  PROVE  AliasesTell(Kept(al, I), new)
<1> DEFINE k == Kept(al, I)
<1>1. IsList(al) /\ Unique(al)
  BY DEF AliasesTell
<1>2. IsList(k) /\ Unique(k)
  BY <1>1, KeptFacts, KeptUnique
<1>3. /\ \A j \in DOMAIN k : \E i \in I : k[j] = al[i]
      /\ \A i \in I : \E j \in DOMAIN k : k[j] = al[i]
  BY <1>1, KeptElements
<1> HIDE DEF k
<1>4. ASSUME NEW j \in DOMAIN k
      PROVE  /\ k[j].name \in EnvNames /\ k[j].buffer \in Buffers
             /\ new[k[j].name] = AliasOf(k[j].buffer)
  <2>1. PICK i \in I : k[j] = al[i]
    BY <1>3
  <2>2. /\ al[i].name \in EnvNames /\ al[i].buffer \in Buffers
        /\ w[al[i].name] = AliasOf(al[i].buffer) /\ new[al[i].name] = w[al[i].name]
    BY DEF AliasesTell
  <2> QED
    BY <2>1, <2>2
<1>5. ASSUME NEW n \in EnvNames, new[n].kind = "alias" PROVE \E j \in DOMAIN k : k[j].name = n
  BY <1>3, <1>5
<1> QED
  BY <1>2, <1>4, <1>5 DEF AliasesTell, k

(* putenv adds the alias of a name that has none.                          *)
LEMMA AliasAppended ==
  ASSUME NEW al, NEW w, AliasesTell(al, w), NEW n \in EnvNames, NEW b \in Buffers,
         Lacks(al, n),
         NEW new, new[n] = AliasOf(b), \A m \in EnvNames : m # n => new[m] = w[m]
  PROVE  AliasesTell(Append(al, [name |-> n, buffer |-> b]), new)
<1> DEFINE a == [name |-> n, buffer |-> b]
           list == Append(al, a)
<1>1. IsList(al) /\ DOMAIN al = 1 .. Len(al) /\ Len(al) \in Nat
  BY ListFacts DEF AliasesTell
<1>2. /\ DOMAIN list = 1 .. Len(al) + 1 /\ IsList(list)
      /\ \A i \in 1 .. Len(al) : list[i] = al[i]
      /\ list[Len(al) + 1] = a
  BY <1>1, ListAppended
<1>3. a.name = n /\ a.buffer = b
  OBVIOUS
<1> HIDE DEF list, a
<1>4. ASSUME NEW i \in DOMAIN list
      PROVE  \/ i = Len(al) + 1 /\ list[i] = a
             \/ i \in DOMAIN al /\ list[i] = al[i] /\ al[i].name # n
  BY <1>1, <1>2 DEF Lacks
<1>5. Unique(list)
  BY <1>3, <1>4 DEF Unique, AliasesTell
<1>6. ASSUME NEW i \in DOMAIN list
      PROVE  /\ list[i].name \in EnvNames /\ list[i].buffer \in Buffers
             /\ new[list[i].name] = AliasOf(list[i].buffer)
  <2>1. CASE list[i] = a
    BY <1>3, <2>1
  <2>2. CASE i \in DOMAIN al /\ list[i] = al[i] /\ al[i].name # n
    BY <2>2 DEF AliasesTell
  <2> QED
    BY <1>4, <2>1, <2>2
<1>7. ASSUME NEW m \in EnvNames, new[m].kind = "alias" PROVE \E i \in DOMAIN list : list[i].name = m
  <2>1. CASE m = n
    BY <1>1, <1>2, <1>3, <2>1
  <2>2. CASE m # n
    <3>1. PICK i \in DOMAIN al : al[i].name = m
      BY <1>7, <2>2 DEF AliasesTell
    <3> QED
      BY <1>1, <1>2, <3>1
  <2> QED
    BY <2>1, <2>2
<1> QED
  BY <1>2, <1>5, <1>6, <1>7 DEF AliasesTell, list, a

\* The name has an alias, whose buffer does not have the name any more.
Stale(al, n) == ~AliasFound(al, n) /\ \E i \in DOMAIN al : al[i].name = n

(* A lookup finds at most one alias of a name, and takes it out when it is  *)
(* stale.                                                                  *)
LEMMA LookupFacts ==
  ASSUME EnvIInv, NEW n \in EnvNames
  PROVE  LET al == putenv_aliases IN
         /\ AliasFound(al, n) => \E i \in DOMAIN al :
              /\ al[i].name = n /\ ValidAliases(al, n) = {i} /\ Max(ValidAliases(al, n)) = i
         /\ ~Stale(al, n) => LookupAliases(al, n) = Kept(al, DOMAIN al)
         /\ Stale(al, n) => LookupAliases(al, n) = Kept(al, {i \in DOMAIN al : al[i].name # n})
         /\ bound[n].kind = "alias" <=> \E i \in DOMAIN al : al[i].name = n
<1> DEFINE al == putenv_aliases
<1>1. /\ AliasesTell(al, bound) /\ IsList(al) /\ Unique(al)
      /\ DOMAIN al = 1 .. Len(al) /\ Len(al) \in Nat
  BY ListFacts DEF EnvIInv, AliasesTell
<1>2. \A i \in DOMAIN al : Max({i}) = i
  <2>1. \A i \in Nat : i \in {i} /\ \A y \in {i} : i >= y
    OBVIOUS
  <2> QED
    BY <1>1, <2>1 DEF Max
<1>3. ASSUME AliasFound(al, n)
      PROVE  \E i \in DOMAIN al :
               al[i].name = n /\ ValidAliases(al, n) = {i} /\ Max(ValidAliases(al, n)) = i
  <2>1. PICK i \in DOMAIN al : i \in ValidAliases(al, n)
    BY <1>3 DEF AliasFound, ValidAliases
  <2>2. al[i].name = n /\ ValidAliases(al, n) = {i}
    BY <1>1, <2>1 DEF ValidAliases, Unique
  <2> QED
    BY <1>2, <2>2
<1> DEFINE stays(i) == \/ al[i].name \notin {n}
                       \/ LET valid == ValidAliases(al, al[i].name)
                          IN valid # {} /\ i = Max(valid)
<1>4. LookupAliases(al, n) = Kept(al, {i \in DOMAIN al : stays(i)})
  BY DEF LookupAliases, PruneAliases
<1>5. ASSUME ~Stale(al, n), NEW i \in DOMAIN al PROVE stays(i)
  <2>1. CASE al[i].name = n
    <3>1. AliasFound(al, n)
      BY <1>5, <2>1 DEF Stale
    <3>2. PICK j \in DOMAIN al :
            al[j].name = n /\ ValidAliases(al, n) = {j} /\ Max(ValidAliases(al, n)) = j
      BY <1>3, <3>1
    <3>3. i = j
      BY <1>1, <2>1, <3>2 DEF Unique
    <3> QED
      BY <2>1, <3>2, <3>3
  <2> QED
    BY <2>1
<1>6. ASSUME Stale(al, n), NEW i \in DOMAIN al PROVE stays(i) <=> al[i].name # n
  BY <1>6 DEF Stale, AliasFound
<1> HIDE DEF stays
<1>7. ~Stale(al, n) => {i \in DOMAIN al : stays(i)} = DOMAIN al
  BY <1>5
<1>8. Stale(al, n) => {i \in DOMAIN al : stays(i)} = {i \in DOMAIN al : al[i].name # n}
  BY <1>6
<1>9. bound[n].kind = "alias" <=> \E i \in DOMAIN al : al[i].name = n
  <2>1. \A i \in DOMAIN al : bound[al[i].name] = AliasOf(al[i].buffer)
    BY <1>1 DEF AliasesTell
  <2>2. \A b : AliasOf(b).kind = "alias"
    BY DEF AliasOf
  <2>3. bound[n].kind = "alias" => \E i \in DOMAIN al : al[i].name = n
    BY <1>1 DEF AliasesTell
  <2> QED
    BY <2>1, <2>2, <2>3
<1> QED
  BY <1>3, <1>4, <1>7, <1>8, <1>9

(* With nothing of the names in the list there is nothing to prune.         *)
LEMMA NothingToPrune ==
  ASSUME NEW al, NEW names, \A i \in DOMAIN al : al[i].name \notin names
  PROVE  /\ PruneAliases(al, names) = Kept(al, DOMAIN al)
         /\ \A n \in names : ~AliasFound(al, n)
<1>1. \A n \in names : ~AliasFound(al, n)
  BY DEF AliasFound, ValidAliases
<1> DEFINE stays(i) == \/ al[i].name \notin names
                       \/ LET valid == ValidAliases(al, al[i].name)
                          IN valid # {} /\ i = Max(valid)
<1>2. {i \in DOMAIN al : stays(i)} = DOMAIN al
  OBVIOUS
<1>3. PruneAliases(al, names) = Kept(al, {i \in DOMAIN al : stays(i)})
  BY DEF PruneAliases
<1> QED
  BY <1>1, <1>2, <1>3

-----------------------------------------------------------------------------
(* What getenv finds                                                       *)

(* A lookup whose aliases were all stale takes the name out of the entries.*)
LEMMA LookupOwnedFacts ==
  ASSUME NEW o, Made(o), NEW al, NEW n
  PROVE  LET after == LookupOwned(o, al, n) IN
         /\ Made(after)
         /\ Stale(al, n) => Lacks(after.entries, n)
         /\ ~Stale(al, n) => after = o
         /\ \A m : m # n => Agree(o.entries, after.entries, m) /\ Keeps(o.entries, after.entries, m)
<1>1. CASE Stale(al, n)
  <2>1. LookupOwned(o, al, n) = RemoveEach(o, {n})
    BY <1>1, RemoveNamesFacts DEF LookupOwned, Stale
  <2>2. /\ Made(RemoveEach(o, {n})) /\ Lacks(RemoveEach(o, {n}).entries, n)
        /\ \A m : m # n => /\ Agree(o.entries, RemoveEach(o, {n}).entries, m)
                           /\ Keeps(o.entries, RemoveEach(o, {n}).entries, m)
    BY RemoveEachFacts
  <2> QED
    BY <1>1, <2>1, <2>2
<1>2. CASE ~Stale(al, n)
  <2>1. LookupOwned(o, al, n) = o
    BY <1>2 DEF LookupOwned, Stale
  <2> QED
    BY <1>2, <2>1 DEF Agree, Keeps
<1> QED
  BY <1>1, <1>2

(* lookup_environ_value returns the value of the name's first entry.        *)
LEMMA ValueFacts ==
  ASSUME NEW o, IsList(EnvironStrings(o)), NEW n
  PROVE  LET s == EnvironStrings(o)
             r == lookup_environ_value(o, n)
         IN \/ r.kind = "null" /\ Lacks(s, n)
            \/ /\ r.kind = "string" /\ Begins(s, n, r.value)
               /\ \E i \in DOMAIN s : s[i].name = n /\ s[i].at = r.at
<1> DEFINE s == EnvironStrings(o)
           found == {i \in DOMAIN s : s[i].name = n}
<1>1. DOMAIN s = 1 .. Len(s) /\ Len(s) \in Nat
  BY ListFacts
<1>2. CASE found = {}
  BY <1>2 DEF lookup_environ_value, Lacks
<1>3. CASE found # {}
  <2> DEFINE k == Min(found)
  <2>1. k \in found /\ \A i \in found : k <= i
    BY <1>3, FirstEntry
  <2>2. k \in DOMAIN s /\ s[k].name = n
    BY <2>1
  <2>3. lookup_environ_value(o, n) = [kind |-> "string", value |-> s[k].value, at |-> s[k].at]
    BY <1>3 DEF lookup_environ_value
  <2> HIDE DEF k
  <2>4. ASSUME NEW j \in DOMAIN s, j < k PROVE s[j].name # n
    <3>1. j \notin found
      <4> HIDE DEF found
      <4> QED
        BY <1>1, <2>1, <2>2, <2>4
    <3> QED
      BY <3>1
  <2>5. Begins(s, n, s[k].value)
    BY <2>2, <2>4 DEF Begins
  <2> HIDE DEF s
  <2> QED
    BY <2>2, <2>3, <2>5 DEF s
<1> QED
  BY <1>2, <1>3

LEMMA BeginsOnce ==
  ASSUME NEW s, IsList(s), NEW n, NEW v, Begins(s, n, v)
  PROVE  ~Lacks(s, n) /\ \A w : Begins(s, n, w) => w = v
<1>1. DOMAIN s = 1 .. Len(s) /\ Len(s) \in Nat
  BY ListFacts
<1>2. PICK i \in DOMAIN s : /\ s[i].name = n /\ s[i].value = v
                           /\ \A j \in DOMAIN s : j < i => s[j].name # n
  BY DEF Begins
<1>3. ASSUME NEW w, Begins(s, n, w) PROVE w = v
  <2>1. PICK k \in DOMAIN s : /\ s[k].name = n /\ s[k].value = w
                             /\ \A j \in DOMAIN s : j < k => s[j].name # n
    BY <1>3 DEF Begins
  <2>2. i = k
    BY <1>1, <1>2, <2>1
  <2> QED
    BY <1>2, <2>1, <2>2
<1> QED
  BY <1>2, <1>3 DEF Lacks

(* Where getenv looks when no alias answers: the host's vector, or entries  *)
(* that say of each name what was bound to it and have lost a stale name.   *)
LEMMA GetenvOwned ==
  ASSUME EnvIInv, NEW n \in EnvNames, ~AliasFound(putenv_aliases, n)
  PROVE  LET o == OwnedForLookup(n) IN
         \/ o = owned /\ ~initialized /\ environ = "startup" /\ ~Stale(putenv_aliases, n)
         \/ /\ Made(o)
            /\ Stale(putenv_aliases, n) => Lacks(o.entries, n)
            /\ ~Stale(putenv_aliases, n) => Tells(o.entries, n, bound[n])
            /\ \A m \in EnvNames : m # n => /\ Tells(o.entries, m, bound[m])
                                           /\ Lends(o.entries, m, borrowed[m])
<1>1. /\ DOMAIN owned = {"initialized", "entries", "environ"}
      /\ (owned.initialized <=> initialized) /\ owned.entries = entries /\ owned.environ = environ
  BY DEF owned
<1>2. CASE ~initialized
  <2>1. putenv_aliases = <<>> /\ environ \in {"null", "startup"}
    BY <1>2 DEF EnvIInv, HostTells
  <2>2. ~Stale(putenv_aliases, n) /\ LookupOwned(owned, putenv_aliases, n) = owned
    BY <2>1 DEF LookupOwned, Stale
  <2>3. CASE environ = "startup"
    <3>1. OwnedForLookup(n) = owned
      BY <1>1, <2>2, <2>3 DEF OwnedForLookup
    <3> QED
      BY <1>2, <2>2, <2>3, <3>1
  <2>4. CASE environ = "null"
    <3>1. OwnedForLookup(n) = ensure_initialized(owned)
      BY <1>1, <1>2, <2>2, <2>4 DEF OwnedForLookup
    <3>2. /\ Made(ensure_initialized(owned))
          /\ \A m \in EnvNames : /\ Tells(ensure_initialized(owned).entries, m, bound[m])
                                 /\ Lends(ensure_initialized(owned).entries, m, borrowed[m])
      BY EnsureFacts
    <3> QED
      BY <2>2, <3>1, <3>2
  <2> QED
    BY <2>1, <2>3, <2>4
<1>3. CASE initialized
  <2> DEFINE o == LookupOwned(owned, putenv_aliases, n)
  <2>1. /\ Made(owned)
        /\ \A m \in EnvNames : Tells(entries, m, bound[m]) /\ Lends(entries, m, borrowed[m])
    <3>1. IsList(entries)
      BY DEF EnvIInv, EnvTypeOK
    <3>2. environ = Published(entries) /\ \A m \in EnvNames :
            Tells(entries, m, bound[m]) /\ Lends(entries, m, borrowed[m])
      BY <1>3 DEF EnvIInv, OwnedTells
    <3> QED
      BY <1>1, <1>3, <3>1, <3>2 DEF Made
  <2>2. /\ Made(o)
        /\ Stale(putenv_aliases, n) => Lacks(o.entries, n)
        /\ ~Stale(putenv_aliases, n) => o = owned
        /\ \A m : m # n => Agree(owned.entries, o.entries, m) /\ Keeps(owned.entries, o.entries, m)
    BY <2>1, LookupOwnedFacts
  <2> HIDE DEF o
  <2>3. OwnedForLookup(n) = o
    BY <2>2 DEF OwnedForLookup, Made, o
  <2>4. \A m \in EnvNames : m # n => /\ Tells(o.entries, m, bound[m])
                                    /\ Lends(o.entries, m, borrowed[m])
    BY <1>1, <2>1, <2>2, Agreed, Lent
  <2> QED
    BY <1>1, <2>1, <2>2, <2>3, <2>4
<1> QED
  BY <1>2, <1>3

LEMMA HostStringsFacts ==
  ASSUME NEW o, o.environ = "startup", startup_vector \in StartupVectors
  PROVE  LET s == EnvironStrings(o)
             copies == CopyEntries(startup_vector)
         IN /\ IsList(s)
            /\ \A n : /\ Lacks(s, n) <=> Lacks(copies, n)
                      /\ \A v : Begins(s, n, v) <=> Begins(copies, n, v)
            /\ \A i \in DOMAIN s : s[i].at = HostStrings
<1> DEFINE s == EnvironStrings(o)
           copies == CopyEntries(startup_vector)
<1>1. s = [i \in DOMAIN startup_vector |->
             [name |-> startup_vector[i][1], value |-> startup_vector[i][2], at |-> HostStrings]]
  BY DEF EnvironStrings
<1>2. /\ Len(startup_vector) \in Nat /\ DOMAIN startup_vector = 1 .. Len(startup_vector)
      /\ DOMAIN copies = DOMAIN startup_vector
      /\ \A i \in DOMAIN startup_vector : /\ copies[i].name = startup_vector[i][1]
                                         /\ copies[i].value = startup_vector[i][2]
  BY StartupFacts
<1>3. DOMAIN s = 1 .. Len(startup_vector) /\ s = [i \in 1 .. Len(startup_vector) |-> s[i]]
  BY <1>1, <1>2
<1>4. IsList(s)
  BY <1>2, <1>3, ListOf
<1>5. \A i \in DOMAIN startup_vector : /\ s[i].name = copies[i].name
                                      /\ s[i].value = copies[i].value
                                      /\ s[i].at = HostStrings
  BY <1>1, <1>2
<1>6. DOMAIN s = DOMAIN copies
  BY <1>2, <1>3
<1> HIDE DEF s, copies
<1>7. \A n : /\ Lacks(s, n) <=> Lacks(copies, n)
            /\ \A v : Begins(s, n, v) <=> Begins(copies, n, v)
  BY <1>2, <1>5, <1>6 DEF Lacks, Begins
<1> QED
  BY <1>2, <1>4, <1>5, <1>6, <1>7 DEF s, copies

LEMMA OwnedStringsFacts ==
  ASSUME NEW o, Made(o)
  PROVE  EnvironStrings(o) = o.entries
  BY DEF EnvironStrings, Made, Published

(* The answer, and what is true of it where it was found.                  *)
LEMMA GetenvFacts ==
  ASSUME EnvIInv, NEW n \in EnvNames, ~AliasFound(putenv_aliases, n)
  PROVE  LET r == GetenvResult(n)
             o == OwnedForLookup(n)
         IN /\ \/ r.kind = "string" /\ bound[n].kind = "value" /\ r.value = bound[n].value
               \/ r.kind = "null" /\ bound[n].kind # "value"
            /\ \/ /\ o = owned /\ ~initialized /\ environ = "startup" /\ ~Stale(putenv_aliases, n)
                  /\ r.kind = "string" => r.at = HostStrings
                  /\ r.kind = "null" => Lacks(CopyEntries(startup_vector), n)
               \/ /\ Made(o)
                  /\ \A m \in EnvNames : m # n => /\ Tells(o.entries, m, bound[m])
                                                 /\ Lends(o.entries, m, borrowed[m])
                  /\ r.kind = "string" => Holds(o.entries, n, r.at) /\ Tells(o.entries, n, bound[n])
                  /\ r.kind = "null" => Lacks(o.entries, n)
<1> DEFINE al == putenv_aliases
           r == GetenvResult(n)
           o == OwnedForLookup(n)
           w == bound[n]
<1>1. r = lookup_environ_value(o, n)
  BY DEF GetenvResult
<1>2. w.kind \in {"unset", "value", "alias"} /\ startup_vector \in StartupVectors
  BY DEF EnvIInv, EnvTypeOK
<1>3. w.kind = "alias" <=> Stale(al, n)
  BY LookupFacts DEF Stale
<1> HIDE DEF r, w
<1>4. CASE o = owned /\ ~initialized /\ environ = "startup" /\ ~Stale(al, n)
  <2>1. Tells(CopyEntries(startup_vector), n, w)
    BY <1>4 DEF EnvIInv, HostTells, w
  <2>2. o.environ = "startup"
    BY <1>4 DEF owned
  <2> DEFINE s == EnvironStrings(o)
             copies == CopyEntries(startup_vector)
  <2>3. /\ IsList(s)
        /\ Lacks(s, n) <=> Lacks(copies, n)
        /\ \A v : Begins(s, n, v) <=> Begins(copies, n, v)
        /\ \A i \in DOMAIN s : s[i].at = HostStrings
    BY <1>2, <2>2, HostStringsFacts
  <2>4. \/ r.kind = "null" /\ Lacks(s, n)
        \/ /\ r.kind = "string" /\ Begins(s, n, r.value)
           /\ \E i \in DOMAIN s : s[i].name = n /\ s[i].at = r.at
    BY <1>1, <2>3, ValueFacts
  <2> HIDE DEF s, copies, o
  <2>5. \A v : Begins(s, n, v) => ~Lacks(s, n) /\ \A x : Begins(s, n, x) => x = v
    BY <2>3, BeginsOnce
  <2>6. /\ w.kind = "unset" => Lacks(s, n)
        /\ w.kind = "value" => Begins(s, n, w.value)
        /\ w.kind # "alias"
    BY <1>3, <1>4, <2>1, <2>3 DEF Tells, copies
  <2>7. \/ r.kind = "string" /\ w.kind = "value" /\ r.value = w.value
        \/ r.kind = "null" /\ w.kind # "value"
    BY <1>2, <2>4, <2>5, <2>6
  <2>8. r.kind = "string" => r.at = HostStrings
    BY <2>3, <2>4
  <2>9. r.kind = "null" => Lacks(copies, n)
    BY <2>3, <2>4
  <2> QED
    BY <1>4, <2>7, <2>8, <2>9 DEF r, w, o, copies
<1>5. CASE /\ Made(o)
           /\ Stale(al, n) => Lacks(o.entries, n)
           /\ ~Stale(al, n) => Tells(o.entries, n, w)
           /\ \A m \in EnvNames : m # n => /\ Tells(o.entries, m, bound[m])
                                          /\ Lends(o.entries, m, borrowed[m])
  <2> DEFINE s == o.entries
  <2>1. IsList(s) /\ EnvironStrings(o) = s
    BY <1>5, OwnedStringsFacts DEF Made
  <2>2. \/ r.kind = "null" /\ Lacks(s, n)
        \/ /\ r.kind = "string" /\ Begins(s, n, r.value)
           /\ \E i \in DOMAIN s : s[i].name = n /\ s[i].at = r.at
    BY <1>1, <2>1, ValueFacts
  <2> HIDE DEF s, o
  <2>3. \A v : Begins(s, n, v) => ~Lacks(s, n) /\ \A x : Begins(s, n, x) => x = v
    BY <2>1, BeginsOnce
  <2>4. /\ w.kind # "value" => Lacks(s, n)
        /\ w.kind = "value" => Begins(s, n, w.value) /\ Tells(s, n, w)
    BY <1>2, <1>3, <1>5 DEF Tells, s
  <2>5. \/ r.kind = "string" /\ w.kind = "value" /\ r.value = w.value
        \/ r.kind = "null" /\ w.kind # "value"
    BY <2>2, <2>3, <2>4
  <2>6. r.kind = "string" => Holds(s, n, r.at) /\ Tells(s, n, w)
    BY <2>2, <2>4, <2>5 DEF Holds
  <2>7. r.kind = "null" => Lacks(s, n)
    BY <2>2
  <2> QED
    BY <1>5, <2>5, <2>6, <2>7 DEF r, w, o, s
<1> QED
  BY <1>4, <1>5, GetenvOwned DEF w

(* The invariant says what getenv finds, whichever place it finds it in.   *)
LEMMA AnswersAreCurrent == ASSUME EnvIInv PROVE GetenvIsCurrent
<1> SUFFICES ASSUME NEW n \in EnvNames
             PROVE  LET result == GetenvResult(n)
                        promised == Promised(n)
                    IN /\ result.kind = promised.kind
                       /\ promised.kind # "null" => result.value = promised.value
  BY DEF GetenvIsCurrent
<1> DEFINE al == putenv_aliases
           w == bound[n]
<1>1. /\ w.kind \in {"unset", "value", "alias"}
      /\ w.kind = "alias" <=> \E i \in DOMAIN al : al[i].name = n
      /\ \A i \in DOMAIN al : al[i].name = n => w = AliasOf(al[i].buffer)
  BY LookupFacts DEF EnvIInv, EnvTypeOK, AliasesTell
<1>2. CASE AliasFound(al, n)
  <2>1. PICK i \in DOMAIN al : /\ al[i].name = n /\ ValidAliases(al, n) = {i}
                              /\ Max(ValidAliases(al, n)) = i
    BY <1>2, LookupFacts
  <2>2. parse_alias(al[i].buffer, n)
    BY <2>1 DEF ValidAliases
  <2>3. GetenvResult(n) = [kind |-> "alias", value |-> buffer[al[i].buffer].value,
                           at |-> al[i].buffer]
    BY <1>2, <2>1 DEF GetenvResult
  <2>4. w.kind = "alias" /\ w.buffer = al[i].buffer
    <3>1. w = AliasOf(al[i].buffer)
      BY <1>1, <2>1
    <3> QED
      BY <3>1, Kinds
  <2> HIDE DEF al
  <2>5. Promised(n) = [kind |-> "alias", value |-> buffer[al[i].buffer].value]
    BY <2>2, <2>4 DEF Promised
  <2> QED
    BY <2>3, <2>5
<1>3. CASE ~AliasFound(al, n)
  <2>1. \/ GetenvResult(n).kind = "string" /\ w.kind = "value" /\ GetenvResult(n).value = w.value
        \/ GetenvResult(n).kind = "null" /\ w.kind # "value"
    BY <1>3, GetenvFacts
  <2>2. CASE w.kind = "value"
    <3>1. Promised(n) = [kind |-> "string", value |-> w.value]
      BY <2>2 DEF Promised
    <3> QED
      BY <2>1, <2>2, <3>1
  <2>3. CASE w.kind = "unset"
    <3>1. Promised(n) = [kind |-> "null"]
      BY <2>3 DEF Promised
    <3> QED
      BY <2>1, <2>3, <3>1
  <2>4. CASE w.kind = "alias"
    <3>1. PICK i \in DOMAIN al : al[i].name = n
      BY <1>1, <2>4
    <3>2. w.buffer = al[i].buffer
      <4>1. w = AliasOf(al[i].buffer)
        BY <1>1, <3>1
      <4> QED
        BY <4>1, Kinds
    <3>3. ~parse_alias(w.buffer, n)
      BY <1>3, <3>1, <3>2 DEF AliasFound, ValidAliases
    <3>4. Promised(n) = [kind |-> "null"]
      BY <2>4, <3>3 DEF Promised
    <3> QED
      BY <2>1, <2>4, <3>4
  <2> QED
    BY <1>1, <2>2, <2>3, <2>4
<1> QED
  BY <1>2, <1>3

(* ... and that what it lent is still there.                               *)
LEMMA BorrowedStay == ASSUME EnvIInv PROVE BorrowedStringsStay
<1> SUFFICES ASSUME NEW n \in EnvNames, borrowed[n] # NotBorrowed, borrowed[n] # HostStrings
             PROVE  \E i \in DOMAIN entries : entries[i].at = borrowed[n] /\ entries[i].name = n
  BY DEF BorrowedStringsStay
<1>1. initialized
  BY DEF EnvIInv, HostTells
<1>2. Lends(entries, n, borrowed[n])
  BY <1>1 DEF EnvIInv, OwnedTells
<1> QED
  BY <1>2 DEF Lends, Holds

-----------------------------------------------------------------------------
(* The calls keep the invariant                                            *)

(* Before any call a name is bound to what the host says of it.            *)
LEMMA EnvInitEstablishes == ASSUME EnvInit PROVE EnvIInv
<1> DEFINE found(n) == {i \in DOMAIN startup_vector : startup_vector[i][1] = n}
<1>1. /\ initialized = FALSE /\ entries = <<>> /\ environ \in {"null", "startup"}
      /\ startup_vector \in StartupVectors /\ putenv_aliases = <<>>
      /\ borrowed = [n \in EnvNames |-> NotBorrowed]
      /\ bound = [n \in EnvNames |-> IF found(n) = {} THEN Unset
                                     ELSE Value(startup_vector[Min(found(n))][2])]
  BY DEF EnvInit
<1>2. IsList(<<>>) /\ DOMAIN <<>> = {}
  BY DEF IsList
<1>3. \A n \in EnvNames : bound[n].kind \in {"unset", "value"}
  BY <1>1 DEF Unset, Value
<1>4. buffer \in [Buffers -> Texts]
  BY DEF EnvInit
<1>5. EnvTypeOK
  BY <1>1, <1>2, <1>3, <1>4 DEF EnvTypeOK
<1>6. AliasesTell(putenv_aliases, bound)
  BY <1>1, <1>2, <1>3 DEF AliasesTell, Unique
<1>7. ASSUME NEW n \in EnvNames PROVE Tells(CopyEntries(startup_vector), n, bound[n])
  <2> DEFINE copies == CopyEntries(startup_vector)
             F == found(n)
  <2>1. /\ Len(startup_vector) \in Nat /\ DOMAIN startup_vector = 1 .. Len(startup_vector)
        /\ IsList(startup_vector) /\ DOMAIN copies = DOMAIN startup_vector
        /\ \A i \in DOMAIN startup_vector : /\ copies[i].name = startup_vector[i][1]
                                           /\ copies[i].value = startup_vector[i][2]
    BY <1>1, StartupFacts
  <2>2. \A i \in DOMAIN copies : i \in F <=> copies[i].name = n
    BY <2>1
  <2>3. F \subseteq DOMAIN startup_vector
    OBVIOUS
  <2> HIDE DEF copies
  <2>4. CASE F = {}
    <3>1. bound[n] = Unset
      BY <1>1, <2>4
    <3>2. Lacks(copies, n)
      BY <2>2, <2>4 DEF Lacks
    <3> QED
      BY <3>1, <3>2 DEF Tells, Unset, copies
  <2>5. CASE F # {}
    <3> DEFINE k == Min(F)
    <3>1. bound[n] = Value(startup_vector[k][2])
      BY <1>1, <2>5
    <3> HIDE DEF F
    <3>2. k \in F /\ \A i \in F : k <= i
      BY <2>1, <2>3, <2>5, FirstEntry
    <3> HIDE DEF k
    <3>3. /\ k \in DOMAIN copies /\ copies[k].name = n /\ copies[k].value = startup_vector[k][2]
          /\ \A j \in DOMAIN copies : j < k => copies[j].name # n
      BY <2>1, <2>2, <2>3, <3>2
    <3>4. Begins(copies, n, startup_vector[k][2])
      BY <3>3 DEF Begins
    <3> QED
      BY <3>1, <3>4 DEF Tells, Value, copies
  <2> QED
    BY <2>4, <2>5
<1> QED
  BY <1>1, <1>5, <1>6, <1>7 DEF EnvIInv, HostTells, OwnedTells

(* What a call has to say of the state it leaves.                          *)
LEMMA CallEstablishes ==
  ASSUME EnvIInv, NEW o, Made(o), SetOwned(o), UNCHANGED <<startup_vector, buffer>>,
         AliasesTell(putenv_aliases', bound'),
         borrowed' = [n \in EnvNames |-> borrowed'[n]],
         bound' = [n \in EnvNames |-> bound'[n]],
         \A n \in EnvNames : /\ bound'[n].kind \in {"unset", "value", "alias"}
                             /\ Tells(o.entries, n, bound'[n])
                             /\ Lends(o.entries, n, borrowed'[n])
  PROVE  EnvIInv'
<1>1. initialized' = o.initialized /\ entries' = o.entries /\ environ' = o.environ
  BY DEF SetOwned
<1>2. o.initialized /\ IsList(o.entries) /\ o.environ = Published(o.entries)
  BY DEF Made
<1>3. startup_vector \in StartupVectors /\ buffer \in [Buffers -> Texts]
  BY DEF EnvIInv, EnvTypeOK
<1>4. initialized'
  BY <1>1, <1>2
<1>5. EnvTypeOK'
  BY <1>1, <1>2, <1>3, <1>4 DEF EnvTypeOK
<1>6. HostTells'
  BY <1>4 DEF HostTells
<1>7. OwnedTells'
  BY <1>1, <1>2 DEF OwnedTells
<1> QED
  BY <1>5, <1>6, <1>7 DEF EnvIInv

LEMMA ReturnedFacts ==
  ASSUME NEW names, Returned(names)
  PROVE  /\ borrowed' = [n \in EnvNames |-> borrowed'[n]]
         /\ \A n \in EnvNames :
              borrowed'[n] = IF n \in names THEN NotBorrowed ELSE borrowed[n]
  BY DEF Returned

LEMMA BindsFacts ==
  ASSUME NEW new, Binds(new)
  PROVE  /\ bound' = [n \in EnvNames |-> bound'[n]]
         /\ \A n \in EnvNames : bound'[n] = IF n \in DOMAIN new THEN new[n] ELSE bound[n]
  BY DEF Binds

LEMMA BoundKinds ==
  ASSUME EnvIInv
  PROVE  \A n \in EnvNames : bound[n].kind \in {"unset", "value", "alias"}
  BY DEF EnvIInv, EnvTypeOK

LEMMA WithoutAlias ==
  ASSUME NEW al, NEW w, AliasesTell(al, w), NEW n, NEW new,
         \A m \in EnvNames : m # n => new[m] = w[m],
         n \in EnvNames => new[n].kind # "alias"
  PROVE  AliasesTell(WithoutName(al, n), new)
<1> DEFINE I == {i \in DOMAIN al : al[i].name \notin {n}}
<1>1. WithoutName(al, n) = Kept(al, I) /\ I \subseteq DOMAIN al
  BY DEF WithoutName, WithoutNames
<1>2. \A i \in I : new[al[i].name] = w[al[i].name]
  BY DEF AliasesTell
<1>3. ASSUME NEW m \in EnvNames, new[m].kind = "alias" PROVE \E i \in I : al[i].name = m
  <2>1. m # n
    BY <1>3
  <2>2. w[m].kind = "alias"
    BY <1>3, <2>1
  <2>3. PICK i \in DOMAIN al : al[i].name = m
    BY <2>2 DEF AliasesTell
  <2> QED
    BY <2>1, <2>3
<1> HIDE DEF I
<1> QED
  BY <1>1, <1>2, <1>3, AliasesKept

LEMMA UnsetenvStep == ASSUME EnvIInv, NEW name \in EnvNames, unsetenv(name) PROVE EnvIInv'
<1> DEFINE o == ensure_initialized(owned)
           after == RemoveEach(o, {name})
<1>1. /\ SetOwned(after) /\ putenv_aliases' = WithoutName(putenv_aliases, name)
      /\ Returned({name}) /\ Binds([n \in {name} |-> Unset])
      /\ UNCHANGED <<startup_vector, buffer>>
  BY DEF unsetenv, remove_name
<1>2. /\ Made(o)
      /\ \A n \in EnvNames : Tells(o.entries, n, bound[n]) /\ Lends(o.entries, n, borrowed[n])
  BY EnsureFacts
<1>3. /\ Made(after) /\ Lacks(after.entries, name)
      /\ \A n : n # name => /\ Agree(o.entries, after.entries, n)
                            /\ Keeps(o.entries, after.entries, n)
  BY <1>2, RemoveEachFacts
<1> HIDE DEF o, after
<1>4. /\ borrowed' = [n \in EnvNames |-> borrowed'[n]]
      /\ \A n \in EnvNames : borrowed'[n] = IF n = name THEN NotBorrowed ELSE borrowed[n]
  BY <1>1, ReturnedFacts
<1>5. /\ bound' = [n \in EnvNames |-> bound'[n]]
      /\ \A n \in EnvNames : bound'[n] = IF n = name THEN Unset ELSE bound[n]
  BY <1>1, BindsFacts
<1>6. AliasesTell(putenv_aliases', bound')
  <2>1. AliasesTell(putenv_aliases, bound)
    BY DEF EnvIInv
  <2> QED
    BY <1>1, <1>5, <2>1, WithoutAlias, Kinds
<1>7. ASSUME NEW n \in EnvNames
      PROVE  /\ bound'[n].kind \in {"unset", "value", "alias"}
             /\ Tells(after.entries, n, bound'[n]) /\ Lends(after.entries, n, borrowed'[n])
  <2>1. CASE n = name
    BY <1>3, <1>4, <1>5, <2>1, Kinds DEF Tells, Lends
  <2>2. CASE n # name
    BY <1>2, <1>3, <1>4, <1>5, <2>2, Agreed, Lent, BoundKinds
  <2> QED
    BY <2>1, <2>2
<1> QED
  BY <1>1, <1>3, <1>4, <1>5, <1>6, <1>7, CallEstablishes

LEMMA ClearenvStep == ASSUME EnvIInv, clearenv PROVE EnvIInv'
<1> DEFINE o == ensure_initialized(owned)
           after == env_clear(o)
<1>1. /\ SetOwned(after) /\ putenv_aliases' = <<>>
      /\ Returned(EnvNames) /\ Binds([n \in EnvNames |-> Unset])
      /\ UNCHANGED <<startup_vector, buffer>>
  BY DEF clearenv
<1>2. IsList(<<>>) /\ DOMAIN <<>> = {}
  BY DEF IsList
<1>3. Made(o)
  BY EnsureFacts
<1>4. Made(after) /\ after.entries = <<>>
  BY <1>2, <1>3, RepublishMakes DEF env_clear
<1> HIDE DEF o, after
<1>5. /\ borrowed' = [n \in EnvNames |-> borrowed'[n]]
      /\ \A n \in EnvNames : borrowed'[n] = NotBorrowed
  BY <1>1, ReturnedFacts
<1>6. /\ bound' = [n \in EnvNames |-> bound'[n]]
      /\ \A n \in EnvNames : bound'[n] = Unset
  BY <1>1, BindsFacts
<1>7. AliasesTell(putenv_aliases', bound')
  BY <1>1, <1>2, <1>6, Kinds DEF AliasesTell, Unique
<1>8. \A n \in EnvNames :
        /\ bound'[n].kind \in {"unset", "value", "alias"}
        /\ Tells(after.entries, n, bound'[n]) /\ Lends(after.entries, n, borrowed'[n])
  BY <1>2, <1>4, <1>5, <1>6, Kinds DEF Tells, Lends, Lacks
<1> QED
  BY <1>1, <1>4, <1>5, <1>6, <1>7, <1>8, CallEstablishes

LEMMA RewriteBufferStep ==
  ASSUME EnvIInv, NEW b \in Buffers, NEW text \in Texts, RewriteBuffer(b, text)
  PROVE  EnvIInv'
<1>1. /\ initialized' = initialized /\ entries' = entries /\ environ' = environ
      /\ UNCHANGED <<startup_vector, putenv_aliases, borrowed, bound>>
      /\ buffer' = [buffer EXCEPT ![b] = text]
  BY DEF RewriteBuffer, owned_vars
<1>2. buffer' \in [Buffers -> Texts]
  BY <1>1 DEF EnvIInv, EnvTypeOK
<1>3. EnvTypeOK'
  BY <1>1, <1>2 DEF EnvIInv, EnvTypeOK
<1> QED
  BY <1>1, <1>3 DEF EnvIInv, HostTells, OwnedTells

LEMMA PutenvInvalidStep ==
  ASSUME EnvIInv, NEW b \in Buffers, PutenvInvalid(b), UNCHANGED <<startup_vector, buffer>>
  PROVE  EnvIInv'
<1> DEFINE o == ensure_initialized(owned)
<1>1. SetOwned(o) /\ UNCHANGED <<putenv_aliases, borrowed, bound>>
  BY DEF PutenvInvalid
<1>2. /\ Made(o)
      /\ \A n \in EnvNames : Tells(o.entries, n, bound[n]) /\ Lends(o.entries, n, borrowed[n])
  BY EnsureFacts
<1> HIDE DEF o
<1>3. /\ AliasesTell(putenv_aliases', bound')
      /\ borrowed' = [n \in EnvNames |-> borrowed'[n]]
      /\ bound' = [n \in EnvNames |-> bound'[n]]
  BY <1>1 DEF EnvIInv, EnvTypeOK
<1> QED
  BY <1>1, <1>2, <1>3, BoundKinds, CallEstablishes

LEMMA GetenvStep == ASSUME EnvIInv, NEW name \in EnvNames, getenv(name) PROVE EnvIInv'
<1> DEFINE al == putenv_aliases
           r == GetenvResult(name)
           o == OwnedForLookup(name)
<1>1. /\ IF AliasFound(al, name) THEN UNCHANGED owned_vars ELSE SetOwned(o)
      /\ putenv_aliases' = LookupAliases(al, name)
      /\ borrowed' = [borrowed EXCEPT ![name] = IF r.kind = "string" THEN r.at ELSE NotBorrowed]
      /\ Binds([n \in {name} |-> IF r.kind = "null" THEN Unset ELSE bound[n]])
      /\ UNCHANGED <<startup_vector, buffer>>
  BY DEF getenv
<1>2. /\ borrowed = [n \in EnvNames |-> borrowed[n]] /\ AliasesTell(al, bound)
      /\ startup_vector \in StartupVectors /\ IsList(entries) /\ buffer \in [Buffers -> Texts]
  BY DEF EnvIInv, EnvTypeOK
<1>3. /\ borrowed' = [n \in EnvNames |-> borrowed'[n]]
      /\ \A n \in EnvNames : borrowed'[n] = IF n # name THEN borrowed[n]
                                ELSE IF r.kind = "string" THEN r.at ELSE NotBorrowed
  BY <1>1, <1>2
<1>4. /\ bound' = [n \in EnvNames |-> bound'[n]]
      /\ \A n \in EnvNames : bound'[n] = IF n = name /\ r.kind = "null" THEN Unset ELSE bound[n]
  BY <1>1, BindsFacts
<1>5. /\ ~Stale(al, name) => LookupAliases(al, name) = Kept(al, DOMAIN al)
      /\ Stale(al, name) => LookupAliases(al, name) = Kept(al, {i \in DOMAIN al : al[i].name # name})
      /\ bound[name].kind = "alias" <=> \E i \in DOMAIN al : al[i].name = name
      /\ \A n \in EnvNames : bound[n].kind = "alias" => \E i \in DOMAIN al : al[i].name = n
  BY <1>2, LookupFacts DEF AliasesTell
<1>6. CASE AliasFound(al, name)
  <2>1. r.kind = "alias"
    BY <1>6 DEF GetenvResult
  <2>2. /\ initialized' = initialized /\ entries' = entries /\ environ' = environ
    BY <1>1, <1>6 DEF owned_vars
  <2> HIDE DEF r, o
  <2>3. /\ \A n \in EnvNames : bound'[n] = bound[n]
        /\ \A n \in EnvNames : borrowed'[n] = IF n # name THEN borrowed[n] ELSE NotBorrowed
    BY <1>3, <1>4, <2>1
  <2>4. putenv_aliases' = Kept(al, DOMAIN al)
    BY <1>1, <1>5, <1>6 DEF Stale
  <2>5. \A i \in DOMAIN al : al[i].name \in EnvNames
    BY <1>2 DEF AliasesTell
  <2>6. AliasesTell(putenv_aliases', bound')
    BY <1>2, <1>5, <2>3, <2>4, <2>5, AliasesKept
  <2>7. initialized
    BY <1>6 DEF EnvIInv, HostTells, AliasFound, ValidAliases
  <2>8. OwnedTells'
    BY <2>2, <2>3, <2>7 DEF EnvIInv, OwnedTells, Lends
  <2>9. HostTells'
    BY <2>2, <2>7 DEF HostTells
  <2>10. EnvTypeOK'
    BY <1>1, <1>2, <1>3, <1>4, <2>2, <2>3, BoundKinds DEF EnvTypeOK
  <2> QED
    BY <2>6, <2>8, <2>9, <2>10 DEF EnvIInv
<1>7. CASE ~AliasFound(al, name)
  <2> DEFINE Found ==
        \/ r.kind = "string" /\ bound[name].kind = "value" /\ r.value = bound[name].value
        \/ r.kind = "null" /\ bound[name].kind # "value"
             HostLooked ==
        /\ o = owned /\ ~initialized /\ environ = "startup" /\ ~Stale(al, name)
        /\ r.kind = "string" => r.at = HostStrings
        /\ r.kind = "null" => Lacks(CopyEntries(startup_vector), name)
             OwnLooked ==
        /\ Made(o)
        /\ \A m \in EnvNames : m # name => /\ Tells(o.entries, m, bound[m])
                                          /\ Lends(o.entries, m, borrowed[m])
        /\ r.kind = "string" => Holds(o.entries, name, r.at) /\ Tells(o.entries, name, bound[name])
        /\ r.kind = "null" => Lacks(o.entries, name)
  <2>1. Found /\ (HostLooked \/ OwnLooked)
    BY <1>7, GetenvFacts
  <2>2. SetOwned(o)
    BY <1>1, <1>7
  <2> HIDE DEF r, o
  <2>3. bound'[name].kind # "alias" /\ \A n \in EnvNames : n # name => bound'[n] = bound[n]
    BY <1>4, <2>1, Kinds
  <2>4. AliasesTell(putenv_aliases', bound')
    <3>1. CASE Stale(al, name)
      <4> DEFINE I == {i \in DOMAIN al : al[i].name # name}
      <4>1. \A i \in I : bound'[al[i].name] = bound[al[i].name]
        BY <1>2, <2>3 DEF AliasesTell
      <4>2. \A n \in EnvNames : bound'[n].kind = "alias" => \E i \in I : al[i].name = n
        <5> SUFFICES ASSUME NEW n \in EnvNames, bound'[n].kind = "alias"
                     PROVE  \E i \in I : al[i].name = n
          OBVIOUS
        <5>1. n # name /\ bound[n].kind = "alias"
          BY <2>3
        <5>2. PICK i \in DOMAIN al : al[i].name = n
          BY <1>5, <5>1
        <5> QED
          BY <5>1, <5>2
      <4>3. putenv_aliases' = Kept(al, I) /\ I \subseteq DOMAIN al
        BY <1>1, <1>5, <3>1
      <4> HIDE DEF I
      <4> QED
        BY <1>2, <4>1, <4>2, <4>3, AliasesKept
    <3>2. CASE ~Stale(al, name)
      <4>1. \A i \in DOMAIN al : al[i].name # name /\ al[i].name \in EnvNames
        BY <1>2, <1>7, <3>2 DEF Stale, AliasesTell
      <4>2. \A i \in DOMAIN al : bound'[al[i].name] = bound[al[i].name]
        BY <2>3, <4>1
      <4>3. \A n \in EnvNames : bound'[n].kind = "alias" => \E i \in DOMAIN al : al[i].name = n
        BY <1>5, <2>3
      <4>4. putenv_aliases' = Kept(al, DOMAIN al)
        BY <1>1, <1>5, <3>2
      <4> QED
        BY <1>2, <4>2, <4>3, <4>4, AliasesKept
    <3> QED
      BY <3>1, <3>2
  <2>5. CASE HostLooked
    <3>1. /\ (initialized' <=> initialized) /\ entries' = entries /\ environ' = environ
      BY <2>2, <2>5 DEF SetOwned, owned
    <3>2. /\ entries = <<>> /\ al = <<>>
          /\ \A n \in EnvNames : borrowed[n] \in {NotBorrowed, HostStrings}
          /\ \A n \in EnvNames : Tells(CopyEntries(startup_vector), n, bound[n])
      BY <2>5 DEF EnvIInv, HostTells
    <3>3. putenv_aliases' = <<>>
      <4>1. Kept(<<>>, {}) = <<>>
        <5>1. Cardinality({}) = 0 /\ IsList(<<>>) /\ DOMAIN <<>> = {}
          BY FS_EmptySet DEF IsList
        <5>2. IsList(Kept(<<>>, {})) /\ Len(Kept(<<>>, {})) = 0
          BY <5>1, KeptFacts
        <5> QED
          BY <5>2, EmptySeq DEF IsList
      <4> QED
        BY <1>1, <1>5, <2>5, <3>2, <4>1
    <3>4. \A n \in EnvNames : borrowed'[n] \in {NotBorrowed, HostStrings}
      BY <1>3, <2>1, <2>5, <3>2
    <3>5. \A n \in EnvNames : Tells(CopyEntries(startup_vector), n, bound'[n])
      <4> SUFFICES ASSUME NEW n \in EnvNames PROVE Tells(CopyEntries(startup_vector), n, bound'[n])
        OBVIOUS
      <4>1. CASE n = name /\ r.kind = "null"
        BY <1>4, <2>5, <4>1, Kinds DEF Tells
      <4>2. CASE ~(n = name /\ r.kind = "null")
        BY <1>4, <3>2, <4>2
      <4> QED
        BY <4>1, <4>2
    <3>6. HostTells'
      BY <1>1, <2>5, <3>1, <3>2, <3>3, <3>4, <3>5 DEF HostTells
    <3>7. OwnedTells'
      BY <2>5, <3>1 DEF OwnedTells
    <3>8. \A n \in EnvNames : bound'[n].kind \in {"unset", "value", "alias"}
      BY <1>4, BoundKinds, Kinds
    <3>9. EnvTypeOK'
      BY <1>1, <1>2, <1>3, <1>4, <3>1, <3>8 DEF EnvTypeOK
    <3> QED
      BY <2>4, <3>6, <3>7, <3>9 DEF EnvIInv
  <2>6. CASE OwnLooked
    <3>1. ASSUME NEW n \in EnvNames
          PROVE  /\ bound'[n].kind \in {"unset", "value", "alias"}
                 /\ Tells(o.entries, n, bound'[n]) /\ Lends(o.entries, n, borrowed'[n])
      <4>1. CASE n # name
        BY <1>3, <1>4, <2>6, <4>1, BoundKinds
      <4>2. CASE n = name /\ r.kind = "null"
        BY <1>3, <1>4, <2>6, <4>2, Kinds DEF Tells, Lends
      <4>3. CASE n = name /\ r.kind = "string"
        BY <1>3, <1>4, <2>6, <4>3, BoundKinds DEF Lends
      <4> QED
        BY <2>1, <4>1, <4>2, <4>3
    <3> HIDE DEF OwnLooked
    <3> QED
      BY <1>1, <1>3, <1>4, <2>2, <2>4, <2>6, <3>1, CallEstablishes DEF OwnLooked
  <2> QED
    BY <2>1, <2>5, <2>6
<1> QED
  BY <1>6, <1>7

(* setenv without overwrite looks a name up and drops its stale aliases.   *)
LEMMA LookupDropsStale ==
  ASSUME EnvIInv, NEW name \in EnvNames, ~AliasFound(putenv_aliases, name),
         NEW new, new[name] = Unset, \A n \in EnvNames : n # name => new[n] = bound[n]
  PROVE  AliasesTell(LookupAliases(putenv_aliases, name), new)
<1> DEFINE al == putenv_aliases
           I == IF Stale(al, name) THEN {i \in DOMAIN al : al[i].name # name} ELSE DOMAIN al
<1>1. AliasesTell(al, bound)
  BY DEF EnvIInv
<1>2. LookupAliases(al, name) = Kept(al, I) /\ I \subseteq DOMAIN al
  BY LookupFacts
<1>3. \A i \in DOMAIN al : i \in I <=> al[i].name # name
  BY DEF Stale
<1> HIDE DEF I
<1>4. \A i \in I : new[al[i].name] = bound[al[i].name]
  BY <1>1, <1>2, <1>3 DEF AliasesTell
<1>5. ASSUME NEW n \in EnvNames, new[n].kind = "alias" PROVE \E i \in I : al[i].name = n
  <2>1. n # name /\ bound[n].kind = "alias"
    BY <1>5, Kinds
  <2>2. PICK i \in DOMAIN al : al[i].name = n
    BY <1>1, <2>1 DEF AliasesTell
  <2> QED
    BY <1>3, <2>1, <2>2
<1> QED
  BY <1>1, <1>2, <1>4, <1>5, AliasesKept

LEMMA SetenvStep ==
  ASSUME EnvIInv, NEW name \in EnvNames, NEW value \in EnvValues, NEW overwrite \in BOOLEAN,
         setenv(name, value, overwrite)
  PROVE  EnvIInv'
<1> DEFINE al == putenv_aliases
           start == ensure_initialized(owned)
           looked == IF overwrite THEN start ELSE LookupOwned(start, al, name)
           aliases == IF overwrite THEN al ELSE LookupAliases(al, name)
           after == set_name_value(looked, name, value)
           exists == ~overwrite /\ SetenvExists(start, name)
<1>1. /\ IF exists
         THEN /\ SetOwned(looked) /\ putenv_aliases' = aliases
              /\ UNCHANGED <<borrowed, bound>>
         ELSE /\ SetOwned(after) /\ putenv_aliases' = WithoutName(aliases, name)
              /\ Returned({name}) /\ Binds([n \in {name} |-> Value(value)])
      /\ UNCHANGED <<startup_vector, buffer>>
  BY DEF setenv
<1>2. /\ Made(start)
      /\ \A n \in EnvNames : /\ Tells(start.entries, n, bound[n])
                             /\ Lends(start.entries, n, borrowed[n])
  BY EnsureFacts
<1>3. /\ AliasesTell(al, bound)
      /\ borrowed = [n \in EnvNames |-> borrowed[n]] /\ bound = [n \in EnvNames |-> bound[n]]
  BY DEF EnvIInv, EnvTypeOK
<1> DEFINE dropped == LookupOwned(start, al, name)
<1>4. /\ Made(dropped)
      /\ Stale(al, name) => Lacks(dropped.entries, name)
      /\ ~Stale(al, name) => dropped = start
      /\ \A m : m # name => /\ Agree(start.entries, dropped.entries, m)
                            /\ Keeps(start.entries, dropped.entries, m)
  BY <1>2, LookupOwnedFacts
<1> HIDE DEF start
<1>5. CASE exists
  <2>1. ~Stale(al, name)
    <3>1. CASE AliasFound(al, name)
      BY <3>1 DEF Stale
    <3>2. CASE contains_name(dropped, name)
      <4>1. find_name_index(dropped, name) # 0 /\ IsList(dropped.entries)
        BY <1>4, <3>2 DEF contains_name, Made
      <4>2. ~Lacks(dropped.entries, name)
        BY <4>1, IndexFacts
      <4> QED
        BY <1>4, <4>2
    <3> QED
      BY <1>5, <3>1, <3>2 DEF SetenvExists
  <2>2. looked = start /\ aliases = Kept(al, DOMAIN al)
    BY <1>4, <1>5, <2>1, LookupFacts
  <2>3. \A n \in EnvNames : bound[n].kind = "alias" => \E i \in DOMAIN al : al[i].name = n
    BY <1>3 DEF AliasesTell
  <2>4. AliasesTell(Kept(al, DOMAIN al), bound)
    BY <1>3, <2>3, AliasesKept
  <2>5. SetOwned(start) /\ putenv_aliases' = Kept(al, DOMAIN al) /\ UNCHANGED <<borrowed, bound>>
    BY <1>1, <1>5, <2>2
  <2>6. AliasesTell(putenv_aliases', bound')
    BY <2>4, <2>5
  <2> QED
    BY <1>1, <1>2, <1>3, <2>5, <2>6, BoundKinds, CallEstablishes
<1>6. CASE ~exists
  <2>1. /\ SetOwned(after) /\ putenv_aliases' = WithoutName(aliases, name)
        /\ Returned({name}) /\ Binds([n \in {name} |-> Value(value)])
    BY <1>1, <1>6
  <2>2. /\ Made(looked)
        /\ \A m : m # name => /\ Agree(start.entries, looked.entries, m)
                              /\ Keeps(start.entries, looked.entries, m)
    BY <1>2, <1>4 DEF Agree, Keeps
  <2> HIDE DEF looked, dropped
  <2>3. /\ Made(after) /\ Begins(after.entries, name, value)
        /\ \A m : m # name => /\ Agree(looked.entries, after.entries, m)
                              /\ Keeps(looked.entries, after.entries, m)
    BY <2>2, SetFacts
  <2> HIDE DEF after
  <2>4. /\ borrowed' = [n \in EnvNames |-> borrowed'[n]]
        /\ \A n \in EnvNames : borrowed'[n] = IF n = name THEN NotBorrowed ELSE borrowed[n]
    BY <2>1, ReturnedFacts
  <2>5. /\ bound' = [n \in EnvNames |-> bound'[n]]
        /\ \A n \in EnvNames : bound'[n] = IF n = name THEN Value(value) ELSE bound[n]
    BY <2>1, BindsFacts
  <2>6. AliasesTell(putenv_aliases', bound')
    <3> DEFINE w == IF overwrite THEN bound ELSE [bound EXCEPT ![name] = Unset]
    <3>1. \A n \in EnvNames : n # name => w[n] = bound[n]
      BY <1>3
    <3>2. AliasesTell(aliases, w)
      <4>1. CASE overwrite
        BY <1>3, <4>1
      <4>2. CASE ~overwrite
        <5>1. ~AliasFound(al, name)
          BY <1>6, <4>2 DEF SetenvExists
        <5>2. w[name] = Unset
          BY <1>3, <4>2
        <5> HIDE DEF w
        <5> QED
          BY <3>1, <4>2, <5>1, <5>2, LookupDropsStale
      <4> QED
        BY <4>1, <4>2
    <3> HIDE DEF w, aliases
    <3>3. \A m \in EnvNames : m # name => bound'[m] = w[m]
      BY <2>5, <3>1
    <3>4. bound'[name].kind # "alias"
      BY <2>5, Kinds
    <3> QED
      BY <2>1, <3>2, <3>3, <3>4, WithoutAlias
  <2>7. ASSUME NEW n \in EnvNames
        PROVE  /\ bound'[n].kind \in {"unset", "value", "alias"}
               /\ Tells(after.entries, n, bound'[n]) /\ Lends(after.entries, n, borrowed'[n])
    <3>1. CASE n = name
      BY <2>3, <2>4, <2>5, <3>1, Kinds DEF Tells, Lends
    <3>2. CASE n # name
      <4>1. Tells(looked.entries, n, bound[n]) /\ Lends(looked.entries, n, borrowed[n])
        BY <1>2, <2>2, <3>2, Agreed, Lent
      <4>2. Tells(after.entries, n, bound[n]) /\ Lends(after.entries, n, borrowed[n])
        BY <2>3, <3>2, <4>1, Agreed, Lent
      <4> QED
        BY <2>4, <2>5, <3>2, <4>2, BoundKinds
    <3> QED
      BY <3>1, <3>2
  <2> QED
    BY <1>1, <2>1, <2>3, <2>4, <2>5, <2>6, <2>7, CallEstablishes
<1> QED
  BY <1>5, <1>6

(* The names of a buffer's aliases are those that the calls bound to it.    *)
LEMMA AliasNames ==
  ASSUME EnvIInv, NEW b \in Buffers
  PROVE  BoundTo(b) = {a.name : a \in {x \in Range(putenv_aliases) : x.buffer = b}}
<1> DEFINE al == putenv_aliases
<1>1. AliasesTell(al, bound)
  BY DEF EnvIInv
<1>2. Range(al) = {al[i] : i \in DOMAIN al}
  BY DEF Range
<1>3. ASSUME NEW n \in BoundTo(b) PROVE \E a \in Range(al) : a.buffer = b /\ a.name = n
  <2>1. n \in EnvNames /\ bound[n] = AliasOf(b)
    BY <1>3 DEF BoundTo
  <2>2. PICK i \in DOMAIN al : al[i].name = n
    BY <1>1, <2>1, Kinds DEF AliasesTell
  <2>3. AliasOf(al[i].buffer) = AliasOf(b)
    BY <1>1, <2>1, <2>2 DEF AliasesTell
  <2>4. al[i].buffer = b
    BY <2>3, Kinds
  <2> QED
    BY <1>2, <2>2, <2>4
<1>4. ASSUME NEW a \in Range(al), a.buffer = b PROVE a.name \in BoundTo(b)
  <2>1. PICK i \in DOMAIN al : a = al[i]
    BY <1>2
  <2> QED
    BY <1>1, <1>4, <2>1 DEF AliasesTell, BoundTo
<1> QED
  BY <1>3, <1>4

LEMMA PutenvSetStep ==
  ASSUME EnvIInv, NEW b \in Buffers, PutenvSet(b), UNCHANGED <<startup_vector, buffer>>
  PROVE  EnvIInv'
<1> DEFINE al == putenv_aliases
           text == buffer[b]
           name == text.name
           renamed == RenamedNames(al, name, b)
           rebound == RebindAliases(al, name, b)
           start == ensure_initialized(owned)
           set == set_name_value(start, name, text.value)
           after == DropRenamed(set, rebound, renamed)
<1>1. /\ text.has_equals /\ name # ""
      /\ SetOwned(after) /\ putenv_aliases' = PruneAliases(rebound, renamed)
      /\ Returned({name} \cup BoundTo(b))
      /\ Binds([n \in {name} \cup BoundTo(b) |-> IF n = name THEN AliasOf(b) ELSE Unset])
  BY DEF PutenvSet
<1>2. /\ Made(start)
      /\ \A n \in EnvNames : /\ Tells(start.entries, n, bound[n])
                             /\ Lends(start.entries, n, borrowed[n])
  BY EnsureFacts
<1>3. AliasesTell(al, bound) /\ IsList(al)
  BY DEF EnvIInv, AliasesTell
<1>4. name \in EnvNames
  <2>1. text \in Texts
    BY DEF EnvIInv, EnvTypeOK
  <2> QED
    BY <1>1, <2>1 DEF Texts
<1>5. renamed = BoundTo(b) \ {name}
  BY AliasNames DEF RenamedNames
<1>6. /\ Made(set)
      /\ \A n : n # name => /\ Agree(start.entries, set.entries, n)
                            /\ Keeps(start.entries, set.entries, n)
  BY <1>2, SetFacts
<1>7. /\ borrowed' = [n \in EnvNames |-> borrowed'[n]]
      /\ \A n \in EnvNames : borrowed'[n] = IF n \in {name} \cup BoundTo(b) THEN NotBorrowed
                                                                          ELSE borrowed[n]
  BY <1>1, ReturnedFacts
<1>8. /\ bound' = [n \in EnvNames |-> bound'[n]]
      /\ \A n \in EnvNames : bound'[n] = IF n = name THEN AliasOf(b)
                                          ELSE IF n \in BoundTo(b) THEN Unset ELSE bound[n]
  <2> DEFINE S == {name} \cup BoundTo(b)
             new == [n \in S |-> IF n = name THEN AliasOf(b) ELSE Unset]
  <2>1. Binds(new)
    BY <1>1
  <2>2. DOMAIN new = S /\ \A n \in S : new[n] = IF n = name THEN AliasOf(b) ELSE Unset
    OBVIOUS
  <2>3. \A n : n \in S <=> (n = name \/ n \in BoundTo(b))
    OBVIOUS
  <2> HIDE DEF new, S, name
  <2> QED
    BY <2>1, <2>2, <2>3, BindsFacts
<1> HIDE DEF name, renamed, start, set
<1>9. AliasesTell(rebound, bound')
  <2> DEFINE I == {i \in DOMAIN al : al[i].name # name /\ al[i].buffer # b}
             w == [n \in EnvNames |-> IF n \in {name} \cup BoundTo(b) THEN Unset ELSE bound[n]]
  <2>1. rebound = Append(Kept(al, I), [name |-> name, buffer |-> b]) /\ I \subseteq DOMAIN al
    BY DEF RebindAliases
  <2>2. ASSUME NEW i \in DOMAIN al
        PROVE  al[i].name \in EnvNames /\ (al[i].name \in BoundTo(b) <=> al[i].buffer = b)
    <3>1. al[i].name \in EnvNames /\ bound[al[i].name] = AliasOf(al[i].buffer)
      BY <1>3 DEF AliasesTell
    <3> QED
      BY <3>1, Kinds DEF BoundTo
  <2>3. \A i \in I : w[al[i].name] = bound[al[i].name]
    BY <2>2
  <2>4. ASSUME NEW n \in EnvNames, w[n].kind = "alias" PROVE \E i \in I : al[i].name = n
    <3>1. n # name /\ n \notin BoundTo(b) /\ bound[n].kind = "alias"
      BY <2>4, Kinds
    <3>2. PICK i \in DOMAIN al : al[i].name = n
      BY <1>3, <3>1 DEF AliasesTell
    <3> QED
      BY <2>2, <3>1, <3>2
  <2>5. Lacks(Kept(al, I), name)
    <3>1. \A i \in I : al[i].name # name
      OBVIOUS
    <3> HIDE DEF I
    <3>2. \A j \in DOMAIN Kept(al, I) : \E i \in I : Kept(al, I)[j] = al[i]
      BY <1>3, <2>1, KeptElements
    <3> QED
      BY <3>1, <3>2 DEF Lacks
  <2>6. bound'[name] = AliasOf(b) /\ \A m \in EnvNames : m # name => bound'[m] = w[m]
    BY <1>4, <1>8
  <2> HIDE DEF I, w
  <2>7. AliasesTell(Kept(al, I), w)
    BY <1>3, <2>1, <2>3, <2>4, AliasesKept
  <2> QED
    BY <1>4, <2>1, <2>5, <2>6, <2>7, AliasAppended
<1> HIDE DEF rebound
<1>10. \A i \in DOMAIN rebound : rebound[i].name \notin renamed
  <2> SUFFICES ASSUME NEW i \in DOMAIN rebound, rebound[i].name \in renamed PROVE FALSE
    OBVIOUS
  <2>1. rebound[i].name \in EnvNames /\ bound'[rebound[i].name] = AliasOf(rebound[i].buffer)
    BY <1>9 DEF AliasesTell
  <2>2. bound'[rebound[i].name] = Unset
    BY <1>5, <1>8, <2>1
  <2> QED
    BY <2>1, <2>2, Kinds
<1>11. /\ PruneAliases(rebound, renamed) = Kept(rebound, DOMAIN rebound)
       /\ \A n \in renamed : ~AliasFound(rebound, n)
  BY <1>10, NothingToPrune
<1>12. AliasesTell(putenv_aliases', bound')
  <2>1. \A n \in EnvNames : bound'[n].kind = "alias" => \E i \in DOMAIN rebound : rebound[i].name = n
    BY <1>9 DEF AliasesTell
  <2>2. AliasesTell(Kept(rebound, DOMAIN rebound), bound')
    BY <1>9, <2>1, AliasesKept
  <2> QED
    BY <1>1, <1>11, <2>2
<1>13. after = RemoveEach(set, renamed)
  <2>1. {n \in renamed : ~AliasFound(rebound, n)} = renamed
    BY <1>11
  <2> QED
    BY <1>6, <2>1, RemoveNamesFacts DEF DropRenamed
<1>14. /\ Made(after) /\ \A n \in renamed : Lacks(after.entries, n)
       /\ \A n : n \notin renamed => /\ Agree(set.entries, after.entries, n)
                                    /\ Keeps(set.entries, after.entries, n)
  BY <1>6, <1>13, RemoveEachFacts
<1> HIDE DEF after
<1>15. ASSUME NEW n \in EnvNames
       PROVE  /\ bound'[n].kind \in {"unset", "value", "alias"}
              /\ Tells(after.entries, n, bound'[n]) /\ Lends(after.entries, n, borrowed'[n])
  <2>1. CASE n = name
    BY <1>7, <1>8, <2>1, Kinds DEF Tells, Lends
  <2>2. CASE n \in renamed
    BY <1>5, <1>7, <1>8, <1>14, <2>2, Kinds DEF Tells, Lends
  <2>3. CASE n # name /\ n \notin renamed
    <3>1. bound'[n] = bound[n] /\ borrowed'[n] = borrowed[n]
      BY <1>5, <1>7, <1>8, <2>3
    <3>2. Tells(set.entries, n, bound[n]) /\ Lends(set.entries, n, borrowed[n])
      BY <1>2, <1>6, <2>3, Agreed, Lent
    <3>3. Tells(after.entries, n, bound[n]) /\ Lends(after.entries, n, borrowed[n])
      BY <1>14, <2>3, <3>2, Agreed, Lent
    <3> QED
      BY <3>1, <3>3, BoundKinds
  <2> QED
    BY <2>1, <2>2, <2>3
<1> QED
  BY <1>1, <1>7, <1>8, <1>12, <1>14, <1>15, CallEstablishes

LEMMA PutenvRemoveStep ==
  ASSUME EnvIInv, NEW b \in Buffers, PutenvRemove(b), UNCHANGED <<startup_vector, buffer>>
  PROVE  EnvIInv'
<1> DEFINE al == putenv_aliases
           text == buffer[b]
           name == text.name
           I == {i \in DOMAIN al : al[i].name # name /\ al[i].buffer # b}
           kept == Kept(al, I)
           removed == {a.name : a \in {x \in Range(al) : x.name = name \/ x.buffer = b}}
           start == ensure_initialized(owned)
           first == RemoveEach(start, {name})
           after == DropRenamed(first, kept, removed)
<1>1. /\ ~text.has_equals /\ name # ""
      /\ SetOwned(after) /\ putenv_aliases' = PruneAliases(kept, removed)
      /\ Returned({name} \cup BoundTo(b))
      /\ Binds([n \in {name} \cup BoundTo(b) |-> Unset])
  BY DEF PutenvRemove, remove_name
<1>2. /\ Made(start)
      /\ \A n \in EnvNames : /\ Tells(start.entries, n, bound[n])
                             /\ Lends(start.entries, n, borrowed[n])
  BY EnsureFacts
<1>3. AliasesTell(al, bound) /\ IsList(al) /\ I \subseteq DOMAIN al
  BY DEF EnvIInv, AliasesTell
<1>4. removed \subseteq {name} \cup BoundTo(b) /\ BoundTo(b) \subseteq removed
  BY AliasNames
<1>5. /\ Made(first) /\ Lacks(first.entries, name)
      /\ \A n : n # name => /\ Agree(start.entries, first.entries, n)
                            /\ Keeps(start.entries, first.entries, n)
  BY <1>2, RemoveEachFacts
<1>6. /\ borrowed' = [n \in EnvNames |-> borrowed'[n]]
      /\ \A n \in EnvNames : borrowed'[n] = IF n \in {name} \cup BoundTo(b) THEN NotBorrowed
                                                                          ELSE borrowed[n]
  BY <1>1, ReturnedFacts
<1>7. /\ bound' = [n \in EnvNames |-> bound'[n]]
      /\ \A n \in EnvNames : bound'[n] = IF n \in {name} \cup BoundTo(b) THEN Unset ELSE bound[n]
  <2> DEFINE S == {name} \cup BoundTo(b)
             new == [n \in S |-> Unset]
  <2>1. Binds(new)
    BY <1>1
  <2>2. DOMAIN new = S /\ \A n \in S : new[n] = Unset
    OBVIOUS
  <2> HIDE DEF new, S, name
  <2>3. /\ bound' = [n \in EnvNames |-> bound'[n]]
        /\ \A n \in EnvNames : bound'[n] = IF n \in S THEN Unset ELSE bound[n]
    BY <2>1, <2>2, BindsFacts
  <2> QED
    BY <2>3 DEF S
<1> HIDE DEF name, removed, start, first
<1>8. AliasesTell(kept, bound')
  <2>1. ASSUME NEW i \in DOMAIN al
        PROVE  al[i].name \in EnvNames /\ (al[i].name \in BoundTo(b) <=> al[i].buffer = b)
    <3>1. al[i].name \in EnvNames /\ bound[al[i].name] = AliasOf(al[i].buffer)
      BY <1>3 DEF AliasesTell
    <3> QED
      BY <3>1, Kinds DEF BoundTo
  <2>2. \A i \in I : bound'[al[i].name] = bound[al[i].name]
    BY <1>7, <2>1
  <2>3. ASSUME NEW n \in EnvNames, bound'[n].kind = "alias" PROVE \E i \in I : al[i].name = n
    <3>1. n # name /\ n \notin BoundTo(b) /\ bound[n].kind = "alias"
      BY <1>7, <2>3, Kinds
    <3>2. PICK i \in DOMAIN al : al[i].name = n
      BY <1>3, <3>1 DEF AliasesTell
    <3> QED
      BY <2>1, <3>1, <3>2
  <2> HIDE DEF I
  <2> QED
    BY <1>3, <2>2, <2>3, AliasesKept
<1> HIDE DEF kept
<1>9. \A i \in DOMAIN kept : kept[i].name \notin removed
  <2> SUFFICES ASSUME NEW i \in DOMAIN kept, kept[i].name \in removed PROVE FALSE
    OBVIOUS
  <2>1. kept[i].name \in EnvNames /\ bound'[kept[i].name] = AliasOf(kept[i].buffer)
    BY <1>8 DEF AliasesTell
  <2>2. bound'[kept[i].name] = Unset
    BY <1>4, <1>7, <2>1
  <2> QED
    BY <2>1, <2>2, Kinds
<1>10. /\ PruneAliases(kept, removed) = Kept(kept, DOMAIN kept)
       /\ \A n \in removed : ~AliasFound(kept, n)
  BY <1>9, NothingToPrune
<1>11. AliasesTell(putenv_aliases', bound')
  <2>1. \A n \in EnvNames : bound'[n].kind = "alias" => \E i \in DOMAIN kept : kept[i].name = n
    BY <1>8 DEF AliasesTell
  <2>2. AliasesTell(Kept(kept, DOMAIN kept), bound')
    BY <1>8, <2>1, AliasesKept
  <2> QED
    BY <1>1, <1>10, <2>2
<1>12. after = RemoveEach(first, removed)
  <2>1. {n \in removed : ~AliasFound(kept, n)} = removed
    BY <1>10
  <2> QED
    BY <1>5, <2>1, RemoveNamesFacts DEF DropRenamed
<1>13. /\ Made(after) /\ \A n \in removed : Lacks(after.entries, n)
       /\ \A n : n \notin removed => /\ Agree(first.entries, after.entries, n)
                                    /\ Keeps(first.entries, after.entries, n)
  BY <1>5, <1>12, RemoveEachFacts
<1> HIDE DEF after
<1>14. ASSUME NEW n \in EnvNames
       PROVE  /\ bound'[n].kind \in {"unset", "value", "alias"}
              /\ Tells(after.entries, n, bound'[n]) /\ Lends(after.entries, n, borrowed'[n])
  <2>1. CASE n \in {name} \cup BoundTo(b)
    <3>1. Lacks(after.entries, n)
      BY <1>4, <1>5, <1>13, <2>1 DEF Agree
    <3> QED
      BY <1>6, <1>7, <2>1, <3>1, Kinds DEF Tells, Lends
  <2>2. CASE n \notin {name} \cup BoundTo(b)
    <3>1. n # name /\ n \notin removed /\ bound'[n] = bound[n] /\ borrowed'[n] = borrowed[n]
      BY <1>4, <1>6, <1>7, <2>2
    <3>2. Tells(first.entries, n, bound[n]) /\ Lends(first.entries, n, borrowed[n])
      BY <1>2, <1>5, <3>1, Agreed, Lent
    <3>3. Tells(after.entries, n, bound[n]) /\ Lends(after.entries, n, borrowed[n])
      BY <1>13, <3>1, <3>2, Agreed, Lent
    <3> QED
      BY <3>1, <3>3, BoundKinds
  <2> QED
    BY <2>1, <2>2
<1> QED
  BY <1>1, <1>6, <1>7, <1>11, <1>13, <1>14, CallEstablishes

LEMMA EnvStepPreserves == ASSUME EnvIInv, [EnvNext]_env_vars PROVE EnvIInv'
<1>1. ASSUME NEW name \in EnvNames, getenv(name) PROVE EnvIInv'
  BY <1>1, GetenvStep
<1>2. ASSUME NEW name \in EnvNames, unsetenv(name) PROVE EnvIInv'
  BY <1>2, UnsetenvStep
<1>3. ASSUME NEW name \in EnvNames, NEW value \in EnvValues, NEW overwrite \in BOOLEAN,
             setenv(name, value, overwrite)
      PROVE  EnvIInv'
  BY <1>3, SetenvStep
<1>4. ASSUME NEW b \in Buffers, putenv(b) PROVE EnvIInv'
  BY <1>4, PutenvSetStep, PutenvRemoveStep, PutenvInvalidStep DEF putenv
<1>5. ASSUME NEW b \in Buffers, NEW text \in Texts, RewriteBuffer(b, text) PROVE EnvIInv'
  BY <1>5, RewriteBufferStep
<1>6. ASSUME clearenv PROVE EnvIInv'
  BY <1>6, ClearenvStep
<1>7. ASSUME UNCHANGED env_vars PROVE EnvIInv'
  BY <1>7 DEF env_vars, EnvIInv, EnvTypeOK, HostTells, OwnedTells
<1> QED
  BY <1>1, <1>2, <1>3, <1>4, <1>5, <1>6, <1>7 DEF EnvNext

(* getenv's three places agree with what the calls promise, in every state.*)
THEOREM EnvInductive == EnvSpec => []EnvIInv
<1> QED
  BY EnvInitEstablishes, EnvStepPreserves, PTL DEF EnvSpec

(* getenv answers every name as the calls so far and the buffers say.       *)
THEOREM GetenvCurrent == EnvSpec => []GetenvIsCurrent
<1>1. EnvIInv => GetenvIsCurrent
  BY AnswersAreCurrent
<1> QED
  BY <1>1, EnvInductive, PTL

(* A string that getenv returned stays until its name is given another      *)
(* binding.                                                                *)
THEOREM BorrowedStringsKept == EnvSpec => []BorrowedStringsStay
<1>1. EnvIInv => BorrowedStringsStay
  BY BorrowedStay
<1> QED
  BY <1>1, EnvInductive, PTL

-----------------------------------------------------------------------------
(* Directory streams: where records begin and end                          *)

\* Positive lengths, of records that are in a list.
IsListing(l) == IsList(l) /\ \A i \in DOMAIN l : l[i].reclen \in Nat \ {0}

\* The first k names of a directory.
NamesOf(l, k) == [i \in 1 .. k |-> l[i].name]

\* The stream st is at a record of its buffer, or behind the last one: it was
\* filled with the records from `first' on up to where the descriptor is, k of
\* them were read, and so were all before them. Or it is as after rewinddir.
StreamTells(st, l, offset, seen) ==
  /\ DOMAIN st = {"buffer", "cursor", "filled"}
  /\ \/ st.cursor = 0 /\ st.filled = 0 /\ offset = 0 /\ seen = NamesOf(l, 0)
     \/ \E first \in 0 .. offset : \E k \in 0 .. offset - first :
          /\ st.buffer = SubSeq(l, first + 1, offset)
          /\ st.cursor = Ends(st.buffer)[k] /\ st.filled = Bytes(st.buffer)
          /\ seen = NamesOf(l, first + k)

DirIInv ==
  /\ dir_listing \in Listings
  /\ dir_offset \in 0 .. Len(dir_listing)
  /\ \E k \in 0 .. Len(dir_listing) : dir_seen = NamesOf(dir_listing, k)
  /\ dir_reply = "end" => dir_seen = NamesOf(dir_listing, Len(dir_listing))
  /\ dir_stream # NoStream => StreamTells(dir_stream, dir_listing, dir_offset, dir_seen)

(* A directory is a list of records that take room.                         *)
LEMMA ListingFacts == ASSUME NEW l \in Listings PROVE IsListing(l)
<1>1. l \in Seq(Range(l)) /\ \A i \in DOMAIN l : l[i].reclen \in Nat \ {0}
  BY DirStreamsAssumption
<1>2. Range(l) = {l[i] : i \in DOMAIN l}
  BY DEF Range
<1> QED
  BY <1>1, <1>2 DEF IsListing, IsList

(* Ends is the function its recursive definition describes.                 *)
LEMMA EndsFacts ==
  ASSUME NEW l, IsListing(l)
  PROVE  /\ Ends(l) \in [0 .. Len(l) -> Nat] /\ Ends(l)[0] = 0
         /\ \A i \in 1 .. Len(l) : Ends(l)[i] = Ends(l)[i - 1] + l[i].reclen
<1> DEFINE Is(f, n) == /\ f \in [0 .. n -> Nat] /\ f[0] = 0
                       /\ \A i \in 1 .. n : f[i] = f[i - 1] + l[i].reclen
           Bad == {n \in 0 .. Len(l) : ~ \E f : Is(f, n)}
<1>1. Len(l) \in Nat /\ DOMAIN l = 1 .. Len(l) /\ \A i \in 1 .. Len(l) : l[i].reclen \in Nat
  BY ListFacts DEF IsListing
<1>2. Is([i \in 0 .. 0 |-> 0], 0)
  OBVIOUS
<1>3. ASSUME NEW n \in 0 .. Len(l), n # 0, NEW g, Is(g, n - 1) PROVE \E f : Is(f, n)
  <2> DEFINE f == [i \in 0 .. n |-> IF i = n THEN g[n - 1] + l[n].reclen ELSE g[i]]
  <2>1. n \in 1 .. Len(l) /\ l[n].reclen \in Nat /\ n - 1 \in 0 .. n - 1
    BY <1>1, <1>3
  <2>2. f \in [0 .. n -> Nat] /\ f[0] = 0
    BY <1>1, <1>3, <2>1
  <2>3. ASSUME NEW i \in 1 .. n PROVE f[i] = f[i - 1] + l[i].reclen
    <3>1. CASE i = n
      BY <1>1, <2>1, <3>1
    <3>2. CASE i # n
      <4>1. i \in 1 .. n - 1 /\ i \in 0 .. n /\ i - 1 \in 0 .. n /\ i - 1 # n
        BY <1>1, <2>1, <3>2
      <4>2. g[i] = g[i - 1] + l[i].reclen
        BY <1>3, <4>1
      <4> QED
        BY <3>2, <4>1, <4>2
    <3> QED
      BY <3>1, <3>2
  <2> QED
    BY <2>2, <2>3
<1>4. \E f : Is(f, Len(l))
  <2> SUFFICES ASSUME Bad # {} PROVE FALSE
    BY <1>1
  <2>1. PICK n \in Bad : \A m \in Bad : n <= m
    <3>1. Bad \subseteq Nat
      BY <1>1
    <3> HIDE DEF Bad
    <3> QED
      BY <3>1, LeastNatural
  <2> HIDE DEF Is
  <2>2. n # 0
    BY <1>2, <2>1
  <2>3. n - 1 \in 0 .. Len(l) /\ n - 1 < n
    BY <1>1, <2>1, <2>2
  <2>4. n - 1 \notin Bad
    BY <2>1, <2>3
  <2>5. PICK g : Is(g, n - 1)
    BY <2>3, <2>4
  <2> QED
    BY <1>3, <2>1, <2>2, <2>5
<1>5. PICK f : Is(f, Len(l))
  BY <1>4
<1> DEFINE R(e) == [i \in 0 .. Len(l) |-> IF i = 0 THEN 0 ELSE e[i - 1] + l[i].reclen]
<1>6. f = R(f)
  BY <1>1, <1>5
<1>7. Ends(l) = R(Ends(l))
  BY <1>6 DEF Ends
<1>8. Ends(l) = f
  <2> DEFINE Off == {i \in 0 .. Len(l) : Ends(l)[i] # f[i]}
             e == Ends(l)
  <2> HIDE DEF e
  <2>1. e = R(e)
    BY <1>7 DEF e
  <2>2. SUFFICES ASSUME Off # {} PROVE FALSE
    <3>1. \A i \in 0 .. Len(l) : e[i] = f[i]
      BY <2>2 DEF e
    <3> QED
      BY <1>5, <2>1, <3>1 DEF e
  <2>3. PICK n \in Off : \A m \in Off : n <= m
    <3>1. Off \subseteq Nat
      BY <1>1
    <3> HIDE DEF Off
    <3> QED
      BY <2>2, <3>1, LeastNatural
  <2>4. n \in 0 .. Len(l) /\ e[n] # f[n]
    BY <2>3 DEF e
  <2>5. n # 0
    BY <1>1, <1>5, <2>1, <2>4
  <2>6. n - 1 \in 0 .. Len(l) /\ n - 1 < n
    BY <1>1, <2>4, <2>5
  <2>7. e[n - 1] = f[n - 1]
    BY <2>3, <2>6 DEF e
  <2>8. e[n] = e[n - 1] + l[n].reclen /\ f[n] = f[n - 1] + l[n].reclen
    BY <1>1, <1>6, <2>1, <2>4, <2>5
  <2> QED
    BY <2>4, <2>7, <2>8
<1> QED
  BY <1>5, <1>8

(* A record ends behind every record before it.                            *)
LEMMA EndsIncrease ==
  ASSUME NEW l, IsListing(l), NEW i \in 0 .. Len(l), NEW j \in 0 .. Len(l), i < j
  PROVE  Ends(l)[i] < Ends(l)[j]
<1> DEFINE e == Ends(l)
           Bad == {m \in 0 .. Len(l) : i < m /\ ~(e[i] < e[m])}
<1>1. Len(l) \in Nat /\ DOMAIN l = 1 .. Len(l) /\ \A m \in 1 .. Len(l) : l[m].reclen \in Nat \ {0}
  BY ListFacts DEF IsListing
<1>2. /\ e \in [0 .. Len(l) -> Nat]
      /\ \A m \in 1 .. Len(l) : e[m] = e[m - 1] + l[m].reclen
  BY EndsFacts
<1> HIDE DEF e
<1> SUFFICES ASSUME Bad # {} PROVE FALSE
  BY DEF e
<1>3. PICK n \in Bad : \A m \in Bad : n <= m
  <2>1. Bad \subseteq Nat
    BY <1>1
  <2> HIDE DEF Bad
  <2> QED
    BY <2>1, LeastNatural
<1>4. n \in 1 .. Len(l) /\ n - 1 \in 0 .. Len(l) /\ n - 1 < n /\ n - 1 \notin Bad
  BY <1>1, <1>3
<1>5. e[n - 1] \in Nat /\ e[n] \in Nat /\ e[n] = e[n - 1] + l[n].reclen /\ l[n].reclen \in Nat \ {0}
  BY <1>1, <1>2, <1>4
<1>6. CASE i = n - 1
  BY <1>3, <1>5, <1>6
<1>7. CASE i # n - 1
  <2>1. e[i] < e[n - 1]
    BY <1>1, <1>3, <1>4, <1>7
  <2>2. e[i] \in Nat
    BY <1>2
  <2> QED
    BY <1>3, <1>5, <2>1, <2>2
<1> QED
  BY <1>6, <1>7

(* The record at the cursor is the one behind those that were read.         *)
LEMMA AtCursor ==
  ASSUME NEW st, IsListing(st.buffer), NEW k \in 0 .. Len(st.buffer) - 1,
         st.cursor = Ends(st.buffer)[k]
  PROVE  RecordAt(st) = st.buffer[k + 1]
<1> DEFINE b == st.buffer
           n == CHOOSE i \in 1 .. Len(b) : Ends(b)[i - 1] = st.cursor
<1>1. Len(b) \in Nat
  BY ListFacts DEF IsListing
<1>2. k + 1 \in 1 .. Len(b) /\ Ends(b)[(k + 1) - 1] = st.cursor
  BY <1>1
<1>3. n \in 1 .. Len(b) /\ Ends(b)[n - 1] = st.cursor
  BY <1>2
<1>4. n - 1 \in 0 .. Len(b) /\ k \in 0 .. Len(b)
  BY <1>1, <1>3
<1>5. n - 1 = k
  <2>1. Ends(b) \in [0 .. Len(b) -> Nat]
    BY EndsFacts
  <2>2. ~(n - 1 < k)
    BY <1>3, <1>4, <2>1, EndsIncrease
  <2>3. ~(k < n - 1)
    BY <1>3, <1>4, <2>1, EndsIncrease
  <2> HIDE DEF n
  <2> QED
    BY <1>1, <1>4, <2>2, <2>3
<1>6. RecordAt(st) = b[n]
  BY DEF RecordAt
<1> HIDE DEF n
<1>7. n = k + 1
  BY <1>1, <1>3, <1>5
<1> QED
  BY <1>6, <1>7

(* What getdents64 puts into the buffer.                                    *)
LEMMA BufferFacts ==
  ASSUME NEW l, IsListing(l), NEW last \in 0 .. Len(l), NEW first \in 0 .. last
  PROVE  LET b == SubSeq(l, first + 1, last) IN
         /\ IsListing(b) /\ Len(b) = last - first
         /\ \A i \in 1 .. last - first : b[i] = l[first + i]
<1> DEFINE b == SubSeq(l, first + 1, last)
<1>1. Len(l) \in Nat /\ DOMAIN l = 1 .. Len(l) /\ \A m \in 1 .. Len(l) : l[m].reclen \in Nat \ {0}
  BY ListFacts DEF IsListing
<1>2. b = [i \in 1 .. last - first |-> l[first + i]]
  BY <1>1
<1>3. last - first \in Nat /\ DOMAIN b = 1 .. last - first
  BY <1>1, <1>2
<1>4. \A i \in 1 .. last - first : b[i] = l[first + i] /\ first + i \in 1 .. Len(l)
  BY <1>1, <1>2
<1>5. b = [i \in 1 .. last - first |-> b[i]]
  BY <1>2, <1>4
<1> HIDE DEF b
<1>6. IsList(b) /\ Len(b) = last - first
  BY <1>3, <1>5, ListOf
<1>7. IsListing(b)
  BY <1>1, <1>3, <1>4, <1>6 DEF IsListing
<1> QED
  BY <1>4, <1>6, <1>7 DEF b

-----------------------------------------------------------------------------
(* Directory streams: the calls                                             *)

(* One more record read is one more name.                                   *)
LEMMA NextName ==
  ASSUME NEW l, NEW k \in Nat
  PROVE  Append(NamesOf(l, k), l[k + 1].name) = NamesOf(l, k + 1)
<1> DEFINE s == NamesOf(l, k)
<1>1. DOMAIN s = 1 .. k /\ s = [i \in 1 .. k |-> s[i]]
  BY DEF NamesOf
<1>2. IsList(s) /\ Len(s) = k
  BY <1>1, ListOf
<1>3. Append(s, l[k + 1].name) = [i \in 1 .. k + 1 |-> IF i = k + 1 THEN l[k + 1].name ELSE s[i]]
  BY <1>2
<1>4. \A i \in 1 .. k + 1 : (IF i = k + 1 THEN l[k + 1].name ELSE s[i]) = l[i].name
  BY DEF NamesOf
<1> HIDE DEF s
<1> QED
  BY <1>3, <1>4 DEF s, NamesOf

(* next_entry with records left in the buffer takes the next one, or leaves *)
(* the stream where it is.                                                  *)
LEMMA TakeEntryTells ==
  ASSUME NEW l, IsListing(l), NEW offset \in 0 .. Len(l), NEW first \in 0 .. offset,
         NEW k \in 0 .. offset - first - 1, NEW st,
         DOMAIN st = {"buffer", "cursor", "filled"},
         st.buffer = SubSeq(l, first + 1, offset),
         st.cursor = Ends(st.buffer)[k], st.filled = Bytes(st.buffer),
         dir_seen = NamesOf(l, first + k), TakeEntry(st)
  PROVE  /\ StreamTells(dir_stream', l, offset, dir_seen') /\ dir_reply' # "end"
         /\ \E n \in 0 .. Len(l) : dir_seen' = NamesOf(l, n)
<1> DEFINE b == st.buffer
           record == RecordAt(st)
<1>1. Len(l) \in Nat
  BY ListFacts DEF IsListing
<1>2. IsListing(b) /\ Len(b) = offset - first /\ \A i \in 1 .. offset - first : b[i] = l[first + i]
  BY BufferFacts
<1>3. k \in 0 .. Len(b) - 1 /\ k + 1 \in 1 .. Len(b) /\ first + k \in Nat
  BY <1>1, <1>2
<1>4. record = b[k + 1]
  BY <1>2, <1>3, AtCursor
<1>5. record = l[first + k + 1]
  <2>1. b[k + 1] = l[first + (k + 1)]
    BY <1>2, <1>3
  <2> QED
    BY <1>1, <1>4, <2>1
<1>6. CASE dir_stream' = st /\ dir_reply' = "error" /\ dir_seen' = dir_seen
  <2>1. k \in 0 .. offset - first /\ first + k \in 0 .. Len(l)
    BY <1>1, <1>2, <1>3
  <2> QED
    BY <1>6, <2>1 DEF StreamTells
<1>7. CASE /\ dir_stream' = [st EXCEPT !.cursor = @ + record.reclen]
           /\ dir_reply' = "entry"
           /\ dir_seen' = Append(dir_seen, record.name)
  <2>1. k + 1 \in 0 .. offset - first /\ first + (k + 1) \in 0 .. Len(l)
    BY <1>1, <1>2, <1>3
  <2>2. /\ DOMAIN dir_stream' = {"buffer", "cursor", "filled"}
        /\ dir_stream'.buffer = b /\ dir_stream'.filled = st.filled
        /\ dir_stream'.cursor = st.cursor + record.reclen
    BY <1>7
  <2>3. Ends(b)[k + 1] = Ends(b)[k] + b[k + 1].reclen
    <3>1. Ends(b)[k + 1] = Ends(b)[(k + 1) - 1] + b[k + 1].reclen
      BY <1>2, <1>3, EndsFacts
    <3> QED
      BY <1>3, <3>1
  <2>4. dir_seen' = NamesOf(l, first + (k + 1))
    <3>1. dir_seen' = NamesOf(l, (first + k) + 1)
      BY <1>3, <1>5, <1>7, NextName
    <3> QED
      BY <1>1, <1>3, <3>1
  <2>5. dir_stream'.cursor = Ends(b)[k + 1]
    BY <1>4, <2>2, <2>3
  <2> HIDE DEF b, record
  <2>6. StreamTells(dir_stream', l, offset, dir_seen')
    BY <2>1, <2>2, <2>4, <2>5 DEF StreamTells, b
  <2> QED
    BY <1>7, <2>1, <2>4, <2>6
<1> QED
  BY <1>6, <1>7 DEF TakeEntry

LEMMA ReadBufferedStep == ASSUME DirIInv, ReadBuffered PROVE DirIInv'
<1> DEFINE l == dir_listing
           offset == dir_offset
           st == dir_stream
<1>1. /\ st # NoStream /\ st.cursor < st.filled /\ TakeEntry(st)
      /\ UNCHANGED <<dir_listing, dir_offset>>
  BY DEF ReadBuffered
<1>2. l \in Listings /\ IsListing(l) /\ offset \in 0 .. Len(l) /\ Len(l) \in Nat
  BY ListingFacts, ListFacts DEF DirIInv, IsListing
<1>3. StreamTells(st, l, offset, dir_seen)
  BY <1>1 DEF DirIInv
<1>4. PICK first \in 0 .. offset : \E k \in 0 .. offset - first :
          /\ st.buffer = SubSeq(l, first + 1, offset)
          /\ st.cursor = Ends(st.buffer)[k] /\ st.filled = Bytes(st.buffer)
          /\ dir_seen = NamesOf(l, first + k)
  BY <1>1, <1>3 DEF StreamTells
<1>5. PICK k \in 0 .. offset - first :
          /\ st.buffer = SubSeq(l, first + 1, offset)
          /\ st.cursor = Ends(st.buffer)[k] /\ st.filled = Bytes(st.buffer)
          /\ dir_seen = NamesOf(l, first + k)
  BY <1>4
<1>6. k # offset - first
  <2>1. IsListing(st.buffer) /\ Len(st.buffer) = offset - first
    BY <1>2, <1>5, BufferFacts
  <2>2. Ends(st.buffer) \in [0 .. offset - first -> Nat]
    BY <2>1, EndsFacts
  <2>3. st.filled = Ends(st.buffer)[offset - first]
    BY <1>5, <2>1 DEF Bytes
  <2> QED
    BY <1>1, <1>2, <1>5, <2>2, <2>3
<1>7. k \in 0 .. offset - first - 1
  BY <1>2, <1>6
<1>8. DOMAIN st = {"buffer", "cursor", "filled"}
  BY <1>3 DEF StreamTells
<1>9. /\ StreamTells(dir_stream', l, offset, dir_seen') /\ dir_reply' # "end"
      /\ \E n \in 0 .. Len(l) : dir_seen' = NamesOf(l, n)
  BY <1>1, <1>2, <1>5, <1>7, <1>8, TakeEntryTells
<1> QED
  BY <1>1, <1>2, <1>9 DEF DirIInv

(* With nothing left in the buffer all names up to the descriptor's place   *)
(* were read.                                                               *)
LEMMA Exhausted ==
  ASSUME DirIInv, dir_stream # NoStream, dir_stream.cursor >= dir_stream.filled
  PROVE  dir_seen = NamesOf(dir_listing, dir_offset)
<1> DEFINE l == dir_listing
           offset == dir_offset
           st == dir_stream
<1>1. l \in Listings /\ IsListing(l) /\ offset \in 0 .. Len(l) /\ Len(l) \in Nat
  BY ListingFacts, ListFacts DEF DirIInv, IsListing
<1>2. StreamTells(st, l, offset, dir_seen)
  BY DEF DirIInv
<1>3. ASSUME NEW first \in 0 .. offset, NEW k \in 0 .. offset - first,
             st.buffer = SubSeq(l, first + 1, offset),
             st.cursor = Ends(st.buffer)[k], st.filled = Bytes(st.buffer),
             dir_seen = NamesOf(l, first + k)
      PROVE  dir_seen = NamesOf(l, offset)
  <2>1. IsListing(st.buffer) /\ Len(st.buffer) = offset - first
    BY <1>1, <1>3, BufferFacts
  <2>2. st.filled = Ends(st.buffer)[offset - first]
    BY <1>3, <2>1 DEF Bytes
  <2>3. Ends(st.buffer) \in [0 .. offset - first -> Nat]
    BY <2>1, EndsFacts
  <2>4. k \in 0 .. Len(st.buffer) /\ offset - first \in 0 .. Len(st.buffer)
    BY <1>1, <2>1
  <2>5. ~(k < offset - first)
    <3> SUFFICES ASSUME k < offset - first PROVE FALSE
      OBVIOUS
    <3>1. Ends(st.buffer)[k] < Ends(st.buffer)[offset - first]
      BY <2>1, <2>4, EndsIncrease
    <3>2. Ends(st.buffer)[k] \in Nat /\ Ends(st.buffer)[offset - first] \in Nat
      BY <2>1, <2>3, <2>4
    <3> QED
      BY <1>3, <2>2, <3>1, <3>2
  <2>6. first + k = offset
    BY <1>1, <2>5
  <2> QED
    BY <1>3, <2>6
<1> QED
  BY <1>2, <1>3 DEF StreamTells

LEMMA ReadAfterRefillStep == ASSUME DirIInv, ReadAfterRefill PROVE DirIInv'
<1> DEFINE l == dir_listing
           offset == dir_offset
<1>1. PICK upto \in offset .. Len(l) :
        LET records == SubSeq(l, offset + 1, upto)
            stream == refill(dir_stream, records)
        IN /\ upto = offset => offset = Len(l)
           /\ dir_offset' = upto
           /\ IF records = <<>>
              THEN /\ dir_stream' = stream
                   /\ dir_reply' = "end"
                   /\ dir_seen' = dir_seen
              ELSE TakeEntry(stream)
  BY DEF ReadAfterRefill
<1> DEFINE records == SubSeq(l, offset + 1, upto)
           stream == refill(dir_stream, records)
<1>2. l \in Listings /\ IsListing(l) /\ offset \in 0 .. Len(l) /\ Len(l) \in Nat /\ dir_listing' = l
  BY ListingFacts, ListFacts DEF DirIInv, IsListing, ReadAfterRefill
<1>3. upto \in 0 .. Len(l) /\ offset \in 0 .. upto
  BY <1>2
<1>4. dir_seen = NamesOf(l, offset)
  BY Exhausted DEF ReadAfterRefill
<1>5. IsListing(records) /\ Len(records) = upto - offset
  BY <1>2, <1>3, BufferFacts
<1>6. /\ DOMAIN stream = {"buffer", "cursor", "filled"}
      /\ stream.buffer = records /\ stream.cursor = 0 /\ stream.filled = Bytes(records)
  <2>1. DOMAIN dir_stream = {"buffer", "cursor", "filled"}
    BY DEF DirIInv, StreamTells, ReadAfterRefill
  <2> HIDE DEF records
  <2> QED
    BY <2>1 DEF refill
<1>7. Ends(records)[0] = 0
  BY <1>5, EndsFacts
<1> HIDE DEF records, stream
<1>8. CASE records = <<>>
  <2>1. dir_stream' = stream /\ dir_reply' = "end" /\ dir_seen' = dir_seen /\ dir_offset' = upto
    BY <1>1, <1>8 DEF records, stream
  <2>2. upto = offset
    BY <1>2, <1>3, <1>5, <1>8
  <2>3. offset = Len(l)
    BY <1>1, <2>2
  <2>4. 0 \in 0 .. upto - offset /\ offset \in 0 .. upto /\ offset + 0 = offset
    BY <1>2, <1>3
  <2>5. StreamTells(dir_stream', l, upto, dir_seen')
    BY <1>4, <1>6, <1>7, <2>1, <2>4 DEF StreamTells, records
  <2> QED
    BY <1>2, <1>3, <1>4, <2>1, <2>3, <2>5 DEF DirIInv
<1>9. CASE records # <<>>
  <2>1. TakeEntry(stream) /\ dir_offset' = upto
    BY <1>1, <1>9 DEF records, stream
  <2>2. upto - offset # 0
    <3>1. records = [i \in 1 .. upto - offset |-> records[i]]
      BY <1>5, ListFacts DEF IsListing
    <3>2. ASSUME upto - offset = 0 PROVE records = <<>>
      BY <1>5, <3>1, <3>2
    <3> QED
      BY <1>9, <3>2
  <2>3. 0 \in 0 .. upto - offset - 1 /\ offset + 0 = offset
    BY <1>2, <1>3, <2>2
  <2>4. /\ StreamTells(dir_stream', l, upto, dir_seen') /\ dir_reply' # "end"
        /\ \E n \in 0 .. Len(l) : dir_seen' = NamesOf(l, n)
    BY <1>2, <1>3, <1>4, <1>6, <1>7, <2>1, <2>3, TakeEntryTells DEF records
  <2> QED
    BY <1>2, <1>3, <2>1, <2>4 DEF DirIInv
<1> QED
  BY <1>8, <1>9

LEMMA DirStepPreserves == ASSUME DirIInv, [DirNext]_dir_vars PROVE DirIInv'
<1>1. \A l \in Listings : /\ 0 \in 0 .. Len(l) /\ IsListing(l) /\ NamesOf(l, 0) = <<>>
  BY ListingFacts, ListFacts DEF IsListing, NamesOf
<1>2. CASE OpenDir
  <2>1. dir_listing' \in Listings /\ dir_offset' = 0 /\ dir_seen' = <<>> /\ dir_reply' # "end"
    BY <1>2 DEF OpenDir
  <2>2. dir_stream' # NoStream => dir_stream' = FreshStream
    BY <1>2 DEF OpenDir
  <2>3. dir_stream' # NoStream => StreamTells(dir_stream', dir_listing', dir_offset', dir_seen')
    BY <1>1, <2>1, <2>2 DEF StreamTells, FreshStream
  <2> QED
    BY <1>1, <2>1, <2>3 DEF DirIInv
<1>3. CASE ReadFails \/ NullDir
  <2>1. dir_reply' # "end" /\ UNCHANGED <<dir_listing, dir_offset, dir_stream, dir_seen>>
    BY <1>3 DEF ReadFails, NullDir
  <2> QED
    BY <2>1 DEF DirIInv
<1>4. CASE RewindDir
  <2>1. CASE /\ dir_offset' = 0 /\ dir_seen' = <<>> /\ dir_reply' = "rewound"
             /\ dir_stream' = [dir_stream EXCEPT !.cursor = 0, !.filled = 0]
    <3>1. DOMAIN dir_stream = {"buffer", "cursor", "filled"} /\ dir_listing' = dir_listing
      BY <1>4 DEF RewindDir, DirIInv, StreamTells
    <3>2. /\ DOMAIN dir_stream' = {"buffer", "cursor", "filled"}
          /\ dir_stream'.cursor = 0 /\ dir_stream'.filled = 0
      BY <2>1, <3>1
    <3>3. dir_listing \in Listings
      BY DEF DirIInv
    <3>4. StreamTells(dir_stream', dir_listing', dir_offset', dir_seen')
      BY <1>1, <2>1, <3>1, <3>2, <3>3 DEF StreamTells
    <3> QED
      BY <1>1, <2>1, <3>1, <3>3, <3>4 DEF DirIInv
  <2>2. CASE /\ dir_reply' = "error"
             /\ UNCHANGED <<dir_listing, dir_offset, dir_stream, dir_seen>>
    BY <2>2 DEF DirIInv
  <2> QED
    BY <1>4, <2>1, <2>2 DEF RewindDir
<1>5. CASE CloseDir
  <2>1. /\ dir_stream' = NoStream /\ dir_reply' # "end"
        /\ UNCHANGED <<dir_listing, dir_offset, dir_seen>>
    BY <1>5 DEF CloseDir
  <2> QED
    BY <2>1 DEF DirIInv
<1>6. CASE UNCHANGED dir_vars
  BY <1>6 DEF DirIInv, dir_vars
<1> QED
  BY <1>2, <1>3, <1>4, <1>5, <1>6, ReadBufferedStep, ReadAfterRefillStep DEF DirNext

LEMMA DirInitEstablishes == ASSUME DirInit PROVE DirIInv
<1>1. dir_listing \in Listings /\ 0 \in 0 .. Len(dir_listing) /\ NamesOf(dir_listing, 0) = <<>>
  BY ListingFacts, ListFacts DEF DirInit, IsListing, NamesOf
<1> QED
  BY <1>1 DEF DirInit, DirIInv

(* Names read so far are a prefix, and all of them at the end.              *)
LEMMA NamesInOrder == ASSUME DirIInv PROVE EntriesComeOnceInOrder
<1> DEFINE l == dir_listing
           names == [i \in DOMAIN l |-> l[i].name]
<1>1. IsListing(l) /\ Len(l) \in Nat /\ DOMAIN l = 1 .. Len(l)
  BY ListingFacts, ListFacts DEF DirIInv, IsListing
<1>2. names = NamesOf(l, Len(l))
  BY <1>1 DEF NamesOf
<1>3. PICK k \in 0 .. Len(l) : dir_seen = NamesOf(l, k)
  BY DEF DirIInv
<1>4. /\ Len(names) = Len(l) /\ names = [i \in 1 .. Len(l) |-> l[i].name]
      /\ Len(dir_seen) = k /\ dir_seen = [i \in 1 .. k |-> l[i].name]
  BY <1>1, <1>2, <1>3 DEF NamesOf
<1> HIDE DEF names
<1>5. SubSeq(dir_seen, 1, k) = SubSeq(names, 1, k)
  <2>1. \A i \in 1 .. k : dir_seen[i] = names[i]
    BY <1>1, <1>4
  <2> QED
    BY <1>1, <2>1
<1>6. IsPrefix(dir_seen, names)
  BY <1>1, <1>4, <1>5 DEF IsPrefix
<1>7. dir_reply = "end" => dir_seen = names
  BY <1>2 DEF DirIInv
<1> QED
  BY <1>6, <1>7 DEF EntriesComeOnceInOrder, names

(* readdir gives the names of a directory in order, none twice and none     *)
(* left out, however the kernel cuts it into buffers.                       *)
THEOREM DirectoryRead == DirSpec => []EntriesComeOnceInOrder
<1>1. DirInit => DirIInv
  BY DirInitEstablishes
<1>2. DirIInv /\ [DirNext]_dir_vars => DirIInv'
  BY DirStepPreserves
<1>3. DirIInv => EntriesComeOnceInOrder
  BY NamesInOrder
<1> QED
  BY <1>1, <1>2, <1>3, PTL DEF DirSpec

-----------------------------------------------------------------------------
(* Multibyte conversion: the table                                          *)

Byte == 0 .. 255
LeadOf(s) == expected_len_from_lead_byte(s[1])

\* The bytes begin a character, or are one: what the code's checks amount to.
Fits(s) ==
  /\ Len(s) >= 1 /\ Len(s) <= LeadOf(s)
  /\ \A i \in 2 .. Len(s) : is_continuation_byte(s[i])
  /\ Len(s) >= 2 => ~BadSecond(s[1], s[2])

\* A character is not begun, or not complete.
Begun(s) == s = <<>> \/ (Fits(s) /\ Len(s) < LeadOf(s))

LEMMA LeadFacts ==
  ASSUME NEW b \in Byte
  PROVE  LET n == expected_len_from_lead_byte(b) IN
         /\ n \in 0 .. 4
         /\ n = 0 <=> b \in 128 .. 193 \/ b \in 245 .. 255
         /\ n = 1 <=> b \in 0 .. 127
         /\ n = 2 <=> b \in 194 .. 223
         /\ n = 3 <=> b \in 224 .. 239
         /\ n = 4 <=> b \in 240 .. 244
  BY DEF expected_len_from_lead_byte, Byte

BeginsRow(s, row) == Len(s) <= Len(row) /\ \A i \in DOMAIN s : s[i] \in row[i]

LEMMA InRow ==
  ASSUME NEW s \in Seq(Byte), NEW row, Len(row) \in 0 .. 4
  PROVE  BeginsRow(s, row) <=>
           /\ Len(s) <= Len(row)
           /\ Len(s) >= 1 => s[1] \in row[1]
           /\ Len(s) >= 2 => s[2] \in row[2]
           /\ Len(s) >= 3 => s[3] \in row[3]
           /\ Len(s) >= 4 => s[4] \in row[4]
<1>1. DOMAIN s = 1 .. Len(s) /\ Len(s) \in Nat
  OBVIOUS
<1>2. ASSUME Len(s) <= 4 PROVE \A i \in DOMAIN s : i \in {1, 2, 3, 4}
  BY <1>1, <1>2
<1> QED
  BY <1>1, <1>2 DEF BeginsRow

\* The table's nine rows, by the first byte.
RowOf(b) ==
  LET c == ContinuationBytes
  IN CASE b \in 0 .. 127 -> <<\h00 .. \h7F>>
       [] b \in 194 .. 223 -> <<\hC2 .. \hDF, c>>
       [] b = 224 -> <<{\hE0}, \hA0 .. \hBF, c>>
       [] b \in 225 .. 236 -> <<\hE1 .. \hEC, c, c>>
       [] b = 237 -> <<{\hED}, \h80 .. \h9F, c>>
       [] b \in 238 .. 239 -> <<\hEE .. \hEF, c, c>>
       [] b = 240 -> <<{\hF0}, \h90 .. \hBF, c, c>>
       [] b \in 241 .. 243 -> <<\hF1 .. \hF3, c, c, c>>
       [] b = 244 -> <<{\hF4}, \h80 .. \h8F, c, c>>

(* The row of a first byte has as many places as expected_len_from_lead_byte *)
(* says, and is the only one that begins with it.                           *)
LEMMA RowFacts ==
  ASSUME NEW b \in Byte
  PROVE  LET n == expected_len_from_lead_byte(b) IN
         /\ n # 0 => /\ RowOf(b) \in WellFormedRows /\ Len(RowOf(b)) = n
                     /\ b \in RowOf(b)[1]
                     /\ n >= 2 => \A x \in Byte : x \in RowOf(b)[2] <=>
                                    is_continuation_byte(x) /\ ~BadSecond(b, x)
                     /\ n >= 3 => \A x \in Byte : x \in RowOf(b)[3] <=> is_continuation_byte(x)
                     /\ n >= 4 => \A x \in Byte : x \in RowOf(b)[4] <=> is_continuation_byte(x)
         /\ \A row \in WellFormedRows : b \in row[1] => n # 0 /\ row = RowOf(b)
<1> DEFINE n == expected_len_from_lead_byte(b)
           c == ContinuationBytes
<1>1. CASE b \in 0 .. 127
  <2>1. n = 1 /\ RowOf(b) = <<\h00 .. \h7F>>
    BY <1>1 DEF expected_len_from_lead_byte, RowOf
  <2>2. RowOf(b) \in WellFormedRows /\ Len(RowOf(b)) = 1 /\ b \in RowOf(b)[1]
    BY <1>1, <2>1 DEF WellFormedRows
  <2>3. \A row \in WellFormedRows : b \in row[1] => row = RowOf(b)
    BY <1>1, <2>1 DEF WellFormedRows
  <2> HIDE DEF n
  <2> QED
    BY <2>1, <2>2, <2>3 DEF n
<1>2. CASE b \in 194 .. 223
  <2>1. n = 2 /\ RowOf(b) = <<\hC2 .. \hDF, c>>
    BY <1>2 DEF expected_len_from_lead_byte, RowOf
  <2>2. RowOf(b) \in WellFormedRows /\ Len(RowOf(b)) = 2 /\ b \in RowOf(b)[1]
    BY <1>2, <2>1 DEF WellFormedRows
  <2>3. \A row \in WellFormedRows : b \in row[1] => row = RowOf(b)
    BY <1>2, <2>1 DEF WellFormedRows
  <2>4. \A x \in Byte : x \in RowOf(b)[2] <=> is_continuation_byte(x) /\ ~BadSecond(b, x)
    BY <1>2, <2>1 DEF is_continuation_byte, BadSecond, ContinuationBytes
  <2> HIDE DEF n
  <2> QED
    BY <2>1, <2>2, <2>3, <2>4 DEF n
<1>3. CASE b \in 224 .. 239
  <2>1. n = 3
    BY <1>3 DEF expected_len_from_lead_byte
  <2>2. RowOf(b) = IF b = 224 THEN <<{\hE0}, \hA0 .. \hBF, c>>
                   ELSE IF b = 237 THEN <<{\hED}, \h80 .. \h9F, c>>
                   ELSE IF b < 237 THEN <<\hE1 .. \hEC, c, c>>
                   ELSE <<\hEE .. \hEF, c, c>>
    BY <1>3 DEF RowOf
  <2>3. RowOf(b) \in WellFormedRows /\ Len(RowOf(b)) = 3 /\ b \in RowOf(b)[1]
    BY <1>3, <2>2 DEF WellFormedRows
  <2>4. \A row \in WellFormedRows : b \in row[1] => row = RowOf(b)
    BY <1>3, <2>2 DEF WellFormedRows
  <2>5. \A x \in Byte : x \in RowOf(b)[2] <=> is_continuation_byte(x) /\ ~BadSecond(b, x)
    BY <1>3, <2>2 DEF is_continuation_byte, BadSecond, ContinuationBytes, Byte
  <2>6. \A x \in Byte : x \in RowOf(b)[3] <=> is_continuation_byte(x)
    BY <1>3, <2>2 DEF is_continuation_byte, ContinuationBytes
  <2> HIDE DEF n
  <2> QED
    BY <2>1, <2>3, <2>4, <2>5, <2>6 DEF n
<1>4. CASE b \in 240 .. 244
  <2>1. n = 4
    BY <1>4 DEF expected_len_from_lead_byte
  <2>2. RowOf(b) = IF b = 240 THEN <<{\hF0}, \h90 .. \hBF, c, c>>
                   ELSE IF b = 244 THEN <<{\hF4}, \h80 .. \h8F, c, c>>
                   ELSE <<\hF1 .. \hF3, c, c, c>>
    BY <1>4 DEF RowOf
  <2>3. RowOf(b) \in WellFormedRows /\ Len(RowOf(b)) = 4 /\ b \in RowOf(b)[1]
    BY <1>4, <2>2 DEF WellFormedRows
  <2>4. \A row \in WellFormedRows : b \in row[1] => row = RowOf(b)
    BY <1>4, <2>2 DEF WellFormedRows
  <2>5. \A x \in Byte : x \in RowOf(b)[2] <=> is_continuation_byte(x) /\ ~BadSecond(b, x)
    BY <1>4, <2>2 DEF is_continuation_byte, BadSecond, ContinuationBytes, Byte
  <2>6. /\ \A x \in Byte : x \in RowOf(b)[3] <=> is_continuation_byte(x)
        /\ \A x \in Byte : x \in RowOf(b)[4] <=> is_continuation_byte(x)
    BY <1>4, <2>2 DEF is_continuation_byte, ContinuationBytes
  <2> HIDE DEF n
  <2> QED
    BY <2>1, <2>3, <2>4, <2>5, <2>6 DEF n
<1>5. CASE b \in 128 .. 193 \/ b \in 245 .. 255
  <2>1. n = 0
    BY <1>5, LeadFacts
  <2>2. \A row \in WellFormedRows : b \notin row[1]
    <3> SUFFICES ASSUME NEW row \in WellFormedRows, b \in row[1] PROVE FALSE
      OBVIOUS
    <3>1. row[1] \in {0 .. 127, 194 .. 223, {224}, 225 .. 236, {237}, 238 .. 239, {240},
                      241 .. 243, {244}}
      BY DEF WellFormedRows
    <3> QED
      BY <1>5, <3>1
  <2> QED
    BY <2>1, <2>2
<1> QED
  BY <1>1, <1>2, <1>3, <1>4, <1>5 DEF Byte

(* Bytes fit by the code's checks exactly when a row of the table begins    *)
(* with them.                                                               *)
LEMMA TableFits ==
  ASSUME NEW s \in Seq(Byte)
  PROVE  /\ BeginsWellFormed(s) <=> s = <<>> \/ Fits(s)
         /\ WellFormed(s) <=> Fits(s) /\ Len(s) = LeadOf(s)
<1>1. DOMAIN s = 1 .. Len(s) /\ Len(s) \in Nat
  OBVIOUS
<1>2. BeginsWellFormed(s) <=> \E row \in WellFormedRows : BeginsRow(s, row)
  BY DEF BeginsWellFormed, BeginsRow
<1>3. WellFormed(s) <=> \E row \in WellFormedRows : Len(s) = Len(row) /\ BeginsRow(s, row)
  <2>1. \A row \in WellFormedRows : Len(s) = Len(row) => Len(s) <= Len(row)
    BY <1>1
  <2> QED
    BY <2>1 DEF WellFormed, BeginsRow
<1>4. \A row \in WellFormedRows : Len(row) \in 1 .. 4
  BY DEF WellFormedRows
<1>5. CASE s = <<>>
  <2>1. Len(s) = 0 /\ DOMAIN s = {}
    BY <1>5
  <2>2. <<\h00 .. \h7F>> \in WellFormedRows
    BY DEF WellFormedRows
  <2>3. BeginsRow(s, <<\h00 .. \h7F>>)
    BY <2>1 DEF BeginsRow
  <2>4. BeginsWellFormed(s)
    BY <1>2, <2>2, <2>3
  <2>5. ~WellFormed(s)
    BY <1>3, <1>4, <2>1
  <2>6. ~Fits(s)
    BY <2>1 DEF Fits
  <2> QED
    BY <1>5, <2>4, <2>5, <2>6
<1>6. CASE s # <<>>
  <2> DEFINE b == s[1]
             n == LeadOf(s)
             r == RowOf(b)
  <2>1. Len(s) >= 1 /\ b \in Byte
    BY <1>6
  <2>2. n \in 0 .. 4
    BY <2>1, LeadFacts DEF LeadOf
  <2>3. \A row \in WellFormedRows : BeginsRow(s, row) => n # 0 /\ row = r
    <3> SUFFICES ASSUME NEW row \in WellFormedRows, BeginsRow(s, row) PROVE n # 0 /\ row = r
      OBVIOUS
    <3>1. b \in row[1]
      BY <1>1, <2>1 DEF BeginsRow
    <3> QED
      BY <2>1, <3>1, RowFacts DEF LeadOf
  <2>4. ASSUME n # 0 PROVE r \in WellFormedRows /\ Len(r) = n /\ (BeginsRow(s, r) <=> Fits(s))
    <3>1. /\ r \in WellFormedRows /\ Len(r) = n /\ b \in r[1]
          /\ n >= 2 => \A x \in Byte : x \in r[2] <=> is_continuation_byte(x) /\ ~BadSecond(b, x)
          /\ n >= 3 => \A x \in Byte : x \in r[3] <=> is_continuation_byte(x)
          /\ n >= 4 => \A x \in Byte : x \in r[4] <=> is_continuation_byte(x)
      BY <2>1, <2>4, RowFacts DEF LeadOf
    <3> HIDE DEF r, n
    <3>2. BeginsRow(s, r) <=>
            /\ Len(s) <= n
            /\ Len(s) >= 2 => s[2] \in r[2]
            /\ Len(s) >= 3 => s[3] \in r[3]
            /\ Len(s) >= 4 => s[4] \in r[4]
      BY <2>1, <2>2, <3>1, InRow
    <3>3. \A i \in 1 .. Len(s) : s[i] \in Byte
      BY <1>1
    <3>4. ASSUME Len(s) <= n
          PROVE  (\A i \in 2 .. Len(s) : is_continuation_byte(s[i])) <=>
                   /\ Len(s) >= 2 => is_continuation_byte(s[2])
                   /\ Len(s) >= 3 => is_continuation_byte(s[3])
                   /\ Len(s) >= 4 => is_continuation_byte(s[4])
      <4>1. \A i \in 2 .. Len(s) : i \in {2, 3, 4}
        BY <1>1, <2>2, <3>4
      <4> QED
        BY <1>1, <4>1
    <3>5. Fits(s) <=> /\ Len(s) <= n
                      /\ \A i \in 2 .. Len(s) : is_continuation_byte(s[i])
                      /\ Len(s) >= 2 => ~BadSecond(b, s[2])
      BY <2>1 DEF Fits, n
    <3>6. ASSUME Len(s) <= n PROVE BeginsRow(s, r) <=> Fits(s)
      <4>1. Len(s) >= 2 => (s[2] \in r[2] <=> is_continuation_byte(s[2]) /\ ~BadSecond(b, s[2]))
        BY <1>1, <2>2, <3>1, <3>3, <3>6
      <4>2. Len(s) >= 3 => (s[3] \in r[3] <=> is_continuation_byte(s[3]))
        BY <1>1, <2>2, <3>1, <3>3, <3>6
      <4>3. Len(s) >= 4 => (s[4] \in r[4] <=> is_continuation_byte(s[4]))
        BY <1>1, <2>2, <3>1, <3>3, <3>6
      <4>4. (Len(s) >= 3 => Len(s) >= 2) /\ (Len(s) >= 4 => Len(s) >= 3)
        BY <1>1
      <4> HIDE DEF b
      <4> QED
        BY <3>2, <3>4, <3>5, <3>6, <4>1, <4>2, <4>3, <4>4
    <3> QED
      BY <3>1, <3>2, <3>5, <3>6
  <2>5. n = 0 => ~Fits(s)
    BY <1>1, <2>1 DEF Fits
  <2> HIDE DEF b, n, r
  <2>6. BeginsWellFormed(s) <=> Fits(s)
    BY <1>2, <2>3, <2>4, <2>5
  <2>7. WellFormed(s) <=> Fits(s) /\ Len(s) = n
    BY <1>3, <2>3, <2>4, <2>5
  <2> QED
    BY <1>6, <2>6, <2>7 DEF n
<1> QED
  BY <1>5, <1>6

-----------------------------------------------------------------------------
(* Multibyte conversion: prefixes                                           *)

Prefix(all, j) == SubSeq(all, 1, j)

LEMMA PrefixFacts ==
  ASSUME NEW all \in Seq(Byte), NEW j \in 0 .. Len(all)
  PROVE  LET p == Prefix(all, j) IN
         /\ p \in Seq(Byte) /\ Len(p) = j /\ \A i \in 1 .. j : p[i] = all[i]
         /\ j < Len(all) => Append(p, all[j + 1]) = Prefix(all, j + 1) /\ all[j + 1] \in Byte
         /\ p = <<>> <=> j = 0
<1> DEFINE p == Prefix(all, j)
<1>1. p \in Seq(Byte) /\ Len(p) = j /\ \A i \in 1 .. j : p[i] = all[i]
  BY DEF Prefix
<1>2. ASSUME j < Len(all) PROVE Append(p, all[j + 1]) = Prefix(all, j + 1) /\ all[j + 1] \in Byte
  <2>1. j + 1 \in 1 .. Len(all) /\ j + 1 \in 0 .. Len(all) /\ all[j + 1] \in Byte
    BY <1>2
  <2> DEFINE q == Append(p, all[j + 1])
             t == Prefix(all, j + 1)
  <2>2. t \in Seq(Byte) /\ Len(t) = j + 1 /\ \A i \in 1 .. j + 1 : t[i] = all[i]
    BY <2>1 DEF Prefix
  <2> HIDE DEF p, t
  <2>3. q \in Seq(Byte) /\ Len(q) = j + 1 /\ \A i \in 1 .. j + 1 : q[i] = all[i]
    BY <1>1, <2>1
  <2> HIDE DEF q
  <2>4. q = t
    BY <2>1, <2>2, <2>3
  <2> QED
    BY <2>1, <2>4 DEF q, t
<1> QED
  BY <1>1, <1>2

LEMMA FitsPrefix ==
  ASSUME NEW all \in Seq(Byte), NEW j \in 1 .. Len(all), NEW i \in 1 .. j, Fits(Prefix(all, j))
  PROVE  Fits(Prefix(all, i)) /\ j <= LeadOf(all)
<1> DEFINE p == Prefix(all, j)
           q == Prefix(all, i)
<1>1. /\ Len(p) = j /\ \A k \in 1 .. j : p[k] = all[k]
      /\ Len(q) = i /\ \A k \in 1 .. i : q[k] = all[k]
  BY PrefixFacts
<1> HIDE DEF p, q
<1>2. /\ j >= 1 /\ j <= LeadOf(p)
      /\ \A k \in 2 .. j : is_continuation_byte(p[k])
      /\ j >= 2 => ~BadSecond(p[1], p[2])
  BY <1>1 DEF Fits, p
<1>3. LeadOf(p) = LeadOf(all) /\ LeadOf(q) = LeadOf(all)
  BY <1>1 DEF LeadOf
<1>4. LeadOf(all) \in 0 .. 4
  BY LeadFacts DEF LeadOf
<1>5. \A k \in 2 .. i : is_continuation_byte(q[k])
  BY <1>1, <1>2
<1>6. i >= 2 => ~BadSecond(q[1], q[2])
  BY <1>1, <1>2
<1> QED
  BY <1>1, <1>2, <1>3, <1>4, <1>5, <1>6 DEF Fits, q

(* FirstLength is the length the first byte says, when as many bytes fit.   *)
LEMMA FirstLengthFacts ==
  ASSUME NEW all \in Seq(Byte)
  PROVE  /\ \A j \in 1 .. Len(all) :
              Fits(Prefix(all, j)) /\ LeadOf(all) = j => FirstLength(all) = j
         /\ (\A j \in 1 .. Len(all) : ~(Fits(Prefix(all, j)) /\ LeadOf(all) = j))
              => FirstLength(all) = 0
<1> DEFINE found == {k \in 1 .. MAX_UTF8_BYTES : k <= Len(all) /\ WellFormed(SubSeq(all, 1, k))}
<1>1. \A k \in 1 .. Len(all) : WellFormed(Prefix(all, k)) <=> Fits(Prefix(all, k)) /\ LeadOf(all) = k
  <2> SUFFICES ASSUME NEW k \in 1 .. Len(all)
               PROVE  WellFormed(Prefix(all, k)) <=> Fits(Prefix(all, k)) /\ LeadOf(all) = k
    OBVIOUS
  <2>1. Prefix(all, k) \in Seq(Byte) /\ Len(Prefix(all, k)) = k /\ Prefix(all, k)[1] = all[1]
    BY PrefixFacts
  <2>2. LeadOf(Prefix(all, k)) = LeadOf(all)
    BY <2>1 DEF LeadOf
  <2> QED
    BY <2>1, <2>2, TableFits
<1>2. all # <<>> => LeadOf(all) \in 0 .. 4
  BY LeadFacts DEF LeadOf
<1>3. found = {k \in 1 .. Len(all) : Fits(Prefix(all, k)) /\ LeadOf(all) = k}
  BY <1>1, <1>2 DEF MAX_UTF8_BYTES, Prefix
<1>4. FirstLength(all) = IF found = {} THEN 0 ELSE CHOOSE k \in found : TRUE
  BY DEF FirstLength
<1> HIDE DEF found
<1>5. ASSUME NEW j \in 1 .. Len(all), Fits(Prefix(all, j)), LeadOf(all) = j
      PROVE  FirstLength(all) = j
  <2>1. found = {j}
    BY <1>3, <1>5
  <2> QED
    BY <1>4, <2>1
<1> QED
  BY <1>3, <1>4, <1>5

-----------------------------------------------------------------------------
(* Multibyte conversion: one byte                                           *)

\* The code's accumulator with the bytes p begun, c of them from this call.
Accumulates(acc, p, c) ==
  /\ DOMAIN acc = {"bytes", "expected_len", "consumed", "failed"}
  /\ acc.bytes = p /\ acc.consumed = c /\ acc.failed = FALSE
  /\ acc.expected_len = IF p = <<>> THEN 0 ELSE LeadOf(p)

(* The checks of a partial character are those of the table.                *)
LEMMA PartialFits ==
  ASSUME NEW s \in Seq(Byte), NEW n \in 0 .. 4, s # <<>>, n = LeadOf(s), Len(s) < n
  PROVE  partial_prefix_is_valid(s, n) <=> Fits(s)
<1>1. Len(s) \in Nat /\ Len(s) >= 1 /\ s[1] \in Byte
  OBVIOUS
<1>2. n <= 2 => Len(s) < 2
  BY <1>1
<1> QED
  BY <1>1, <1>2 DEF partial_prefix_is_valid, Fits, LeadOf

LEMMA NeverBadSecond ==
  ASSUME NEW b \in 194 .. 223, NEW x
  PROVE  ~BadSecond(b, x)
  BY DEF BadSecond

LEMMA ReadByteFacts ==
  ASSUME NEW p \in Seq(Byte), NEW x \in Byte, Begun(p), NEW c \in Nat,
         NEW acc, Accumulates(acc, p, c)
  PROVE  LET a == ReadByte(acc, x)
             q == Append(p, x)
         IN /\ Fits(q) => Accumulates(a, q, c + 1)
            /\ ~Fits(q) => a.failed = TRUE
<1> DEFINE a == ReadByte(acc, x)
           q == Append(p, x)
           expected == IF p = <<>> THEN expected_len_from_lead_byte(x) ELSE acc.expected_len
<1>1. /\ q \in Seq(Byte) /\ Len(q) = Len(p) + 1 /\ Len(p) \in Nat /\ q # <<>>
      /\ q[Len(q)] = x /\ \A i \in 1 .. Len(p) : q[i] = p[i]
  OBVIOUS
<1>2. expected = LeadOf(q)
  BY <1>1 DEF LeadOf, Accumulates
<1>3. expected \in 0 .. 4
  BY <1>1, <1>2, LeadFacts DEF LeadOf
<1>4. p # <<>> => Fits(p) /\ Len(p) < expected
  BY <1>1 DEF Begun, Accumulates
<1>5. ~(acc.failed \/ (acc.expected_len # 0 /\ Len(acc.bytes) = acc.expected_len))
  <2>1. acc.failed = FALSE /\ acc.bytes = p /\ acc.expected_len = IF p = <<>> THEN 0 ELSE expected
    BY DEF Accumulates
  <2> HIDE DEF expected
  <2> QED
    BY <1>1, <1>4, <2>1
<1> DEFINE refused == (p = <<>> /\ expected = 0) \/ (p # <<>> /\ ~is_continuation_byte(x))
           bad == Len(q) < expected /\ ~partial_prefix_is_valid(q, expected)
<1>6. a = IF refused THEN [acc EXCEPT !.failed = TRUE]
          ELSE [acc EXCEPT !.bytes = q, !.expected_len = expected, !.consumed = @ + 1,
                           !.failed = bad]
  BY <1>5 DEF ReadByte, Accumulates
<1>7. DOMAIN acc = {"bytes", "expected_len", "consumed", "failed"} /\ acc.consumed = c
  BY DEF Accumulates
<1> SUFFICES /\ Fits(q) => Accumulates(a, q, c + 1)
             /\ ~Fits(q) => a.failed = TRUE
  OBVIOUS
<1> HIDE DEF a, q, expected, refused, bad
<1>8. refused => ~Fits(q)
  <2>1. p = <<>> /\ expected = 0 => ~Fits(q)
    BY <1>1, <1>2 DEF Fits
  <2>2. p # <<>> /\ ~is_continuation_byte(x) => ~Fits(q)
    <3>1. p # <<>> => Len(q) \in 2 .. Len(q)
      BY <1>1
    <3> QED
      BY <1>1, <3>1 DEF Fits
  <2> QED
    BY <2>1, <2>2 DEF refused
<1>9. ASSUME ~refused, Len(q) < expected PROVE bad <=> ~Fits(q)
  BY <1>1, <1>2, <1>3, <1>9, PartialFits DEF bad
<1>10. ASSUME ~refused, ~(Len(q) < expected) PROVE ~bad /\ Fits(q)
  <2>1. ~bad
    BY <1>10 DEF bad
  <2>2. Len(q) = expected
    <3>1. CASE p = <<>>
      BY <1>1, <1>3, <1>10, <3>1 DEF refused
    <3>2. CASE p # <<>>
      BY <1>1, <1>3, <1>4, <1>10, <3>2
    <3> QED
      BY <3>1, <3>2
  <2>3. Fits(q)
    <3>1. CASE p = <<>>
      BY <1>1, <1>2, <2>2, <3>1 DEF Fits
    <3>2. CASE p # <<>>
      <4>1. Fits(p) /\ is_continuation_byte(x) /\ Len(p) >= 1
        BY <1>1, <1>4, <1>10, <3>2 DEF refused
      <4>2. \A i \in 2 .. Len(q) : is_continuation_byte(q[i])
        BY <1>1, <4>1 DEF Fits
      <4>3. ~BadSecond(q[1], q[2])
        <5>1. CASE Len(q) = 2
          <6>1. q[1] \in 194 .. 223
            <7>1. q[1] \in Byte /\ expected_len_from_lead_byte(q[1]) = 2
              BY <1>1, <1>2, <2>2, <5>1 DEF LeadOf
            <7> QED
              BY <7>1, LeadFacts
          <6> QED
            BY <6>1, NeverBadSecond
        <5>2. CASE Len(q) # 2
          <6>1. Len(p) >= 2 /\ q[1] = p[1] /\ q[2] = p[2]
            BY <1>1, <4>1, <5>2
          <6> QED
            BY <4>1, <6>1 DEF Fits
        <5> QED
          BY <5>1, <5>2
      <4> QED
        BY <1>1, <1>2, <2>2, <4>2, <4>3 DEF Fits
    <3> QED
      BY <3>1, <3>2
  <2> QED
    BY <2>1, <2>3
<1>11. CASE refused
  BY <1>6, <1>7, <1>8, <1>11
<1>12. CASE ~refused /\ bad
  <2>1. a = [acc EXCEPT !.bytes = q, !.expected_len = expected, !.consumed = @ + 1, !.failed = TRUE]
    BY <1>6, <1>12
  <2>2. a.failed = TRUE
    BY <1>7, <2>1
  <2>3. ~Fits(q)
    <3>1. ~refused /\ bad
      BY <1>12
    <3>2. Len(q) < expected
      BY <1>10, <3>1
    <3> QED
      BY <1>9, <3>1, <3>2
  <2> QED
    BY <2>2, <2>3
<1>13. CASE ~refused /\ ~bad
  <2> DEFINE longer == [acc EXCEPT !.bytes = q, !.expected_len = expected, !.consumed = @ + 1]
  <2>4. bad = FALSE
    <3>1. bad \in BOOLEAN
      BY DEF bad
    <3> QED
      BY <1>13, <3>1
  <2>1. a = [longer EXCEPT !.failed = FALSE]
    BY <1>6, <1>13, <2>4
  <2>2. /\ DOMAIN a = {"bytes", "expected_len", "consumed", "failed"}
        /\ a.bytes = q /\ a.consumed = c + 1 /\ a.failed = FALSE /\ a.expected_len = expected
    BY <1>7, <2>1
  <2>3. Fits(q)
    BY <1>9, <1>10, <1>13
  <2> QED
    BY <1>1, <1>2, <2>2, <2>3 DEF Accumulates
<1> QED
  BY <1>11, <1>12, <1>13

(* ReadBytes is its loop: the accumulator after each byte.                  *)
Rounds(f, acc, input) ==
  /\ f[0] = acc
  /\ \A i \in 1 .. Len(input) : f[i] = ReadByte(f[i - 1], input[i])
  /\ ReadBytes(acc, input) = f[Len(input)]

LEMMA ReadBytesFacts ==
  ASSUME NEW acc, NEW input, Len(input) \in Nat
  PROVE  \E f : Rounds(f, acc, input)
<1> DEFINE len == Len(input)
           R(f, n) == [i \in 0 .. n |-> IF i = 0 THEN acc ELSE ReadByte(f[i - 1], input[i])]
           Is(n) == \E f : f = R(f, n)
           Bad == {n \in 0 .. len : ~Is(n)}
<1> HIDE DEF len
<1> SUFFICES ASSUME len \in Nat
             PROVE  \E f : /\ f[0] = acc
                           /\ \A i \in 1 .. len : f[i] = ReadByte(f[i - 1], input[i])
                           /\ ReadBytes(acc, input) = f[len]
  BY DEF len, Rounds
<1>1. Is(0)
  <2> DEFINE f == [i \in 0 .. 0 |-> acc]
  <2>1. f = R(f, 0)
    OBVIOUS
  <2> QED
    BY <2>1
<1>2. ASSUME NEW n \in 1 .. len, Is(n - 1) PROVE Is(n)
  <2>1. PICK g : g = R(g, n - 1)
    BY <1>2
  <2> DEFINE f == [i \in 0 .. n |-> IF i = n THEN ReadByte(g[n - 1], input[n]) ELSE g[i]]
  <2>2. n \in Nat /\ n # 0 /\ n - 1 \in 0 .. n
    OBVIOUS
  <2>3. ASSUME NEW i \in 0 .. n PROVE f[i] = R(f, n)[i]
    <3>1. CASE i = n
      <4>1. f[n - 1] = g[n - 1]
        BY <2>2
      <4> QED
        BY <2>2, <3>1, <4>1
    <3>2. CASE i = 0
      <4>1. 0 \in 0 .. n - 1 /\ 0 # n
        BY <2>2
      <4>2. g[0] = acc
        BY <2>1, <4>1
      <4> QED
        BY <2>2, <3>2, <4>1, <4>2
    <3>3. CASE i # n /\ i # 0
      <4>1. i \in 0 .. n - 1 /\ i - 1 \in 0 .. n /\ i - 1 # n
        BY <2>2, <3>3
      <4>2. g[i] = ReadByte(g[i - 1], input[i])
        BY <2>1, <3>3, <4>1
      <4>3. f[i - 1] = g[i - 1] /\ f[i] = g[i]
        BY <3>3, <4>1
      <4> QED
        BY <3>3, <4>2, <4>3
    <3> QED
      BY <3>1, <3>2, <3>3
  <2>4. f = R(f, n)
    BY <2>3
  <2> QED
    BY <2>4
<1>3. Is(len)
  <2> HIDE DEF Is
  <2> SUFFICES ASSUME Bad # {} PROVE FALSE
    OBVIOUS
  <2>1. PICK n \in Bad : \A m \in Bad : n <= m
    <3>1. Bad \subseteq Nat
      OBVIOUS
    <3> HIDE DEF Bad
    <3> QED
      BY <3>1, LeastNatural
  <2>2. n \in 1 .. len
    BY <1>1, <2>1
  <2>3. n - 1 \in 0 .. len /\ n - 1 < n
    BY <2>2
  <2>4. Is(n - 1)
    BY <2>1, <2>3
  <2> QED
    BY <1>2, <2>1, <2>2, <2>4
<1> DEFINE f == CHOOSE read : read = R(read, len)
<1>4. f = R(f, len)
  BY <1>3
<1>5. ReadBytes(acc, input) = f[len]
  BY DEF ReadBytes, len
<1> HIDE DEF f
<1>6. f[0] = acc
  BY <1>4
<1>7. ASSUME NEW i \in 1 .. len PROVE f[i] = ReadByte(f[i - 1], input[i])
  <2>1. i \in 0 .. len /\ i # 0
    OBVIOUS
  <2>2. R(f, len)[i] = ReadByte(f[i - 1], input[i])
    BY <2>1
  <2> QED
    BY <1>4, <2>2
<1> QED
  BY <1>5, <1>6, <1>7

LEMMA SameLead ==
  ASSUME NEW all \in Seq(Byte), NEW j \in 1 .. Len(all)
  PROVE  LeadOf(Prefix(all, j)) = LeadOf(all) /\ LeadOf(all) \in 0 .. 4
<1>1. Prefix(all, j)[1] = all[1] /\ all[1] \in Byte
  BY PrefixFacts
<1> QED
  BY <1>1, LeadFacts DEF LeadOf

(* What the loop has found once m + i of the bytes are read, m of them      *)
(* before the call: a byte that fits nowhere, a character begun, or one     *)
(* that is complete, behind which no byte is read.                          *)
Refuses(all, m, n, e) ==
  e.failed = TRUE /\ \E j \in m + 1 .. n : ~Fits(Prefix(all, j)) /\ Begun(Prefix(all, j - 1))
Continues(all, m, n, e) == Accumulates(e, Prefix(all, n), n - m) /\ Begun(Prefix(all, n))
Completes(all, m, n, e) ==
  \E j \in m + 1 .. n : /\ Accumulates(e, Prefix(all, j), j - m)
                        /\ Fits(Prefix(all, j)) /\ LeadOf(all) = j
Finds(all, m, n, e) == Refuses(all, m, n, e) \/ Continues(all, m, n, e) \/ Completes(all, m, n, e)

LEMMA LoopStep ==
  ASSUME NEW all \in Seq(Byte), NEW m \in 0 .. Len(all), NEW n \in m + 1 .. Len(all),
         NEW e, Finds(all, m, n - 1, e)
  PROVE  Finds(all, m, n, ReadByte(e, all[n]))
<1> DEFINE a == ReadByte(e, all[n])
           p == Prefix(all, n - 1)
           q == Prefix(all, n)
<1>1. /\ Len(all) \in Nat /\ m \in Nat /\ n \in Nat /\ n - 1 \in Nat /\ n \in 1 .. Len(all)
      /\ n - 1 \in 0 .. Len(all) /\ n - 1 < Len(all) /\ n \in 0 .. Len(all) /\ (n - 1) + 1 = n
  OBVIOUS
<1>2. CASE Refuses(all, m, n - 1, e)
  <2>1. a = e
    BY <1>2 DEF Refuses, ReadByte
  <2> HIDE DEF a
  <2>2. Refuses(all, m, n, a)
    BY <1>1, <1>2, <2>1 DEF Refuses
  <2> QED
    BY <2>2 DEF Finds, a
<1>3. CASE Continues(all, m, n - 1, e)
  <2>1. p \in Seq(Byte) /\ Append(p, all[n]) = q /\ all[n] \in Byte /\ Len(q) = n
    BY <1>1, PrefixFacts
  <2>2. Accumulates(e, p, n - 1 - m) /\ Begun(p) /\ n - 1 - m \in Nat /\ (n - 1 - m) + 1 = n - m
    BY <1>1, <1>3 DEF Continues
  <2> HIDE DEF a, p, q
  <2>3. /\ Fits(q) => Accumulates(a, q, n - m)
        /\ ~Fits(q) => a.failed = TRUE
    BY <2>1, <2>2, ReadByteFacts DEF a
  <2>4. LeadOf(q) = LeadOf(all) /\ LeadOf(all) \in 0 .. 4
    BY <1>1, SameLead DEF q
  <2>5. CASE ~Fits(q)
    <3>1. n \in m + 1 .. n
      BY <1>1
    <3> QED
      BY <2>2, <2>3, <2>5, <3>1 DEF Refuses, Finds, a, p, q
  <2>6. CASE Fits(q) /\ n < LeadOf(all)
    <3>1. Begun(q)
      BY <2>1, <2>4, <2>6 DEF Begun
    <3> QED
      BY <2>3, <2>6, <3>1 DEF Continues, Finds, a, q
  <2>7. CASE Fits(q) /\ ~(n < LeadOf(all))
    <3>1. n \in m + 1 .. n
      BY <1>1
    <3>2. LeadOf(all) = n
      BY <1>1, <2>1, <2>4, <2>7 DEF Fits
    <3> QED
      BY <2>3, <2>7, <3>1, <3>2 DEF Completes, Finds, a, q
  <2> QED
    BY <2>5, <2>6, <2>7
<1>4. CASE Completes(all, m, n - 1, e)
  <2>1. PICK j \in m + 1 .. n - 1 : /\ Accumulates(e, Prefix(all, j), j - m)
                                   /\ Fits(Prefix(all, j)) /\ LeadOf(all) = j
    BY <1>4 DEF Completes
  <2>2. j \in 1 .. Len(all) /\ j \in 0 .. Len(all) /\ j # 0 /\ j \in m + 1 .. n
    BY <1>1
  <2>3. Len(Prefix(all, j)) = j /\ Prefix(all, j) # <<>> /\ LeadOf(Prefix(all, j)) = j
    BY <2>1, <2>2, PrefixFacts, SameLead
  <2>4. e.expected_len = j /\ Len(e.bytes) = j
    BY <2>1, <2>3 DEF Accumulates
  <2>5. a = e
    BY <2>2, <2>4 DEF ReadByte
  <2> HIDE DEF a
  <2>6. Completes(all, m, n, a)
    BY <2>1, <2>2, <2>5 DEF Completes
  <2> QED
    BY <2>6 DEF Finds, a
<1> QED
  BY <1>2, <1>3, <1>4 DEF Finds

(* The whole loop, by the least byte after which it would have gone wrong.  *)
LEMMA LoopFinds ==
  ASSUME NEW all \in Seq(Byte), NEW m \in 0 .. Len(all), NEW input, Len(input) = Len(all) - m,
         \A i \in 1 .. Len(input) : input[i] = all[m + i],
         NEW acc, Accumulates(acc, Prefix(all, m), 0), Begun(Prefix(all, m))
  PROVE  Finds(all, m, Len(all), ReadBytes(acc, input))
<1> DEFINE len == Len(input)
<1>1. len \in Nat /\ Len(all) \in Nat /\ m \in Nat /\ m + len = Len(all)
  OBVIOUS
<1>0. PICK f : Rounds(f, acc, input)
  BY <1>1, ReadBytesFacts
<1>2. /\ f[0] = acc
      /\ \A i \in 1 .. len : f[i] = ReadByte(f[i - 1], input[i])
      /\ ReadBytes(acc, input) = f[len]
  BY <1>0 DEF Rounds
<1> HIDE DEF len
<1> DEFINE Bad == {i \in 0 .. len : ~Finds(all, m, m + i, f[i])}
<1> SUFFICES ASSUME Bad # {} PROVE FALSE
  <2>1. len \in 0 .. len
    BY <1>1
  <2>2. Bad = {} => Finds(all, m, m + len, f[len])
    BY <2>1
  <2> HIDE DEF Bad
  <2> QED
    BY <1>1, <1>2, <2>2
<1>3. PICK i \in Bad : \A k \in Bad : i <= k
  <2>1. Bad \subseteq Nat
    BY <1>1
  <2> HIDE DEF Bad
  <2> QED
    BY <2>1, LeastNatural
<1>4. i # 0
  <2>1. Continues(all, m, m, acc)
    BY <1>1 DEF Continues
  <2>2. Finds(all, m, m + 0, f[0])
    BY <1>1, <1>2, <2>1 DEF Finds
  <2> QED
    BY <1>3, <2>2
<1>5. i - 1 \in 0 .. len /\ i - 1 < i /\ i \in 1 .. len
  BY <1>1, <1>3, <1>4
<1>6. Finds(all, m, m + (i - 1), f[i - 1])
  BY <1>1, <1>3, <1>5
<1>7. m + i \in m + 1 .. Len(all) /\ m + (i - 1) = (m + i) - 1
  BY <1>1, <1>5
<1>8. Finds(all, m, m + i, ReadByte(f[i - 1], all[m + i]))
  BY <1>6, <1>7, LoopStep
<1>9. f[i] = ReadByte(f[i - 1], all[m + i])
  BY <1>2, <1>5 DEF len
<1> QED
  BY <1>3, <1>8, <1>9

(* What the three outcomes say of the table.                                *)
LEMMA BegunIsIncomplete ==
  ASSUME NEW s \in Seq(Byte), Begun(s)
  PROVE  BeginsWellFormed(s) /\ FirstLength(s) = 0
<1>1. BeginsWellFormed(s)
  BY TableFits DEF Begun
<1>2. ASSUME NEW j \in 1 .. Len(s), LeadOf(s) = j PROVE FALSE
  <2>1. s # <<>>
    BY <1>2
  <2> QED
    BY <1>2, <2>1 DEF Begun
<1> QED
  BY <1>1, <1>2, FirstLengthFacts

LEMMA RefusedIsIllFormed ==
  ASSUME NEW all \in Seq(Byte), NEW j \in 1 .. Len(all),
         ~Fits(Prefix(all, j)), Begun(Prefix(all, j - 1))
  PROVE  ~BeginsWellFormed(all) /\ FirstLength(all) = 0
<1>1. \A k \in j .. Len(all) : ~Fits(Prefix(all, k))
  <2> SUFFICES ASSUME NEW k \in j .. Len(all), Fits(Prefix(all, k)) PROVE FALSE
    OBVIOUS
  <2>1. k \in 1 .. Len(all) /\ j \in 1 .. k
    OBVIOUS
  <2> QED
    BY <2>1, FitsPrefix
<1>2. ~BeginsWellFormed(all)
  <2>1. Len(all) \in j .. Len(all) /\ Len(all) \in 0 .. Len(all) /\ all # <<>>
    OBVIOUS
  <2>2. Prefix(all, Len(all)) = all
    BY DEF Prefix
  <2>3. ~Fits(all)
    BY <1>1, <2>1, <2>2
  <2> QED
    BY <2>1, <2>3, TableFits
<1>3. ASSUME NEW k \in 1 .. Len(all), Fits(Prefix(all, k)), LeadOf(all) = k PROVE FALSE
  <2>1. k < j
    BY <1>1, <1>3
  <2>2. j - 1 \in 1 .. Len(all) /\ j - 1 \in 0 .. Len(all) /\ k <= j - 1
    BY <2>1
  <2>3. Prefix(all, j - 1) # <<>> /\ Len(Prefix(all, j - 1)) = j - 1
    <3>1. Len(Prefix(all, j - 1)) = j - 1
      BY <2>2, PrefixFacts
    <3> QED
      BY <2>2, <3>1
  <2>4. LeadOf(Prefix(all, j - 1)) = k
    BY <1>3, <2>2, SameLead
  <2> QED
    BY <2>2, <2>3, <2>4 DEF Begun
<1> QED
  BY <1>2, <1>3, FirstLengthFacts

(* The scalar value of a character's bytes, and the bytes of a scalar value. *)
Scalar2(x, y) == (x - \hC0) * 64 + (y - \h80)
Scalar3(x, y, z) == (x - \hE0) * 4096 + (y - \h80) * 64 + (z - \h80)
Scalar4(x, y, z, w) == (x - \hF0) * 262144 + (y - \h80) * 4096 + (z - \h80) * 64 + (w - \h80)

Bytes2(v, x, y) ==
  /\ v \in Nat /\ v <= \h7FF /\ ~(v <= \h7F)
  /\ x = \hC0 + (v \div 64) /\ y = \h80 + (v % 64)
Bytes3(v, x, y, z) ==
  /\ v \in Nat /\ v <= \hFFFF /\ ~(v <= \h7FF) /\ v \notin \hD800 .. \hDFFF
  /\ x = \hE0 + (v \div 4096) /\ y = \h80 + ((v \div 64) % 64) /\ z = \h80 + (v % 64)
Bytes4(v, x, y, z, w) ==
  /\ v \in Nat /\ v <= \h10FFFF /\ ~(v <= \hFFFF)
  /\ x = \hF0 + (v \div 262144) /\ y = \h80 + ((v \div 4096) % 64)
  /\ z = \h80 + ((v \div 64) % 64) /\ w = \h80 + (v % 64)

(* What encode_utf8_scalar makes of a value of each size.                   *)
LEMMA Encoded1 ==
  ASSUME NEW v \in 0 .. 127
  PROVE  encode_utf8_scalar(v) = <<v>>
<1>1. ~(v < 0 \/ v > \h10FFFF \/ v \in \hD800 .. \hDFFF) /\ v <= \h7F
  BY SMT
<1> QED
  BY <1>1, SMTT(30) DEF encode_utf8_scalar

LEMMA Encoded2 ==
  ASSUME NEW v, NEW x, NEW y, Bytes2(v, x, y)
  PROVE  v \in Nat /\ v # 0 /\ encode_utf8_scalar(v) = <<x, y>>
<1>1. /\ v \in Nat /\ v # 0 /\ v <= \h7FF
      /\ ~(v < 0 \/ v > \h10FFFF \/ v \in \hD800 .. \hDFFF) /\ ~(v <= \h7F)
  BY SMT DEF Bytes2
<1>2. encode_utf8_scalar(v) = <<x, y>>
  BY <1>1, SMTT(30) DEF encode_utf8_scalar, Bytes2
<1> QED
  BY <1>1, <1>2, SMT

LEMMA Encoded3 ==
  ASSUME NEW v, NEW x, NEW y, NEW z, Bytes3(v, x, y, z)
  PROVE  v \in Nat /\ v # 0 /\ encode_utf8_scalar(v) = <<x, y, z>>
<1>1. /\ v \in Nat /\ v # 0 /\ v <= \hFFFF
      /\ ~(v < 0 \/ v > \h10FFFF \/ v \in \hD800 .. \hDFFF) /\ ~(v <= \h7F) /\ ~(v <= \h7FF)
  BY SMT DEF Bytes3
<1>2. encode_utf8_scalar(v) = <<x, y, z>>
  BY <1>1, SMTT(30) DEF encode_utf8_scalar, Bytes3
<1> QED
  BY <1>1, <1>2, SMT

LEMMA Encoded4 ==
  ASSUME NEW v, NEW x, NEW y, NEW z, NEW w, Bytes4(v, x, y, z, w)
  PROVE  v \in Nat /\ v # 0 /\ encode_utf8_scalar(v) = <<x, y, z, w>>
<1>1. /\ v \in Nat /\ v # 0 /\ ~(v <= \hFFFF)
      /\ ~(v < 0 \/ v > \h10FFFF \/ v \in \hD800 .. \hDFFF) /\ ~(v <= \h7F) /\ ~(v <= \h7FF)
  BY SMT DEF Bytes4
<1>2. encode_utf8_scalar(v) = <<x, y, z, w>>
  BY <1>1, SMTT(30) DEF encode_utf8_scalar, Bytes4
<1> QED
  BY <1>1, <1>2, SMT

(* The bits of a character's bytes, put together, come apart again.         *)
LEMMA Scalar2Back ==
  ASSUME NEW x \in 194 .. 223, NEW y \in 128 .. 191
  PROVE  Bytes2(Scalar2(x, y), x, y)
<1> DEFINE a == x - \hC0
           b == y - \h80
           v == Scalar2(x, y)
<1>1. a \in 2 .. 31 /\ b \in 0 .. 63 /\ x = \hC0 + a /\ y = \h80 + b
  BY SMT
<1>2. v = a * 64 + b
  BY SMT DEF Scalar2
<1> HIDE DEF a, b, v
<1>3. v \in Nat /\ v <= \h7FF /\ ~(v <= \h7F)
  BY <1>1, <1>2, SMTT(30)
<1>4. v \div 64 = a /\ v % 64 = b
  BY <1>1, <1>2, SMTT(30)
<1>5. Bytes2(v, x, y)
  BY <1>1, <1>3, <1>4, SMT DEF Bytes2
<1> QED
  BY <1>5, SMT DEF v

LEMMA Scalar3Back ==
  ASSUME NEW x \in 224 .. 239, NEW y \in 128 .. 191, NEW z \in 128 .. 191, ~BadSecond(x, y)
  PROVE  Bytes3(Scalar3(x, y, z), x, y, z)
<1> DEFINE a == x - \hE0
           b == y - \h80
           c == z - \h80
           v == Scalar3(x, y, z)
<1>1. /\ a \in 0 .. 15 /\ b \in 0 .. 63 /\ c \in 0 .. 63
      /\ x = \hE0 + a /\ y = \h80 + b /\ z = \h80 + c
  BY SMT
<1>2. (a = 0 => b >= 32) /\ (a = 13 => b <= 31)
  BY SMT DEF BadSecond
<1>3. v = a * 4096 + b * 64 + c
  BY SMT DEF Scalar3
<1> HIDE DEF a, b, c, v
<1>4. v \in Nat /\ v <= \hFFFF /\ ~(v <= \h7FF)
  BY <1>1, <1>2, <1>3, SMTT(30)
<1>5. v \notin \hD800 .. \hDFFF
  <2>1. CASE a < 13
    BY <1>1, <1>3, <2>1, SMTT(30)
  <2>2. CASE a = 13
    BY <1>1, <1>2, <1>3, <2>2, SMTT(30)
  <2>3. CASE a > 13
    BY <1>1, <1>3, <2>3, SMTT(30)
  <2> QED
    BY <1>1, <2>1, <2>2, <2>3, SMT
<1>6. v \div 4096 = a /\ v % 64 = c
  BY <1>1, <1>3, SMTT(30)
<1>7. v \div 64 = a * 64 + b /\ (a * 64 + b) % 64 = b
  BY <1>1, <1>3, SMTT(30)
<1>8. (v \div 64) % 64 = b
  BY <1>7, SMT
<1>9. Bytes3(v, x, y, z)
  BY <1>1, <1>4, <1>5, <1>6, <1>8, SMT DEF Bytes3
<1> QED
  BY <1>9, SMT DEF v

LEMMA Scalar4Back ==
  ASSUME NEW x \in 240 .. 244, NEW y \in 128 .. 191, NEW z \in 128 .. 191, NEW w \in 128 .. 191,
         ~BadSecond(x, y)
  PROVE  Bytes4(Scalar4(x, y, z, w), x, y, z, w)
<1> DEFINE a == x - \hF0
           b == y - \h80
           c == z - \h80
           d == w - \h80
           v == Scalar4(x, y, z, w)
<1>1. /\ a \in 0 .. 4 /\ b \in 0 .. 63 /\ c \in 0 .. 63 /\ d \in 0 .. 63
      /\ x = \hF0 + a /\ y = \h80 + b /\ z = \h80 + c /\ w = \h80 + d
  BY SMT
<1>2. (a = 0 => b >= 16) /\ (a = 4 => b <= 15)
  BY SMT DEF BadSecond
<1>3. v = a * 262144 + b * 4096 + c * 64 + d
  BY SMT DEF Scalar4
<1> HIDE DEF a, b, c, d, v
<1>4. v \in Nat /\ ~(v <= \hFFFF)
  BY <1>1, <1>2, <1>3, SMTT(30)
<1>5. v <= \h10FFFF
  <2>1. CASE a < 4
    BY <1>1, <1>3, <2>1, SMTT(30)
  <2>2. CASE a = 4
    BY <1>1, <1>2, <1>3, <2>2, SMTT(30)
  <2> QED
    BY <1>1, <2>1, <2>2, SMT
<1>6. v \div 262144 = a /\ v % 64 = d
  BY <1>1, <1>3, SMTT(30)
<1>7. v \div 4096 = a * 64 + b /\ (a * 64 + b) % 64 = b
  BY <1>1, <1>3, SMTT(30)
<1>8. v \div 64 = a * 4096 + b * 64 + c /\ (a * 4096 + b * 64 + c) % 64 = c
  BY <1>1, <1>3, SMTT(30)
<1>9. (v \div 4096) % 64 = b /\ (v \div 64) % 64 = c
  BY <1>7, <1>8, SMT
<1>10. Bytes4(v, x, y, z, w)
  BY <1>1, <1>4, <1>5, <1>6, <1>9, SMT DEF Bytes4
<1> QED
  BY <1>10, SMT DEF v

(* A sequence of bytes, listed.                                             *)
LEMMA ListedBytes ==
  ASSUME NEW s \in Seq(Byte)
  PROVE  /\ Len(s) = 1 => s = <<s[1]>>
         /\ Len(s) = 2 => s = <<s[1], s[2]>>
         /\ Len(s) = 3 => s = <<s[1], s[2], s[3]>>
         /\ Len(s) = 4 => s = <<s[1], s[2], s[3], s[4]>>
  OBVIOUS

(* A complete character is decoded, and encoded to the same bytes again.    *)
LEMMA CompleteIsDecoded ==
  ASSUME NEW s \in Seq(Byte), Fits(s), Len(s) = LeadOf(s)
  PROVE  LET v == decode_utf8_scalar(s, Len(s))
         IN v \in Nat /\ (v = 0 <=> s[1] = 0) /\ encode_utf8_scalar(v) = s
<1> DEFINE n == Len(s)
           v == decode_utf8_scalar(s, n)
           x == s[1]
           y == s[2]
           z == s[3]
           w == s[4]
<1>1. n \in Nat /\ n >= 1 /\ \A i \in 1 .. n : s[i] \in Byte
  BY DEF Fits
<1>2. n \in 1 .. 4 /\ x \in Byte /\ expected_len_from_lead_byte(x) = n
  <2>1. x \in Byte
    BY <1>1
  <2> QED
    BY <1>1, <2>1, LeadFacts DEF LeadOf
<1>3. \A i \in 2 .. n : s[i] \in 128 .. 191
  BY DEF Fits, is_continuation_byte
<1>4. n >= 2 => y \in 128 .. 191 /\ ~BadSecond(x, y)
  BY <1>1, <1>3 DEF Fits
<1>5. (n >= 3 => z \in 128 .. 191) /\ (n >= 4 => w \in 128 .. 191)
  BY <1>1, <1>3
<1>6. /\ n = 1 => v = x
      /\ n = 2 => v = Scalar2(x, y)
      /\ n = 3 => v = Scalar3(x, y, z)
      /\ n = 4 => v = Scalar4(x, y, z, w)
  <2>1. n > 2 => ~BadSecond(s[1], s[2])
    BY <1>1, <1>4
  <2> QED
    BY <1>2, <2>1, SMT DEF decode_utf8_scalar, Fits, Scalar2, Scalar3, Scalar4
<1>7. /\ n = 1 => s = <<x>>
      /\ n = 2 => s = <<x, y>>
      /\ n = 3 => s = <<x, y, z>>
      /\ n = 4 => s = <<x, y, z, w>>
  BY ListedBytes
<1> SUFFICES v \in Nat /\ (v = 0 <=> x = 0) /\ encode_utf8_scalar(v) = s
  OBVIOUS
<1> HIDE DEF v, n, x, y, z, w
<1>8. CASE n = 1
  <2>1. x \in 0 .. 127
    BY <1>2, <1>8, LeadFacts
  <2>2. v = x
    BY <1>6, <1>8
  <2>3. x \in Nat
    BY <1>2 DEF Byte
  <2>4. encode_utf8_scalar(x) = <<x>>
    BY <2>1, Encoded1, Zenon
  <2> QED
    BY <1>7, <1>8, <2>2, <2>3, <2>4, Zenon
<1>9. CASE n = 2
  <2>1. x \in 194 .. 223 /\ x # 0 /\ y \in 128 .. 191
    BY <1>2, <1>4, <1>9, LeadFacts
  <2>2. v = Scalar2(x, y) /\ s = <<x, y>>
    BY <1>6, <1>7, <1>9
  <2>3. Bytes2(v, x, y)
    BY <2>1, <2>2, Scalar2Back, Zenon
  <2> QED
    BY <2>1, <2>2, <2>3, Encoded2, Zenon
<1>10. CASE n = 3
  <2>1. x \in 224 .. 239 /\ x # 0 /\ y \in 128 .. 191 /\ z \in 128 .. 191 /\ ~BadSecond(x, y)
    BY <1>2, <1>4, <1>5, <1>10, LeadFacts
  <2>2. v = Scalar3(x, y, z) /\ s = <<x, y, z>>
    BY <1>6, <1>7, <1>10
  <2>3. Bytes3(v, x, y, z)
    BY <2>1, <2>2, Scalar3Back, Zenon
  <2> QED
    BY <2>1, <2>2, <2>3, Encoded3, Zenon
<1>11. CASE n = 4
  <2>1. /\ x \in 240 .. 244 /\ x # 0 /\ y \in 128 .. 191 /\ z \in 128 .. 191 /\ w \in 128 .. 191
        /\ ~BadSecond(x, y)
    BY <1>2, <1>4, <1>5, <1>11, LeadFacts
  <2>2. v = Scalar4(x, y, z, w) /\ s = <<x, y, z, w>>
    BY <1>6, <1>7, <1>11
  <2>3. Bytes4(v, x, y, z, w)
    BY <2>1, <2>2, Scalar4Back, Zenon
  <2> QED
    BY <2>1, <2>2, <2>3, Encoded4, Zenon
<1> QED
  BY <1>2, <1>8, <1>9, <1>10, <1>11

-----------------------------------------------------------------------------
(* Multibyte conversion: one call                                           *)

(* The check of a state that is used says that its bytes begin a character. *)
LEMMA UsableIsBegun ==
  ASSUME NEW st, StateIsUsable(st), st.bytes \in Seq(Byte)
  PROVE  /\ Begun(st.bytes)
         /\ st.expected_len = IF st.bytes = <<>> THEN 0 ELSE LeadOf(st.bytes)
<1>1. CASE st.bytes = <<>>
  BY <1>1 DEF StateIsUsable, Begun
<1>2. CASE st.bytes # <<>>
  <2> DEFINE b == st.bytes
             n == st.expected_len
  <2>1. partial_prefix_is_valid(b, n)
    BY <1>2 DEF StateIsUsable
  <2>2. Len(b) < n /\ n = LeadOf(b)
    BY <2>1 DEF partial_prefix_is_valid, LeadOf
  <2>3. n \in 0 .. 4
    <3>1. b[1] \in Byte
      BY <1>2
    <3> QED
      BY <2>2, <3>1, LeadFacts DEF LeadOf
  <2> HIDE DEF b, n
  <2>4. Fits(b)
    BY <1>2, <2>1, <2>2, <2>3, PartialFits DEF b
  <2> QED
    BY <1>2, <2>2, <2>4 DEF Begun, b, n
<1> QED
  BY <1>1, <1>2

(* The bytes of a call and the bytes begun before it.                       *)
LEMMA Joined ==
  ASSUME NEW begun \in Seq(Byte), NEW chunk \in Seq(Byte)
  PROVE  LET all == begun \o chunk
             m == Len(begun)
         IN /\ all \in Seq(Byte) /\ m \in 0 .. Len(all) /\ Len(chunk) = Len(all) - m
            /\ \A i \in 1 .. Len(chunk) : chunk[i] = all[m + i]
            /\ Prefix(all, m) = begun
            /\ chunk = <<>> => all = begun
            /\ chunk # <<>> => m < Len(all)
<1> DEFINE all == begun \o chunk
           m == Len(begun)
<1>1. /\ all \in Seq(Byte) /\ m \in Nat /\ Len(chunk) \in Nat /\ Len(all) = m + Len(chunk)
      /\ \A i \in 1 .. m : all[i] = begun[i]
      /\ \A i \in 1 .. Len(chunk) : chunk[i] = all[m + i]
  OBVIOUS
<1> HIDE DEF all
<1>2. Prefix(all, m) = begun
  <2>1. m \in 0 .. Len(all)
    BY <1>1
  <2> DEFINE p == Prefix(all, m)
  <2>2. p \in Seq(Byte) /\ Len(p) = m /\ \A i \in 1 .. m : p[i] = begun[i]
    BY <1>1, <2>1, PrefixFacts
  <2> HIDE DEF p
  <2>3. p = begun
    BY <2>2
  <2> QED
    BY <2>3 DEF p
<1>3. chunk = <<>> => all = begun
  <2> SUFFICES ASSUME chunk = <<>> PROVE all = begun
    OBVIOUS
  <2>1. Len(all) = m
    BY <1>1
  <2> QED
    BY <1>1, <2>1
<1>4. chunk # <<>> => m < Len(all)
  <2>1. chunk # <<>> => Len(chunk) > 0
    OBVIOUS
  <2> QED
    BY <1>1, <2>1
<1> QED
  BY <1>1, <1>2, <1>3, <1>4 DEF all

(* What mbrtowc answers and keeps, whatever the bytes and the state.        *)
IsAnswer(answer, begun, chunk) ==
  LET all == begun \o chunk
      first == FirstLength(all)
  IN \/ first = 0 /\ ~BeginsWellFormed(all) /\ answer = reset_state_and_fail
     \/ /\ first = 0 /\ BeginsWellFormed(all) /\ answer.result = INCOMPLETE
        /\ answer.state.bytes = all /\ answer.consumed = Len(chunk)
     \/ /\ first > 0
        /\ answer.result = IF all[1] = 0 THEN 0 ELSE first - Len(begun)
        /\ encode_utf8_scalar(answer.wide) = SubSeq(all, 1, first)
        /\ answer.state = Initial

LEMMA AnswerFacts ==
  ASSUME NEW st, NEW begun \in Seq(Byte), NEW chunk \in Seq(Byte),
         StateIsUsable(st), st.bytes = begun
  PROVE  IsAnswer(mbrtowc_with_state(st, chunk), begun, chunk)
<1> DEFINE acc == [bytes |-> st.bytes, expected_len |-> st.expected_len, consumed |-> 0,
                   failed |-> FALSE]
           end == ReadBytes(acc, chunk)
           all == begun \o chunk
           m == Len(begun)
           answer == mbrtowc_with_state(st, chunk)
           scalar == decode_utf8_scalar(end.bytes, end.expected_len)
           partial == [bytes |-> end.bytes, expected_len |-> end.expected_len, stray |-> FALSE]
<1>1. answer = IF chunk = <<>> THEN Answer(INCOMPLETE, INVALID, 0, st)
               ELSE IF end.failed THEN reset_state_and_fail
               ELSE IF Len(end.bytes) < end.expected_len
                    THEN Answer(INCOMPLETE, INVALID, end.consumed, partial)
               ELSE IF scalar = INVALID THEN reset_state_and_fail
               ELSE Answer(IF scalar = 0 THEN 0 ELSE end.consumed, scalar, end.consumed, Initial)
  BY DEF mbrtowc_with_state
<1>2. /\ Begun(begun)
      /\ st.expected_len = IF begun = <<>> THEN 0 ELSE LeadOf(begun)
  BY UsableIsBegun
<1>3. /\ all \in Seq(Byte) /\ m \in 0 .. Len(all) /\ Len(chunk) = Len(all) - m
      /\ \A i \in 1 .. Len(chunk) : chunk[i] = all[m + i]
      /\ Prefix(all, m) = begun
      /\ chunk = <<>> => all = begun
      /\ chunk # <<>> => m < Len(all)
  BY Joined
<1>4. Accumulates(acc, begun, 0)
  BY <1>2 DEF Accumulates
<1> HIDE DEF acc
<1>5. Finds(all, m, Len(all), end)
  <2> HIDE DEF all, m
  <2> QED
    BY <1>2, <1>3, <1>4, LoopFinds
<1> SUFFICES
      LET first == FirstLength(all)
      IN \/ /\ first = 0 /\ ~BeginsWellFormed(all) /\ answer = reset_state_and_fail
         \/ /\ first = 0 /\ BeginsWellFormed(all) /\ answer.result = INCOMPLETE
            /\ answer.state.bytes = all /\ answer.consumed = Len(chunk)
         \/ /\ first > 0
            /\ answer.result = IF all[1] = 0 THEN 0 ELSE first - m
            /\ encode_utf8_scalar(answer.wide) = SubSeq(all, 1, first)
            /\ answer.state = Initial
  BY DEF IsAnswer
<1> HIDE DEF all, m, answer, end
<1>6. Len(all) \in Nat /\ m \in Nat /\ Len(all) \in 0 .. Len(all) /\ Prefix(all, Len(all)) = all
  BY <1>3 DEF Prefix
<1>7. CASE chunk = <<>>
  <2>1. answer = Answer(INCOMPLETE, INVALID, 0, st) /\ all = begun /\ Len(chunk) = 0
    BY <1>1, <1>3, <1>7
  <2>2. BeginsWellFormed(all) /\ FirstLength(all) = 0
    BY <1>2, <2>1, BegunIsIncomplete
  <2> QED
    BY <2>1, <2>2 DEF Answer
<1>8. CASE chunk # <<>> /\ Refuses(all, m, Len(all), end)
  <2>1. PICK j \in m + 1 .. Len(all) : ~Fits(Prefix(all, j)) /\ Begun(Prefix(all, j - 1))
    BY <1>8 DEF Refuses
  <2>2. j \in 1 .. Len(all)
    BY <1>6
  <2>3. ~BeginsWellFormed(all) /\ FirstLength(all) = 0
    BY <1>3, <2>1, <2>2, RefusedIsIllFormed
  <2>4. answer = reset_state_and_fail
    BY <1>1, <1>8 DEF Refuses
  <2> QED
    BY <2>3, <2>4
<1>9. CASE chunk # <<>> /\ Continues(all, m, Len(all), end)
  <2>1. Accumulates(end, all, Len(all) - m) /\ Begun(all)
    BY <1>6, <1>9 DEF Continues
  <2>2. BeginsWellFormed(all) /\ FirstLength(all) = 0
    BY <1>3, <2>1, BegunIsIncomplete
  <2>3. all # <<>>
    BY <1>3, <1>6, <1>9
  <2>4. ~end.failed /\ end.bytes = all /\ end.consumed = Len(chunk) /\ Len(all) < end.expected_len
    BY <1>3, <2>1, <2>3 DEF Accumulates, Begun
  <2>5. answer = Answer(INCOMPLETE, INVALID, Len(chunk), partial) /\ partial.bytes = all
    BY <1>1, <1>9, <2>4
  <2> QED
    BY <2>2, <2>5 DEF Answer
<1>10. CASE chunk # <<>> /\ Completes(all, m, Len(all), end)
  <2>1. PICK k \in m + 1 .. Len(all) : /\ Accumulates(end, Prefix(all, k), k - m)
                                      /\ Fits(Prefix(all, k)) /\ LeadOf(all) = k
    BY <1>10 DEF Completes
  <2> DEFINE p == Prefix(all, k)
  <2>2. k \in 1 .. Len(all) /\ k \in 0 .. Len(all) /\ k # 0
    BY <1>6
  <2>3. FirstLength(all) = k
    BY <1>3, <2>1, <2>2, FirstLengthFacts
  <2>4. p \in Seq(Byte) /\ Len(p) = k /\ LeadOf(p) = k /\ p[1] = all[1] /\ p # <<>>
    <3>1. p \in Seq(Byte) /\ Len(p) = k /\ p[1] = all[1]
      BY <1>3, <2>2, PrefixFacts
    <3>2. LeadOf(p) = k
      BY <1>3, <2>1, <2>2, SameLead
    <3> HIDE DEF p
    <3> QED
      BY <2>2, <3>1, <3>2
  <2> HIDE DEF p
  <2>5. end.failed = FALSE /\ end.bytes = p /\ end.consumed = k - m /\ end.expected_len = k
    BY <2>1, <2>4 DEF Accumulates, p
  <2>6. scalar = decode_utf8_scalar(p, Len(p))
    BY <2>4, <2>5
  <2>7. scalar \in Nat /\ (scalar = 0 <=> all[1] = 0) /\ encode_utf8_scalar(scalar) = p
    BY <2>1, <2>4, <2>6, CompleteIsDecoded DEF p
  <2> HIDE DEF scalar
  <2>8. ~(Len(end.bytes) < end.expected_len) /\ scalar # INVALID
    BY <2>2, <2>4, <2>5, <2>7 DEF INVALID
  <2>9. answer = Answer(IF scalar = 0 THEN 0 ELSE k - m, scalar, k - m, Initial)
    BY <1>1, <1>10, <2>5, <2>8
  <2>10. /\ answer.result = IF scalar = 0 THEN 0 ELSE k - m
         /\ answer.wide = scalar /\ answer.state = Initial
    BY <2>9 DEF Answer
  <2>11. p = SubSeq(all, 1, k) /\ k > 0
    BY <2>2 DEF p, Prefix
  <2> QED
    BY <2>3, <2>7, <2>10, <2>11
<1> QED
  BY <1>5, <1>7, <1>8, <1>9, <1>10 DEF Finds

-----------------------------------------------------------------------------
(* Multibyte conversion: strings                                            *)

(* Where mbrtowc finds a character, it keeps nothing.                       *)
LEMMA FoundKeepsNothing ==
  ASSUME NEW st, NEW input, mbrtowc_with_state(st, input).result \notin {INVALID, INCOMPLETE}
  PROVE  mbrtowc_with_state(st, input).state = Initial
  BY DEF mbrtowc_with_state, Answer, reset_state_and_fail

\* The accumulator of a string conversion holds the state it was given, or none.
KeepsOrResets(st, acc) == "state" \in DOMAIN acc /\ acc.state \in {st, Initial}

LEMMA StringStepKeeps ==
  ASSUME NEW st, NEW source, NEW acc, KeepsOrResets(st, acc)
  PROVE  KeepsOrResets(st, StringStep(source, acc))
<1> DEFINE one == mbrtowc_with_state(acc.state, SubSeq(source, acc.next, Len(source)))
           a == StringStep(source, acc)
<1>1. one.result \notin {INVALID, INCOMPLETE} => one.state = Initial
  BY FoundKeepsNothing
<1> HIDE DEF one
<1>2. a = IF acc.done THEN acc
          ELSE IF one.result \in {INVALID, INCOMPLETE}
               THEN [acc EXCEPT !.done = TRUE, !.result = INVALID, !.state = Initial]
          ELSE IF one.result = 0
               THEN [acc EXCEPT !.done = TRUE, !.result = Len(acc.out), !.next = 0, !.state = one.state]
          ELSE [acc EXCEPT !.out = Append(@, one.wide), !.next = @ + one.consumed,
                           !.state = one.state, !.result = Len(acc.out) + 1]
  BY DEF StringStep, one
<1>3. "state" \in DOMAIN acc
  BY DEF KeepsOrResets
<1> HIDE DEF a
<1>4. CASE acc.done
  BY <1>2, <1>4 DEF a
<1>5. CASE ~acc.done /\ one.result \in {INVALID, INCOMPLETE}
  <2>1. "state" \in DOMAIN a /\ a.state = Initial
    BY <1>2, <1>3, <1>5
  <2> QED
    BY <2>1 DEF KeepsOrResets, a
<1>6. CASE ~acc.done /\ one.result \notin {INVALID, INCOMPLETE} /\ one.result = 0
  <2>1. "state" \in DOMAIN a /\ a.state = one.state
    BY <1>2, <1>3, <1>6
  <2> QED
    BY <1>1, <1>6, <2>1 DEF KeepsOrResets, a
<1>7. CASE ~acc.done /\ one.result \notin {INVALID, INCOMPLETE} /\ one.result # 0
  <2>1. "state" \in DOMAIN a /\ a.state = one.state
    BY <1>2, <1>3, <1>7
  <2> QED
    BY <1>1, <1>7, <2>1 DEF KeepsOrResets, a
<1> QED
  BY <1>4, <1>5, <1>6, <1>7

LEMMA ConvertStringKeeps ==
  ASSUME NEW st, NEW source, NEW limit \in Nat
  PROVE  KeepsOrResets(st, ConvertString(st, source, limit))
<1> DEFINE zero == [state |-> st, out |-> <<>>, next |-> 1, done |-> FALSE, result |-> 0]
           R(f, n) == [i \in 0 .. n |-> IF i = 0 THEN zero ELSE StringStep(source, f[i - 1])]
           Is(n) == \E f : f = R(f, n)
           Bad == {n \in 0 .. limit : ~Is(n)}
<1>1. KeepsOrResets(st, zero)
  BY DEF KeepsOrResets
<1>2. Is(0)
  <2> DEFINE f == [i \in 0 .. 0 |-> zero]
  <2>1. f = R(f, 0)
    OBVIOUS
  <2> QED
    BY <2>1
<1> HIDE DEF zero
<1>3. ASSUME NEW n \in 1 .. limit, Is(n - 1) PROVE Is(n)
  <2>1. PICK g : g = R(g, n - 1)
    BY <1>3
  <2> DEFINE f == [i \in 0 .. n |-> IF i = n THEN StringStep(source, g[n - 1]) ELSE g[i]]
  <2>2. n \in Nat /\ n # 0 /\ n - 1 \in 0 .. n /\ n - 1 \in 0 .. n - 1
    OBVIOUS
  <2>3. ASSUME NEW i \in 0 .. n PROVE f[i] = R(f, n)[i]
    <3>1. CASE i = n
      <4>1. f[n - 1] = g[n - 1] /\ f[i] = StringStep(source, g[n - 1])
        BY <2>2, <3>1
      <4>2. R(f, n)[i] = StringStep(source, f[n - 1])
        BY <2>2, <3>1
      <4> QED
        BY <4>1, <4>2
    <3>2. CASE i = 0
      <4>1. 0 \in 0 .. n - 1 /\ 0 # n
        BY <2>2
      <4>2. g[0] = zero
        BY <2>1, <4>1
      <4>3. f[i] = g[0] /\ R(f, n)[i] = zero
        BY <2>2, <3>2, <4>1
      <4> QED
        BY <4>2, <4>3
    <3>3. CASE i # n /\ i # 0
      <4>1. i \in 0 .. n - 1 /\ i - 1 \in 0 .. n /\ i - 1 # n
        BY <2>2, <3>3
      <4>2. g[i] = StringStep(source, g[i - 1])
        BY <2>1, <3>3, <4>1
      <4>3. f[i - 1] = g[i - 1] /\ f[i] = g[i]
        BY <3>3, <4>1
      <4>4. R(f, n)[i] = StringStep(source, f[i - 1])
        BY <3>3
      <4> QED
        BY <4>2, <4>3, <4>4
    <3> QED
      BY <3>1, <3>2, <3>3
  <2>4. f = R(f, n)
    BY <2>3
  <2> QED
    BY <2>4
<1>4. Is(limit)
  <2> HIDE DEF Is
  <2> SUFFICES ASSUME Bad # {} PROVE FALSE
    OBVIOUS
  <2>1. PICK n \in Bad : \A m \in Bad : n <= m
    <3>1. Bad \subseteq Nat
      OBVIOUS
    <3> HIDE DEF Bad
    <3> QED
      BY <3>1, LeastNatural
  <2>2. n \in 1 .. limit
    BY <1>2, <2>1
  <2>3. n - 1 \in 0 .. limit /\ n - 1 < n
    BY <2>2
  <2>4. Is(n - 1)
    BY <2>1, <2>3
  <2> QED
    BY <1>3, <2>1, <2>2, <2>4
<1> DEFINE f == CHOOSE converted : converted = R(converted, limit)
<1>5. f = R(f, limit)
  BY <1>4
<1>6. ConvertString(st, source, limit) = f[limit]
  BY DEF ConvertString, zero
<1> HIDE DEF f
<1> DEFINE Off == {i \in 0 .. limit : ~KeepsOrResets(st, f[i])}
<1>7. Off = {}
  <2> SUFFICES ASSUME Off # {} PROVE FALSE
    OBVIOUS
  <2>1. PICK n \in Off : \A m \in Off : n <= m
    <3>1. Off \subseteq Nat
      OBVIOUS
    <3> HIDE DEF Off
    <3> QED
      BY <3>1, LeastNatural
  <2>2. n # 0
    <3>1. f[0] = zero
      BY <1>5
    <3> QED
      BY <1>1, <2>1, <3>1
  <2>3. n - 1 \in 0 .. limit /\ n - 1 < n /\ n \in 0 .. limit
    BY <2>1, <2>2
  <2>4. KeepsOrResets(st, f[n - 1])
    BY <2>1, <2>3
  <2>5. f[n] = StringStep(source, f[n - 1])
    BY <1>5, <2>2, <2>3
  <2>6. KeepsOrResets(st, f[n])
    BY <2>4, <2>5, StringStepKeeps
  <2> QED
    BY <2>1, <2>6
<1> QED
  BY <1>6, <1>7

-----------------------------------------------------------------------------
(* Multibyte conversion: the states between calls                           *)

\* A state that the code would use holds the bytes begun since the last character.
MbIInv == StateIsUsable(mb_state) => mb_begun \in Seq(Byte) /\ mb_state.bytes = mb_begun

LEMMA ChunkFacts ==
  ASSUME NEW chunk \in Chunks
  PROVE  chunk \in Seq(Byte)
<1>1. PICK n \in 0 .. MaxChunk : chunk \in [1 .. n -> InputBytes]
  BY DEF Chunks
<1>2. n \in Nat /\ InputBytes \subseteq Byte
  BY MultibyteAssumption DEF Byte
<1>3. chunk \in [1 .. n -> Byte]
  BY <1>1, <1>2
<1> QED
  BY <1>2, <1>3

(* MbIInv gives the property: a call answers by the table whatever it reads. *)
LEMMA AnswersFromMbIInv ==
  ASSUME MbIInv
  PROVE  DecodingIsByTheTable
<1>1. ASSUME StateIsUsable(mb_state)
      PROVE  mb_state.bytes = mb_begun /\ BeginsWellFormed(mb_begun) /\ FirstLength(mb_begun) = 0
  <2>1. mb_begun \in Seq(Byte) /\ mb_state.bytes = mb_begun
    BY <1>1 DEF MbIInv
  <2>2. Begun(mb_begun)
    BY <1>1, <2>1, UsableIsBegun
  <2> QED
    BY <2>1, <2>2, BegunIsIncomplete
<1>2. ASSUME NEW chunk \in Chunks PROVE AnswersByTheTable(chunk)
  <2> DEFINE answer == mbrtowc_with_state(mb_state, chunk)
             all == mb_begun \o chunk
             first == FirstLength(all)
  <2>1. CASE ~StateIsUsable(mb_state)
    <3>1. answer = reset_state_and_fail
      BY <2>1 DEF mbrtowc_with_state
    <3> QED
      BY <2>1, <3>1 DEF AnswersByTheTable
  <2>2. CASE StateIsUsable(mb_state)
    <3>1. mb_begun \in Seq(Byte) /\ mb_state.bytes = mb_begun /\ chunk \in Seq(Byte)
      BY <2>2, ChunkFacts DEF MbIInv
    <3>2. IsAnswer(answer, mb_begun, chunk)
      BY <2>2, <3>1, AnswerFacts
    <3>3. \/ first = 0 /\ ~BeginsWellFormed(all) /\ answer = reset_state_and_fail
          \/ /\ first = 0 /\ BeginsWellFormed(all) /\ answer.result = INCOMPLETE
             /\ answer.state.bytes = all /\ answer.consumed = Len(chunk)
          \/ /\ first > 0
             /\ answer.result = IF all[1] = 0 THEN 0 ELSE first - Len(mb_begun)
             /\ encode_utf8_scalar(answer.wide) = SubSeq(all, 1, first)
             /\ answer.state = Initial
      BY <3>2 DEF IsAnswer
    <3>4. AnswersByTheTable(chunk) <=>
            IF first > 0
            THEN /\ answer.result = IF all[1] = 0 THEN 0 ELSE first - Len(mb_begun)
                 /\ encode_utf8_scalar(answer.wide) = SubSeq(all, 1, first)
                 /\ is_initial(answer.state)
            ELSE IF BeginsWellFormed(all)
            THEN answer.result = INCOMPLETE /\ answer.state.bytes = all
            ELSE answer.result = INVALID /\ is_initial(answer.state)
      BY <2>2 DEF AnswersByTheTable
    <3> HIDE DEF answer, all, first
    <3>5. CASE first = 0 /\ ~BeginsWellFormed(all) /\ answer = reset_state_and_fail
      BY <3>4, <3>5 DEF reset_state_and_fail, Answer, is_initial
    <3>6. CASE /\ first = 0 /\ BeginsWellFormed(all) /\ answer.result = INCOMPLETE
               /\ answer.state.bytes = all
      BY <3>4, <3>6
    <3>7. CASE /\ first > 0
               /\ answer.result = IF all[1] = 0 THEN 0 ELSE first - Len(mb_begun)
               /\ encode_utf8_scalar(answer.wide) = SubSeq(all, 1, first)
               /\ answer.state = Initial
      BY <3>4, <3>7 DEF is_initial
    <3> QED
      BY <3>3, <3>5, <3>6, <3>7
  <2> QED
    BY <2>1, <2>2
<1> QED
  BY <1>1, <1>2 DEF DecodingIsByTheTable

(* A call that keeps the state, or resets it, keeps MbIInv.                 *)
LEMMA KeepOrReset ==
  ASSUME MbIInv, NEW st, st \in {mb_state, Initial}, After(st, mb_begun)
  PROVE  MbIInv'
<1>1. mb_state' = st /\ mb_begun' = IF st = Initial THEN <<>> ELSE mb_begun
  BY DEF After, is_initial
<1>2. CASE st = Initial
  <2>1. mb_state'.bytes = <<>> /\ mb_begun' = <<>> /\ <<>> \in Seq(Byte)
    BY <1>1, <1>2 DEF Initial
  <2> QED
    BY <2>1 DEF MbIInv
<1>3. CASE st # Initial
  <2>1. mb_state' = mb_state /\ mb_begun' = mb_begun
    BY <1>1, <1>3
  <2> QED
    BY <2>1 DEF MbIInv, StateIsUsable
<1> QED
  BY <1>2, <1>3

LEMMA MbrtowcKeeps ==
  ASSUME MbIInv, NEW chunk \in Chunks, Mbrtowc(chunk)
  PROVE  MbIInv'
<1> DEFINE answer == mbrtowc_with_state(mb_state, chunk)
           all == mb_begun \o chunk
           read == mb_begun \o SubSeq(chunk, 1, answer.consumed)
<1>1. mb_state' = answer.state /\ mb_begun' = IF answer.state = Initial THEN <<>> ELSE read
  BY DEF Mbrtowc, After, is_initial
<1>2. chunk \in Seq(Byte)
  BY ChunkFacts
<1>3. \/ answer.state = Initial
      \/ /\ mb_begun \in Seq(Byte) /\ answer.state.bytes = all /\ answer.consumed = Len(chunk)
  <2>1. CASE ~StateIsUsable(mb_state)
    BY <2>1 DEF mbrtowc_with_state, reset_state_and_fail, Answer
  <2>2. CASE StateIsUsable(mb_state)
    <3>1. mb_begun \in Seq(Byte) /\ mb_state.bytes = mb_begun
      BY <2>2 DEF MbIInv
    <3>2. reset_state_and_fail.state = Initial
      BY DEF reset_state_and_fail, Answer
    <3>3. IsAnswer(answer, mb_begun, chunk)
      BY <1>2, <2>2, <3>1, AnswerFacts
    <3> HIDE DEF answer
    <3> QED
      BY <3>1, <3>2, <3>3 DEF IsAnswer
  <2> QED
    BY <2>1, <2>2
<1> HIDE DEF answer
<1>4. CASE answer.state = Initial
  <2>1. mb_state'.bytes = <<>> /\ mb_begun' = <<>> /\ <<>> \in Seq(Byte)
    BY <1>1, <1>4 DEF Initial
  <2> QED
    BY <2>1 DEF MbIInv
<1>5. CASE /\ answer.state # Initial
           /\ mb_begun \in Seq(Byte) /\ answer.state.bytes = all /\ answer.consumed = Len(chunk)
  <2>1. SubSeq(chunk, 1, Len(chunk)) = chunk
    BY <1>2
  <2>2. all \in Seq(Byte)
    BY <1>2, <1>5
  <2>3. mb_state'.bytes = all /\ mb_begun' = all
    BY <1>1, <1>5, <2>1
  <2> QED
    BY <2>2, <2>3 DEF MbIInv
<1> QED
  BY <1>3, <1>4, <1>5

LEMMA MbsrtowcsKeeps ==
  ASSUME MbIInv, NEW chunk \in Chunks, NEW capacity \in 0 .. 2, Mbsrtowcs(chunk, capacity)
  PROVE  MbIInv'
<1> DEFINE source == Append(chunk, 0)
<1>1. capacity \in Nat /\ Len(source) \in Nat
  BY ChunkFacts
<1> HIDE DEF source
<1>2. CASE After(mbsrtowcs(mb_state, source, capacity).state, mb_begun)
  <2>1. mbsrtowcs(mb_state, source, capacity).state \in {mb_state, Initial}
    BY <1>1, ConvertStringKeeps DEF mbsrtowcs, KeepsOrResets
  <2> QED
    BY <1>2, <2>1, KeepOrReset
<1>3. CASE After(CountOnly(mb_state, source).state, mb_begun)
  <2> DEFINE end == ConvertString(mb_state, source, Len(source))
  <2>1. "state" \in DOMAIN end /\ end.state \in {mb_state, Initial}
    BY <1>1, ConvertStringKeeps DEF KeepsOrResets
  <2>2. CountOnly(mb_state, source).state = end.state
    BY <2>1 DEF CountOnly
  <2> QED
    BY <1>3, <2>1, <2>2, KeepOrReset
<1> QED
  BY <1>2, <1>3 DEF Mbsrtowcs, source

LEMMA MbStepPreserves == MbIInv /\ [MbNext]_mb_vars => MbIInv'
<1> SUFFICES ASSUME MbIInv, [MbNext]_mb_vars PROVE MbIInv'
  OBVIOUS
<1>1. CASE \E chunk \in Chunks : Mbrtowc(chunk)
  BY <1>1, MbrtowcKeeps
<1>2. CASE \E chunk \in Chunks, capacity \in 0 .. 2 : Mbsrtowcs(chunk, capacity)
  BY <1>2, MbsrtowcsKeeps
<1>3. ASSUME NEW wc \in WideChars, Wcrtomb(wc) PROVE MbIInv'
  <2>1. wcrtomb(mb_state, wc).state = Initial
    BY DEF wcrtomb
  <2> QED
    BY <1>3, <2>1, KeepOrReset DEF Wcrtomb
<1>4. ASSUME NEW capacity \in 0 .. 1, Wcsrtombs(capacity) PROVE MbIInv'
  <2>1. wcsrtombs(mb_state, <<0>>, capacity).state \in {mb_state, Initial}
    BY DEF wcsrtombs
  <2> QED
    BY <1>4, <2>1, KeepOrReset DEF Wcsrtombs
<1>5. CASE ResetState
  <2>1. mb_state'.bytes = <<>> /\ mb_begun' = <<>> /\ <<>> \in Seq(Byte)
    BY <1>5 DEF ResetState, After, is_initial, Initial
  <2> QED
    BY <2>1 DEF MbIInv
<1>6. ASSUME NEW st \in StrayStates, PassStray(st) PROVE MbIInv'
  <2>1. mb_state' = st /\ ~StateIsUsable(st)
    BY <1>6, MultibyteAssumption DEF PassStray
  <2>2. ~StateIsUsable(mb_state)'
    BY <2>1 DEF StateIsUsable
  <2> QED
    BY <2>2 DEF MbIInv
<1>7. CASE UNCHANGED mb_vars
  BY <1>7 DEF mb_vars, MbIInv, StateIsUsable
<1> QED
  BY <1>1, <1>2, <1>3, <1>4, <1>5, <1>6, <1>7 DEF MbNext

(* However a text is cut into calls, mbrtowc and its relatives answer by the *)
(* table of well-formed sequences, and keep exactly the bytes begun.        *)
THEOREM DecodedByTheTable == MbSpec => []DecodingIsByTheTable
<1>1. MbInit => MbIInv
  BY DEF MbInit, MbIInv, Initial
<1>2. MbIInv /\ [MbNext]_mb_vars => MbIInv'
  BY MbStepPreserves
<1>3. MbIInv => DecodingIsByTheTable
  BY AnswersFromMbIInv
<1> QED
  BY <1>1, <1>2, <1>3, PTL DEF MbSpec
=============================================================================
