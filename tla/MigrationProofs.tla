--------------------------- MODULE MigrationProofs --------------------------
(***************************************************************************)
(* Theorems about a migration, for any host, any questions left            *)
(* unanswered, any edits and any number of renderings.                     *)
(*                                                                         *)
(* The argument: each section of the snapshot is a list whose elements     *)
(* have the fields that redaction and renderers read (MigrationInv), so    *)
(* each mark matched becomes one of a keyword less, where nothing matches  *)
(* nothing changes, and the writers write what was redacted.               *)
(* The snapshot is like what the inspectors found (InspectedInv), and the  *)
(* build is some way into the Containerfile of it, with the image that     *)
(* this beginning makes (PlaceInv, ContentInv, UnitsInv): WholeInv.        *)
(***************************************************************************)
EXTENDS MigrationProperties, DataInduction, SequenceTheorems

\* A list, of whatever it is.
IsList(s) == \E n \in Nat : s \in [1..n -> ToSet(s)]

LEMMA ListsAreSequences ==
    ASSUME NEW s
    PROVE  IsList(s) <=> s \in Seq(ToSet(s))
<1>1. ASSUME IsList(s) PROVE s \in Seq(ToSet(s))
    BY <1>1, SeqDef DEF IsList
<1>2. ASSUME s \in Seq(ToSet(s)) PROVE IsList(s)
    BY <1>2, LenProperties DEF IsList
<1> QED BY <1>1, <1>2

LEMMA ListFacts ==
    ASSUME NEW s, IsList(s)
    PROVE  /\ Len(s) \in Nat /\ DOMAIN s = 1..Len(s) /\ s = [i \in 1..Len(s) |-> s[i]]
           /\ IsFiniteSet(DOMAIN s) /\ s \in Seq(ToSet(s))
           /\ s # <<>> <=> Len(s) # 0
<1>1. s \in Seq(ToSet(s))
    BY ListsAreSequences
<1>2. Len(s) \in Nat /\ DOMAIN s = 1..Len(s) /\ s = [i \in 1..Len(s) |-> s[i]]
    BY <1>1, LenProperties
<1>3. IsFiniteSet(1..Len(s))
    BY <1>2, FS_Interval
<1> QED BY <1>1, <1>2, <1>3

LEMMA ListOf ==
    ASSUME NEW n \in Nat, NEW s, s = [i \in 1..n |-> s[i]]
    PROVE  IsList(s) /\ Len(s) = n
<1>1. DOMAIN s = 1..n
    OBVIOUS
<1>2. s \in [1..n -> ToSet(s)]
    BY <1>1 DEF ToSet
<1> QED BY <1>1, <1>2, ListFacts DEF IsList

LEMMA SeqIsList ==
    ASSUME NEW S, NEW s \in Seq(S)
    PROVE  IsList(s) /\ ToSet(s) \subseteq S
BY LenProperties, ListOf DEF ToSet

LEMMA EmptyList == IsList(<<>>) /\ Len(<<>>) = 0 /\ ToSet(<<>>) = {}
<1>1. <<>> = [i \in 1..0 |-> <<>>[i]] /\ DOMAIN <<>> = {}
    OBVIOUS
<1>2. IsList(<<>>) /\ Len(<<>>) = 0
    BY <1>1, ListOf
<1> QED BY <1>1, <1>2 DEF ToSet

LEMMA SameList ==
    ASSUME NEW s, NEW t, IsList(s), IsList(t), Len(s) = Len(t), \A i \in 1..Len(s) : s[i] = t[i]
    PROVE  s = t
BY ListFacts

LEMMA Concatenation ==
    ASSUME NEW s, NEW t, IsList(s), IsList(t)
    PROVE  /\ IsList(s \o t) /\ Len(s \o t) = Len(s) + Len(t)
           /\ ToSet(s \o t) = ToSet(s) \cup ToSet(t)
           /\ \A i \in 1..Len(s) : (s \o t)[i] = s[i]
           /\ \A i \in 1..Len(t) : (s \o t)[Len(s) + i] = t[i]
<1> DEFINE S == ToSet(s) \cup ToSet(t)
<1>1. s \in Seq(S) /\ t \in Seq(S)
    <2>1. s \in Seq(ToSet(s)) /\ t \in Seq(ToSet(t))
        BY ListsAreSequences
    <2> QED BY <2>1, SeqMonotonic
<1> HIDE DEF S
<1>2. /\ s \o t \in Seq(S) /\ Len(s \o t) = Len(s) + Len(t)
      /\ \A i \in 1 .. Len(s) + Len(t) : (s \o t)[i] =
                     IF i <= Len(s) THEN s[i] ELSE t[i - Len(s)]
    BY <1>1, ConcatProperties
<1>3. IsList(s \o t) /\ ToSet(s \o t) \subseteq S
    BY <1>2, SeqIsList
<1>4. /\ Len(s) \in Nat /\ DOMAIN s = 1..Len(s) /\ Len(t) \in Nat /\ DOMAIN t = 1..Len(t)
      /\ DOMAIN (s \o t) = 1..(Len(s) + Len(t))
    BY <1>2, <1>3, ListFacts
<1>5. \A i \in 1..Len(s) : i \in DOMAIN (s \o t) /\ (s \o t)[i] = s[i]
    BY <1>2, <1>4
<1>6. \A i \in 1..Len(t) : Len(s) + i \in DOMAIN (s \o t) /\ (s \o t)[Len(s) + i] = t[i]
    BY <1>2, <1>4
<1>7. S \subseteq ToSet(s \o t)
    BY <1>4, <1>5, <1>6 DEF S, ToSet
<1> QED BY <1>2, <1>3, <1>5, <1>6, <1>7 DEF S

LEMMA ConcatEmpty ==
    ASSUME NEW s, IsList(s)
    PROVE  s \o <<>> = s /\ <<>> \o s = s
BY ListsAreSequences, ConcatEmptySeq

(* The places of a selection are numbered in their order.                  *)
Rank(places, n) == Cardinality({m \in places : m <= n})

LEMMA RanksAreNumbers ==
    ASSUME NEW places \in SUBSET Nat, IsFiniteSet(places)
    PROVE  /\ \A n \in places : Rank(places, n) \in 1..Cardinality(places)
           /\ \A n, m \in places : Rank(places, n) = Rank(places, m) => n = m
           /\ \A i \in 1..Cardinality(places) : \E n \in places : Rank(places, n) = i
<1> DEFINE upto(n) == {m \in places : m <= n}
<1>1. \A n \in places : IsFiniteSet(upto(n)) /\ Cardinality(upto(n)) \in Nat
                        /\ Cardinality(upto(n)) <= Cardinality(places)
    <2>1. \A n \in places : upto(n) \in SUBSET places
        OBVIOUS
    <2> HIDE DEF upto
    <2> QED BY <2>1, FS_Subset, FS_CardinalityType
<1>2. Cardinality(places) \in Nat
    BY FS_CardinalityType
<1>3. \A n \in places : Cardinality(upto(n)) \in 1..Cardinality(places)
    <2>1. \A n \in places : n \in upto(n)
        OBVIOUS
    <2>2. \A n \in places : Cardinality(upto(n)) # 0
        <3> HIDE DEF upto
        <3> QED BY <1>1, <2>1, FS_EmptySet
    <2> HIDE DEF upto
    <2> QED BY <1>1, <1>2, <2>2
<1>4. ASSUME NEW n \in places, NEW m \in places, Cardinality(upto(n)) = Cardinality(upto(m))
      PROVE  n = m
    <2>1. n \in Nat /\ m \in Nat
        OBVIOUS
    <2>2. CASE n <= m
        <3>1. upto(n) \in SUBSET upto(m)
            <4>1. \A x \in places : x \in Nat
                OBVIOUS
            <4>2. \A x \in places : x <= n => x <= m
                BY <2>1, <2>2, <4>1
            <4> QED BY <4>2
        <3>2. upto(n) = upto(m)
            <4> HIDE DEF upto
            <4> QED BY <1>1, <1>4, <3>1, FS_Subset
        <3>3. m \in upto(n)
            BY <2>1, <3>2
        <3> QED BY <2>1, <2>2, <3>3
    <2>3. CASE m <= n
        <3>1. upto(m) \in SUBSET upto(n)
            <4>1. \A x \in places : x \in Nat
                OBVIOUS
            <4>2. \A x \in places : x <= m => x <= n
                BY <2>1, <2>3, <4>1
            <4> QED BY <4>2
        <3>2. upto(n) = upto(m)
            <4> HIDE DEF upto
            <4> QED BY <1>1, <1>4, <3>1, FS_Subset
        <3>3. n \in upto(m)
            BY <2>1, <3>2
        <3> QED BY <2>1, <2>3, <3>3
    <2> QED BY <2>1, <2>2, <2>3
<1>5. \A i \in 1..Cardinality(places) : \E n \in places : Cardinality(upto(n)) = i
    <2> DEFINE f == [n \in places |-> Cardinality(upto(n))]
    <2>1. f \in Injection(places, 1..Cardinality(places))
        <3> HIDE DEF upto
        <3> QED BY <1>3, <1>4 DEF Injection, IsInjective
    <2>2. IsFiniteSet(1..Cardinality(places)) /\ Cardinality(1..Cardinality(places)) = Cardinality(places)
        BY <1>2, FS_Interval
    <2> HIDE DEF f
    <2>3. f \in Surjection(places, 1..Cardinality(places))
        BY <2>1, <2>2, FS_Injection
    <2> QED BY <2>3 DEF Surjection, f
<1> QED BY <1>3, <1>4, <1>5 DEF Rank

LEMMA RankGrows ==
    ASSUME NEW places \in SUBSET Nat, IsFiniteSet(places), NEW n \in places, NEW m \in places, n <= m
    PROVE  Rank(places, n) \in Nat /\ Rank(places, m) \in Nat /\ Rank(places, n) <= Rank(places, m)
<1>1. PICK a, b : a = {x \in places : x <= n} /\ b = {x \in places : x <= m}
    OBVIOUS
<1>2. a \subseteq b
    <2>1. \A x \in places : x \in Nat /\ n \in Nat /\ m \in Nat
        OBVIOUS
    <2>2. \A x \in places : x <= n => x <= m
        BY <2>1
    <2> QED BY <1>1, <2>2
<1>3. b \subseteq places
    BY <1>1
<1>4. IsFiniteSet(a) /\ IsFiniteSet(b)
    BY <1>2, <1>3, FS_Subset
<1>5. Cardinality(a) \in Nat /\ Cardinality(b) \in Nat /\ Cardinality(a) <= Cardinality(b)
    BY <1>2, <1>4, FS_Subset, FS_CardinalityType
<1> QED BY <1>1, <1>5 DEF Rank

(* What is picked from a list is a list of just the elements picked, the   *)
(* first of them first.                                                    *)
LEMMA PickedFacts ==
    ASSUME NEW list, IsList(list), NEW places \in SUBSET DOMAIN list
    PROVE  /\ IsList(Picked(list, places)) /\ Len(Picked(list, places)) = Cardinality(places)
           /\ IsFiniteSet(places) /\ Cardinality(places) \in Nat
           /\ ToSet(Picked(list, places)) = {list[n] : n \in places}
           /\ Picked(list, places) = <<>> <=> places = {}
           /\ \A n \in places : (\A m \in places : n <= m) => Picked(list, places)[1] = list[n]
<1> DEFINE at(i) == CHOOSE n \in places : Rank(places, n) = i
           p == Picked(list, places)
<1>1. /\ IsFiniteSet(places) /\ Cardinality(places) \in Nat /\ places \in SUBSET Nat
    BY ListFacts, FS_Subset, FS_CardinalityType
<1>2. p = [i \in 1..Cardinality(places) |-> list[at(i)]]
    BY DEF Picked, Rank
<1>3. IsList(p) /\ Len(p) = Cardinality(places) /\ DOMAIN p = 1..Cardinality(places)
    <2>1. p = [i \in 1..Cardinality(places) |-> p[i]]
        BY <1>2
    <2> HIDE DEF p
    <2> QED BY <1>1, <2>1, ListOf
<1>4. \A i \in 1..Cardinality(places) : at(i) \in places /\ Rank(places, at(i)) = i
    BY <1>1, RanksAreNumbers
<1>5. \A n \in places : Rank(places, n) \in 1..Cardinality(places) /\ at(Rank(places, n)) = n
    BY <1>1, <1>4, RanksAreNumbers
<1>6. \A i \in 1..Cardinality(places) : p[i] = list[at(i)]
    BY <1>2
<1>7. ToSet(p) = {list[n] : n \in places}
    <2> HIDE DEF p, at
    <2> QED BY <1>3, <1>4, <1>5, <1>6 DEF ToSet
<1>8. p = <<>> <=> places = {}
    <2> HIDE DEF p
    <2> QED BY <1>1, <1>3, ListFacts, FS_EmptySet
<1>9. ASSUME NEW n \in places, \A m \in places : n <= m PROVE p[1] = list[n]
    <2>1. {m \in places : m <= n} = {n}
        BY <1>1, <1>9
    <2>2. Rank(places, n) = 1
        BY <2>1, FS_Singleton DEF Rank
    <2>3. 1 \in 1..Cardinality(places) /\ at(1) = n
        BY <1>5, <2>2
    <2> QED BY <1>6, <2>3
<1> QED BY <1>1, <1>3, <1>7, <1>8, <1>9

(* A list of lists is put together one list after the other.               *)
LEMMA FlattenSteps ==
    ASSUME NEW seqs, IsList(seqs), Len(seqs) # 0
    PROVE  \E F : /\ FlattenSeq(seqs) = F[Len(seqs)] /\ F[1] = seqs[1]
                  /\ \A i \in 1..Len(seqs) : i # 1 => F[i] = F[i - 1] \o seqs[i]
<1> DEFINE N == Len(seqs)
           step(f, i) == IF i = 1 THEN seqs[i] ELSE f[i - 1] \o seqs[i]
           F == CHOOSE f : f = [i \in 1..N |-> step(f, i)]
<1>1. N \in Nat /\ DOMAIN seqs = 1..N
    BY ListFacts
<1> HIDE DEF N
<1>2. FlattenSeq(seqs) = F[N]
    BY DEF FlattenSeq, N
<1> DEFINE P == {n \in Nat : \E f : f = [i \in 1..n |-> step(f, i)]}
<1>3. \A n \in Nat : n \in P
    <2>1. 0 \in P
        <3>1. <<>> = [i \in 1..0 |-> step(<<>>, i)]
            OBVIOUS
        <3> QED BY <3>1
    <2>2. ASSUME NEW n \in Nat, n \in P PROVE n + 1 \in P
        <3>1. PICK f : f = [i \in 1..n |-> step(f, i)]
            BY <2>2
        <3> DEFINE g == [i \in 1..(n + 1) |-> IF i <= n THEN f[i] ELSE step(f, n + 1)]
        <3>2. \A i \in 1..n : g[i] = f[i] /\ f[i] = step(f, i)
            <4> HIDE DEF step
            <4> QED BY <3>1
        <3>3. \A i \in 1..(n + 1) : i # 1 => i - 1 \in 1..n
            OBVIOUS
        <3>4. \A i \in 1..(n + 1) : step(f, i) = step(g, i)
            BY <3>2, <3>3
        <3>5. \A i \in 1..(n + 1) : i \notin 1..n => i = n + 1 /\ ~(i <= n)
            OBVIOUS
        <3>6. \A i \in 1..(n + 1) : g[i] = step(g, i)
            <4> HIDE DEF step
            <4> QED BY <3>2, <3>4, <3>5
        <3>7. g = [i \in 1..(n + 1) |-> step(g, i)]
            <4> HIDE DEF step
            <4> QED BY <3>6
        <3> HIDE DEF g, step
        <3> QED BY <3>7
    <2> HIDE DEF P
    <2> QED BY <2>1, <2>2, NatSetInduction
<1>4. F = [i \in 1..N |-> step(F, i)]
    <2>1. \E f : f = [i \in 1..N |-> step(f, i)]
        BY <1>1, <1>3 DEF N
    <2> HIDE DEF step
    <2> QED BY <2>1
<1>5. \A i \in 1..N : F[i] = step(F, i)
    <2> HIDE DEF step, F
    <2> QED BY <1>4
<1>6. 1 \in 1..N
    BY <1>1 DEF N
<1> HIDE DEF F
<1> QED BY <1>2, <1>5, <1>6 DEF N

(* The elements of a list of lists, one after the other.                   *)
LEMMA FlattenFacts ==
    ASSUME NEW seqs, IsList(seqs), \A i \in DOMAIN seqs : IsList(seqs[i])
    PROVE  /\ IsList(FlattenSeq(seqs))
           /\ ToSet(FlattenSeq(seqs)) = UNION {ToSet(seqs[i]) : i \in DOMAIN seqs}
<1> DEFINE N == Len(seqs)
           Upto(n) == UNION {ToSet(seqs[i]) : i \in 1..n}
<1>1. N \in Nat /\ DOMAIN seqs = 1..N
    BY ListFacts
<1>2. CASE N = 0
    <2>1. seqs = <<>> /\ FlattenSeq(seqs) = seqs
        BY <1>2, ListFacts DEF FlattenSeq
    <2> QED BY <1>1, <1>2, <2>1, EmptyList
<1>3. CASE N # 0
    <2> HIDE DEF N
    <2>1. PICK F : /\ FlattenSeq(seqs) = F[N] /\ F[1] = seqs[1]
                   /\ \A i \in 1..N : i # 1 => F[i] = F[i - 1] \o seqs[i]
        BY <1>3, FlattenSteps DEF N
    <2> DEFINE Q == {n \in Nat : n + 1 <= N => IsList(F[n + 1]) /\ ToSet(F[n + 1]) = Upto(n + 1)}
    <2>5. 0 \in Q
        <3>1. CASE 1 <= N
            <4>1. 1 \in 1..N /\ F[1] = seqs[1]
                BY <1>1, <2>1, <3>1 DEF N
            <4>2. 1..1 = {1}
                OBVIOUS
            <4> QED BY <1>1, <4>1, <4>2 DEF N
        <3> QED BY <3>1
    <2>6. ASSUME NEW n \in Nat, n \in Q PROVE n + 1 \in Q
        <3>1. SUFFICES ASSUME (n + 1) + 1 <= N
                       PROVE  IsList(F[(n + 1) + 1]) /\ ToSet(F[(n + 1) + 1]) = Upto((n + 1) + 1)
            OBVIOUS
        <3>2. n + 1 <= N /\ (n + 1) + 1 \in 1..N /\ (n + 1) + 1 # 1 /\ ((n + 1) + 1) - 1 = n + 1
            BY <1>1, <3>1 DEF N
        <3>3. F[(n + 1) + 1] = F[n + 1] \o seqs[(n + 1) + 1]
            BY <2>1, <3>2
        <3>4. IsList(F[n + 1]) /\ ToSet(F[n + 1]) = Upto(n + 1) /\ IsList(seqs[(n + 1) + 1])
            BY <1>1, <2>6, <3>2 DEF N
        <3>5. IsList(F[(n + 1) + 1])
              /\ ToSet(F[(n + 1) + 1]) = Upto(n + 1) \cup ToSet(seqs[(n + 1) + 1])
            BY <3>3, <3>4, Concatenation
        <3>6. \A i : i \in 1..((n + 1) + 1) <=> i \in 1..(n + 1) \/ i = (n + 1) + 1
            OBVIOUS
        <3>7. Upto((n + 1) + 1) = Upto(n + 1) \cup ToSet(seqs[(n + 1) + 1])
            BY <3>6
        <3> QED BY <3>5, <3>7
    <2>7. \A n \in Nat : n \in Q
        <3> HIDE DEF Q
        <3> QED BY <2>5, <2>6, NatSetInduction
    <2>8. N - 1 \in Nat /\ (N - 1) + 1 = N
        BY <1>1, <1>3 DEF N
    <2>9. IsList(F[N]) /\ ToSet(F[N]) = Upto(N)
        BY <2>7, <2>8
    <2> QED BY <1>1, <2>1, <2>9 DEF N
<1> QED BY <1>2, <1>3
-----------------------------------------------------------------------------
(* The snapshot                                                            *)

Lists == {"packages", "config", "repo_files", "gpg_keys", "drop_ins", "connections",
          "firewall_zones", "direct_rules", "generated_timer_units", "systemd_timers",
          "quadlet_units", "items", "env_files", "snippets", "tuned_profiles",
          "sysctl_overrides", "cmdline", "users", "groups", "shadow_entries", "redactions"}

Parts == Lists \cup {"state_changes", "enabled_units", "disabled_units"}

(* What the elements of a section have for fields, as far as it matters.   *)
Fields(d) ==
    CASE d \in {"config", "repo_files", "gpg_keys", "firewall_zones", "drop_ins", "quadlet_units",
                "env_files", "snippets", "tuned_profiles"} -> {"path", "text", "include"}
      [] d = "generated_timer_units" ->
            {"name", "timer_content", "service_content", "command", "include"}
      [] d = "systemd_timers" -> {"name", "timer_content", "service_content"}
      [] d = "items" -> {"path", "method", "files", "content", "pip", "include"}
      [] d = "packages" -> {"name", "include"}
      [] d = "direct_rules" -> {"rule", "include"}
      [] d = "sysctl_overrides" -> {"key", "include"}
      [] d = "users" -> {"name", "gid", "home", "strategy", "include"}
      [] d = "groups" -> {"name", "gid", "strategy", "include"}
      [] d = "connections" -> {"path", "method"}
      [] d = "shadow_entries" -> {"name", "hash"}
      [] OTHER -> {}

LEMMA FieldsAre ==
    /\ \A d \in {"config", "repo_files", "gpg_keys", "firewall_zones", "drop_ins", "quadlet_units",
                 "env_files", "snippets", "tuned_profiles"} : Fields(d) = {"path", "text", "include"}
    /\ Fields("generated_timer_units") =
            {"name", "timer_content", "service_content", "command", "include"}
    /\ Fields("systemd_timers") = {"name", "timer_content", "service_content"}
    /\ Fields("items") = {"path", "method", "files", "content", "pip", "include"}
    /\ Fields("packages") = {"name", "include"}
    /\ Fields("direct_rules") = {"rule", "include"}
    /\ Fields("sysctl_overrides") = {"key", "include"}
    /\ Fields("users") = {"name", "gid", "home", "strategy", "include"}
    /\ Fields("groups") = {"name", "gid", "strategy", "include"}
    /\ Fields("connections") = {"path", "method"}
    /\ Fields("shadow_entries") = {"name", "hash"}
    /\ Fields("cmdline") = {} /\ Fields("redactions") = {}
BY DEF Fields

(* A list of records with such fields.                                     *)
Records(list, fields) == IsList(list) /\ \A x \in ToSet(list) : fields \subseteq DOMAIN x

(* Every section but those of units is a list of its records.              *)
IsSnapshot(s) == s = [d \in Parts |-> s[d]] /\ \A d \in Lists : Records(s[d], Fields(d))

LEMMA EmptyRecords == ASSUME NEW F PROVE Records(<<>>, F)
BY EmptyList DEF Records

LEMMA EmptyIsSnapshot == IsSnapshot(EmptySnapshot)
<1>1. \A d \in Lists : EmptySnapshot[d] = <<>>
    BY DEF Lists, EmptySnapshot
<1>2. DOMAIN EmptySnapshot = Parts
    BY DEF Parts, Lists, EmptySnapshot
<1>3. EmptySnapshot = [d \in DOMAIN EmptySnapshot |-> EmptySnapshot[d]]
    BY DEF EmptySnapshot
<1> QED BY <1>1, <1>2, <1>3, EmptyRecords DEF IsSnapshot

LEMMA SnapshotWith ==
    ASSUME NEW s, IsSnapshot(s), NEW t, t = [d \in Parts |-> t[d]],
           \A d \in Lists : t[d] = s[d] \/ Records(t[d], Fields(d))
    PROVE  IsSnapshot(t)
BY DEF IsSnapshot

(* One element for each element of a list.                                 *)
LEMMA MapFacts ==
    ASSUME NEW list, IsList(list), NEW t, t = [i \in DOMAIN list |-> t[i]]
    PROVE  IsList(t) /\ Len(t) = Len(list) /\ DOMAIN t = DOMAIN list
BY ListFacts, ListOf

LEMMA MapRecords ==
    ASSUME NEW list, IsList(list), NEW t, t = [i \in DOMAIN list |-> t[i]],
           NEW F, \A i \in DOMAIN list : F \subseteq DOMAIN t[i]
    PROVE  Records(t, F)
BY MapFacts DEF Records, ToSet

LEMMA ConcatRecords ==
    ASSUME NEW F, NEW s, NEW t, Records(s, F), Records(t, F)
    PROVE  Records(s \o t, F)
BY Concatenation DEF Records

LEMMA PickedRecords ==
    ASSUME NEW F, NEW list, Records(list, F), NEW places \in SUBSET DOMAIN list
    PROVE  Records(Picked(list, places), F) /\ ToSet(Picked(list, places)) \subseteq ToSet(list)
<1>1. IsList(Picked(list, places)) /\ ToSet(Picked(list, places)) = {list[n] : n \in places}
    BY PickedFacts DEF Records
<1>2. \A n \in places : list[n] \in ToSet(list)
    BY DEF ToSet
<1> QED BY <1>1, <1>2 DEF Records

LEMMA FlattenRecords ==
    ASSUME NEW seqs, IsList(seqs), NEW F, \A i \in DOMAIN seqs : Records(seqs[i], F)
    PROVE  Records(FlattenSeq(seqs), F)
BY FlattenFacts DEF Records

LEMMA ListsOfHost ==
    ASSUME NEW h \in Hosts
    PROVE  /\ \A list \in HostLists : IsList(h[list])
           /\ \A p \in DOMAIN h.crontabs : IsList(h.crontabs[p])
           /\ IsList(h.files) /\ IsList(h.packages) /\ IsList(h.direct) /\ IsList(h.sysctl)
           /\ IsList(h.cmdline) /\ IsList(h.apps) /\ IsList(h.dists) /\ IsList(h.users) /\ IsList(h.groups)
           /\ IsList(h.shadow)
           /\ \A i \in DOMAIN h.files : IsCrontab(h.files[i]) => h.files[i].path \in DOMAIN h.crontabs
           /\ \A i \in DOMAIN h.apps : IsList(h.apps[i].locks)
<1>1. \A list \in HostLists : IsList(h[list])
    BY HostAssumption, ListsAreSequences
<1>2. \A p \in DOMAIN h.crontabs : IsList(h.crontabs[p])
    BY HostAssumption, ListsAreSequences
<1>3. \A i \in DOMAIN h.apps : IsList(h.apps[i].locks)
    BY HostAssumption, ListsAreSequences
<1> QED BY <1>1, <1>2, <1>3, HostAssumption DEF HostLists

LEMMA ItemsFacts ==
    ASSUME NEW files, IsList(files)
    PROVE  Records(Items(files), {"path", "text", "include"})
<1>1. Items(files) = [i \in DOMAIN files |-> Items(files)[i]]
    BY DEF Items
<1>2. \A i \in DOMAIN files : {"path", "text", "include"} \subseteq DOMAIN Items(files)[i]
    BY DEF Items, Item
<1> QED BY <1>1, <1>2, MapRecords

LEMMA FilesInFacts ==
    ASSUME NEW h \in Hosts, NEW dir, NEW suffixes
    PROVE  Records(Items(FilesIn(h, dir, suffixes)), {"path", "text", "include"})
<1>1. IsList(FilesIn(h, dir, suffixes))
    BY ListsOfHost, PickedFacts DEF FilesIn, Select
<1> QED BY <1>1, ItemsFacts

LEMMA ConfigSnapshot ==
    ASSUME NEW s, IsSnapshot(s), NEW h \in Hosts, NEW owned, NEW undiffed
    PROVE  IsSnapshot(RunConfig(s, h, owned, undiffed))
<1> DEFINE t == RunConfig(s, h, owned, undiffed)
           entries(files, kind, notes) ==
            [i \in DOMAIN files |->
                ConfigFileEntry(files[i].path, kind, Captured(files[i], notes))]
           modified == Select(h.files, LAMBDA f : f.modified)
<1>1. IsList(InEtc(h)) /\ IsList(modified)
    BY ListsOfHost, PickedFacts DEF InEtc, Select
<1>2. IsList(Unowned(h, owned)) /\ IsList(Orphaned(h, owned))
    BY <1>1, PickedFacts DEF Unowned, Orphaned, Select
<1>3. ASSUME NEW files, IsList(files), NEW kind, NEW notes
      PROVE  Records(entries(files, kind, notes), {"path", "text", "include"})
    <2>1. entries(files, kind, notes) = [i \in DOMAIN files |-> entries(files, kind, notes)[i]]
        OBVIOUS
    <2>2. \A i \in DOMAIN files :
            {"path", "text", "include"} \subseteq DOMAIN entries(files, kind, notes)[i]
        BY DEF ConfigFileEntry
    <2> HIDE DEF entries
    <2> QED BY <1>3, <2>1, <2>2, MapRecords
<1>4. t = [s EXCEPT !.config = entries(modified, "rpm_owned_modified", undiffed)
                                \o entries(Unowned(h, owned), "unowned", {})
                                \o entries(Orphaned(h, owned), "orphaned", {})]
    BY DEF RunConfig
<1> HIDE DEF t, entries, modified
<1>5. Records(t.config, {"path", "text", "include"})
    <2>1. t.config = entries(modified, "rpm_owned_modified", undiffed)
                                \o entries(Unowned(h, owned), "unowned", {})
                                \o entries(Orphaned(h, owned), "orphaned", {})
        BY <1>4 DEF IsSnapshot, Parts, Lists
    <2> QED BY <1>1, <1>2, <1>3, <2>1, ConcatRecords
<1>6. t = [d \in Parts |-> t[d]] /\ \A d \in Lists : t[d] = s[d] \/ Records(t[d], Fields(d))
    BY <1>4, <1>5, FieldsAre DEF IsSnapshot, Parts, Lists
<1> QED BY <1>6, SnapshotWith DEF t

LEMMA ReposSnapshot ==
    ASSUME NEW s, IsSnapshot(s), NEW h \in Hosts
    PROVE  IsSnapshot(RunRepos(s, h))
<1> DEFINE t == RunRepos(s, h)
           repos == Select(h.files, IsRepoFile)
           keys  == Select(h.files, LAMBDA f : f.path.dir = "pki/rpm-gpg" /\ f.path \in h.gpgkeys)
<1>1. IsList(repos) /\ IsList(keys)
    BY ListsOfHost, PickedFacts DEF Select
<1>2. t = [s EXCEPT !.repo_files = Items(repos), !.gpg_keys = Items(keys)]
    BY DEF RunRepos
<1> HIDE DEF t, repos, keys
<1>3. \A files \in {repos, keys} : Records(Items(files), {"path", "text", "include"})
    BY <1>1, ItemsFacts
<1>4. t = [d \in Parts |-> t[d]] /\ \A d \in Lists : t[d] = s[d] \/ Records(t[d], Fields(d))
    BY <1>2, <1>3, FieldsAre, ZenonT(40) DEF IsSnapshot, Parts, Lists
<1> QED BY <1>4, SnapshotWith DEF t

LEMMA ServicesSnapshot ==
    ASSUME NEW s, IsSnapshot(s), NEW h \in Hosts, NEW base, NEW lists, NEW answers
    PROVE  IsSnapshot(RunServices(s, h, base, lists, answers))
<1> DEFINE t == RunServices(s, h, base, lists, answers)
<1>1. Records(DropIns(h), {"path", "text", "include"})
    <2> DEFINE files == Select(h.files, LAMBDA f : f.path.dir = "systemd/system/*.d"
                                                  /\ Suffix(f.path) = "conf")
    <2>1. IsList(files)
        BY ListsOfHost, PickedFacts DEF Select
    <2>2. DropIns(h) = [i \in DOMAIN files |-> DropIns(h)[i]]
        BY DEF DropIns
    <2>3. \A i \in DOMAIN files : {"path", "text", "include"} \subseteq DOMAIN DropIns(h)[i]
        BY DEF DropIns, Item
    <2> HIDE DEF files
    <2> QED BY <2>1, <2>2, <2>3, MapRecords
<1>2. t = s \/ \E c, e, d : t = [s EXCEPT !.state_changes = c, !.enabled_units = e,
                                          !.disabled_units = d, !.drop_ins = DropIns(h)]
    BY DEF RunServices
<1> HIDE DEF t
<1>3. CASE t = s
    BY <1>3 DEF t
<1>4. CASE t # s
    <2>1. PICK c, e, d : t = [s EXCEPT !.state_changes = c, !.enabled_units = e,
                                       !.disabled_units = d, !.drop_ins = DropIns(h)]
        BY <1>2, <1>4
    <2>2. DOMAIN s = Parts /\ DOMAIN t = Parts /\ t = [x \in Parts |-> t[x]]
        BY <2>1 DEF IsSnapshot
    <2>3. t.drop_ins = DropIns(h)
        BY <2>1, <2>2 DEF Parts, Lists
    <2>4. \A x \in Lists \ {"drop_ins"} : t[x] = s[x]
        BY <2>1, <2>2 DEF Parts, Lists
    <2>5. \A x \in Lists : t[x] = s[x] \/ Records(t[x], Fields(x))
        BY <1>1, <2>3, <2>4, FieldsAre
    <2> QED BY <2>2, <2>5, SnapshotWith DEF t
<1> QED BY <1>3, <1>4

LEMMA NetworkSnapshot ==
    ASSUME NEW s, IsSnapshot(s), NEW h \in Hosts
    PROVE  IsSnapshot(RunNetwork(s, h))
<1> DEFINE t == RunNetwork(s, h)
           in(dir) == Select(InEtc(h), LAMBDA f : f.path.dir = dir)
           profiles == in("NetworkManager/system-connections") \o in("sysconfig/network-scripts")
           connections == [i \in DOMAIN profiles |->
                NMConnection(profiles[i].path, ConnectionMethod(h.methods[profiles[i].path]))]
           zones == Items(FilesIn(h, "firewalld/zones", {"xml"}))
           rules == [i \in DOMAIN h.direct |-> [rule |-> h.direct[i], include |-> TRUE]]
<1>1. IsList(profiles)
    <2>1. IsList(InEtc(h))
        BY ListsOfHost, PickedFacts DEF InEtc, Select
    <2> QED BY <2>1, PickedFacts, Concatenation DEF Select
<1>2. Records(connections, {"path", "method"})
    <2>1. connections = [i \in DOMAIN profiles |-> connections[i]]
        OBVIOUS
    <2>2. \A i \in DOMAIN profiles : {"path", "method"} \subseteq DOMAIN connections[i]
        BY DEF NMConnection
    <2> HIDE DEF connections, profiles
    <2> QED BY <1>1, <2>1, <2>2, MapRecords
<1>3. Records(zones, {"path", "text", "include"}) /\ IsList(h.direct)
    BY FilesInFacts, ListsOfHost
<1>4. Records(rules, {"rule", "include"})
    <2>1. rules = [i \in DOMAIN h.direct |-> rules[i]]
        OBVIOUS
    <2>2. \A i \in DOMAIN h.direct : {"rule", "include"} \subseteq DOMAIN rules[i]
        OBVIOUS
    <2> HIDE DEF rules
    <2> QED BY <1>3, <2>1, <2>2, MapRecords
<1>5. t = [s EXCEPT !.connections = connections, !.firewall_zones = zones, !.direct_rules = rules]
    BY DEF RunNetwork
<1> HIDE DEF t, connections, zones, rules
<1>6. t = [d \in Parts |-> t[d]] /\ \A d \in Lists : t[d] = s[d] \/ Records(t[d], Fields(d))
    BY <1>2, <1>3, <1>4, <1>5, FieldsAre, ZenonT(40) DEF IsSnapshot, Parts, Lists
<1> QED BY <1>6, SnapshotWith DEF t

LEMMA ContainersSnapshot ==
    ASSUME NEW s, IsSnapshot(s), NEW h \in Hosts
    PROVE  IsSnapshot(RunContainers(s, h))
<1> DEFINE t == RunContainers(s, h)
           lists == [i \in DOMAIN QuadletDirs |-> Items(FilesIn(h, QuadletDirs[i], QuadletSuffixes))]
<1>1. IsList(QuadletDirs)
    <2>1. QuadletDirs = [i \in 1..4 |-> QuadletDirs[i]]
        BY DEF QuadletDirs
    <2> QED BY <2>1, ListOf
<1>2. lists = [i \in DOMAIN QuadletDirs |-> lists[i]] /\ \A i \in DOMAIN lists : Records(lists[i], {"path", "text", "include"})
    BY FilesInFacts
<1>3. t = [s EXCEPT !.quadlet_units = FlattenSeq(lists)]
    BY DEF RunContainers
<1> HIDE DEF t, lists
<1>4. Records(FlattenSeq(lists), {"path", "text", "include"})
    BY <1>1, <1>2, MapFacts, FlattenRecords
<1>5. t = [d \in Parts |-> t[d]] /\ \A d \in Lists : t[d] = s[d] \/ Records(t[d], Fields(d))
    BY <1>3, <1>4, FieldsAre DEF IsSnapshot, Parts, Lists
<1> QED BY <1>5, SnapshotWith DEF t

LEMMA KernelSnapshot ==
    ASSUME NEW s, IsSnapshot(s), NEW h \in Hosts
    PROVE  IsSnapshot(RunKernel(s, h))
<1> DEFINE t == RunKernel(s, h)
           lists == [i \in DOMAIN SnippetDirs |-> Items(FilesIn(h, SnippetDirs[i], {"conf"}))]
           differ == Select(h.sysctl, LAMBDA k : k.shipped = None \/ Runtime(k) # k.shipped)
<1>1. IsList(SnippetDirs) /\ IsList(h.cmdline) /\ IsList(h.sysctl)
    <2>1. SnippetDirs = [i \in 1..3 |-> SnippetDirs[i]]
        BY DEF SnippetDirs
    <2> QED BY <2>1, ListOf, ListsOfHost
<1>2. lists = [i \in DOMAIN SnippetDirs |-> lists[i]] /\ \A i \in DOMAIN lists : Records(lists[i], {"path", "text", "include"})
    BY FilesInFacts
<1>3. Records(DiffSysctl(h.sysctl), {"key", "include"})
    <2>1. IsList(differ)
        BY <1>1, PickedFacts DEF Select
    <2>2. DiffSysctl(h.sysctl) = [i \in DOMAIN differ |-> DiffSysctl(h.sysctl)[i]]
        BY DEF DiffSysctl
    <2>3. \A i \in DOMAIN differ : {"key", "include"} \subseteq DOMAIN DiffSysctl(h.sysctl)[i]
        BY DEF DiffSysctl
    <2> HIDE DEF differ
    <2> QED BY <2>1, <2>2, <2>3, MapRecords
<1>4. t = [s EXCEPT !.cmdline = h.cmdline, !.sysctl_overrides = DiffSysctl(h.sysctl),
                    !.snippets = FlattenSeq(lists),
                    !.tuned_profiles = Items(FilesIn(h, "tuned/*", {"conf"}))]
    BY DEF RunKernel
<1> HIDE DEF t, lists
<1>5. /\ Records(FlattenSeq(lists), {"path", "text", "include"})
      /\ Records(Items(FilesIn(h, "tuned/*", {"conf"})), {"path", "text", "include"})
      /\ Records(h.cmdline, {})
    <2>1. Records(FlattenSeq(lists), {"path", "text", "include"})
        BY <1>1, <1>2, MapFacts, FlattenRecords
    <2>2. Records(h.cmdline, {})
        BY <1>1 DEF Records
    <2> QED BY <2>1, <2>2, FilesInFacts
<1>6. t = [d \in Parts |-> t[d]] /\ \A d \in Lists : t[d] = s[d] \/ Records(t[d], Fields(d))
    BY <1>3, <1>4, <1>5, FieldsAre, ZenonT(40) DEF IsSnapshot, Parts, Lists
<1> QED BY <1>6, SnapshotWith DEF t

LEMMA TimerFields ==
    ASSUME NEW name, NEW calendar, NEW job, NEW has
    PROVE  /\ Fields("generated_timer_units") \subseteq DOMAIN Timer(name, calendar, job, has)
           /\ Timer(name, calendar, job, has).timer_content.holds = {}
BY FieldsAre DEF Timer, GeneratedTimerUnit, TimerText, Text

(* A list of generated timers; no text of the host is in their calendars.  *)
Jobs(list) ==
    /\ Records(list, Fields("generated_timer_units"))
    /\ \A x \in ToSet(list) : x.timer_content.holds = {}

LEMMA EmptyJobs == Jobs(<<>>)
BY EmptyRecords, EmptyList DEF Jobs

LEMMA MapJobs ==
    ASSUME NEW list, IsList(list), NEW t, t = [i \in DOMAIN list |-> t[i]],
           \A i \in DOMAIN list : \E name, calendar, job, has : t[i] = Timer(name, calendar, job, has)
    PROVE  Jobs(t)
<1>1. \A i \in DOMAIN list : /\ Fields("generated_timer_units") \subseteq DOMAIN t[i]
                              /\ t[i].timer_content.holds = {}
    BY TimerFields
<1>2. Records(t, Fields("generated_timer_units")) /\ DOMAIN t = DOMAIN list
    BY <1>1, MapRecords, MapFacts
<1> QED BY <1>1, <1>2 DEF Jobs, ToSet

LEMMA ConcatJobs ==
    ASSUME NEW s, NEW t, Jobs(s), Jobs(t)
    PROVE  Jobs(s \o t)
BY ConcatRecords, Concatenation DEF Jobs, Records

LEMMA FlattenJobs ==
    ASSUME NEW seqs, IsList(seqs), \A i \in DOMAIN seqs : Jobs(seqs[i])
    PROVE  Jobs(FlattenSeq(seqs))
BY FlattenRecords, FlattenFacts DEF Jobs, Records

LEMMA CrontabIsList ==
    ASSUME NEW h \in Hosts, NEW i \in DOMAIN h.files, IsCrontab(h.files[i]), NEW owned
    PROVE  Jobs(ScanCronFile(h, h.files[i], owned))
<1> DEFINE file  == h.files[i]
           lines == Select(h.crontabs[file.path], LAMBDA l : IsJob(file, l))
           timers == [k \in DOMAIN lines |->
                Timer(<<"cron">> \o file.path.name, OnCalendar(lines[k].fields),
                      lines[k].job, file.text.holds)]
<1>1. IsList(h.crontabs[file.path])
    BY ListsOfHost
<1> HIDE DEF file
<1>2. IsList(lines)
    BY <1>1, PickedFacts DEF Select
<1>3. Jobs(timers)
    <2>1. timers = [k \in DOMAIN lines |-> timers[k]]
        OBVIOUS
    <2>2. \A k \in DOMAIN lines : \E name, calendar, job, has :
                timers[k] = Timer(name, calendar, job, has)
        OBVIOUS
    <2> HIDE DEF timers, lines
    <2> QED BY <1>2, <2>1, <2>2, MapJobs
<1>4. ScanCronFile(h, file, owned)
        = IF IsRpmOwned(file, owned) \/ ~file.decodes THEN <<>> ELSE timers
    BY DEF ScanCronFile
<1> QED BY <1>3, <1>4, EmptyJobs DEF file

LEMMA ScanFilesIsList ==
    ASSUME NEW h \in Hosts, NEW dir \in {"cron.d", "crontab", "spool/cron"}, NEW owned
    PROVE  Jobs(ScanFiles(h, dir, owned))
<1> DEFINE files == Select(h.files, LAMBDA f : f.path.dir = dir)
           lists == [i \in DOMAIN files |-> ScanCronFile(h, files[i], owned)]
<1>1. /\ IsList(files)
      /\ ToSet(files) = {h.files[n] : n \in {n \in DOMAIN h.files : h.files[n].path.dir = dir}}
    BY ListsOfHost, PickedFacts DEF Select
<1>2. ASSUME NEW i \in DOMAIN files PROVE Jobs(lists[i])
    <2>1. files[i] \in ToSet(files)
        BY DEF ToSet
    <2>2. PICK n \in DOMAIN h.files : files[i] = h.files[n] /\ h.files[n].path.dir = dir
        BY <1>1, <2>1
    <2> QED BY <2>2, CrontabIsList DEF IsCrontab
<1>3. lists = [i \in DOMAIN files |-> lists[i]] /\ ScanFiles(h, dir, owned) = FlattenSeq(lists)
    BY DEF ScanFiles
<1> HIDE DEF files, lists
<1> QED BY <1>1, <1>2, <1>3, MapFacts, FlattenJobs

LEMMA ScheduledSnapshot ==
    ASSUME NEW s, IsSnapshot(s), NEW h \in Hosts, NEW owned
    PROVE  IsSnapshot(RunScheduled(s, h, owned))
           /\ Jobs(RunScheduled(s, h, owned).generated_timer_units)
<1> DEFINE t == RunScheduled(s, h, owned)
           scripts == [i \in DOMAIN Periods |-> ScanPeriod(h, Periods[i], owned)]
           jobs == ScanFiles(h, "cron.d", owned) \o ScanFiles(h, "crontab", owned)
                   \o FlattenSeq(scripts) \o ScanFiles(h, "spool/cron", FALSE)
<1>1. ASSUME NEW period PROVE Jobs(ScanPeriod(h, period, owned))
    <2> DEFINE files == Select(h.files, LAMBDA f : f.path.dir = period.dir /\ ~IsRpmOwned(f, owned))
    <2>1. IsList(files)
        BY ListsOfHost, PickedFacts DEF Select
    <2>2. ScanPeriod(h, period, owned) = [i \in DOMAIN files |-> ScanPeriod(h, period, owned)[i]]
        BY DEF ScanPeriod
    <2>3. \A i \in DOMAIN files : \E name, calendar, job, has :
            ScanPeriod(h, period, owned)[i] = Timer(name, calendar, job, has)
        BY DEF ScanPeriod
    <2> HIDE DEF files
    <2> QED BY <2>1, <2>2, <2>3, MapJobs
<1>2. IsList(Periods)
    <2>1. Periods = [i \in 1..4 |-> Periods[i]]
        BY DEF Periods
    <2> QED BY <2>1, ListOf
<1>3. Jobs(FlattenSeq(scripts))
    <2>1. scripts = [i \in DOMAIN Periods |-> scripts[i]] /\ \A i \in DOMAIN scripts : Jobs(scripts[i])
        BY <1>1
    <2> HIDE DEF scripts
    <2> QED BY <1>2, <2>1, MapFacts, FlattenJobs
<1>4. Records(LocalTimers(h), {"name", "timer_content", "service_content"})
    <2> DEFINE timers == Select(h.files, LAMBDA f : /\ f.path.top = "etc" /\ f.path.dir = UnitDir
                                                    /\ Suffix(f.path) = "timer" /\ f.text # NoText)
    <2>1. IsList(timers)
        BY ListsOfHost, PickedFacts DEF Select
    <2>2. LocalTimers(h) = [i \in DOMAIN timers |-> LocalTimers(h)[i]]
        BY DEF LocalTimers
    <2>3. \A i \in DOMAIN timers :
            {"name", "timer_content", "service_content"} \subseteq DOMAIN LocalTimers(h)[i]
        BY DEF LocalTimers, SystemdTimer
    <2> HIDE DEF timers
    <2> QED BY <2>1, <2>2, <2>3, MapRecords
<1>5. Jobs(jobs)
    <2> HIDE DEF scripts
    <2> QED BY <1>3, ScanFilesIsList, ConcatJobs
<1>6. t = [s EXCEPT !.generated_timer_units = jobs, !.systemd_timers = LocalTimers(h)]
    BY DEF RunScheduled
<1> HIDE DEF t, jobs
<1>7. t = [d \in Parts |-> t[d]] /\ \A d \in Lists : t[d] = s[d] \/ Records(t[d], Fields(d))
    BY <1>4, <1>5, <1>6, FieldsAre DEF IsSnapshot, Parts, Lists, Jobs
<1>8. t.generated_timer_units = jobs
    BY <1>6 DEF IsSnapshot, Parts, Lists
<1> QED BY <1>5, <1>7, <1>8, SnapshotWith DEF t

(* The best item of a path that has one is an item.                        *)
LEMMA BestIsThere ==
    ASSUME NEW items, IsList(items), NEW path, \E i \in DOMAIN items : items[i].path = path,
           \A i \in DOMAIN items : items[i].confidence \in 0..2
    PROVE  Best(items, path) \in ToSet(items) /\ Best(items, path).path = path
<1> DEFINE at   == {n \in DOMAIN items : items[n].path = path}
           same == Picked(items, at)
           top  == {n \in DOMAIN same : \A i \in DOMAIN same : same[i].confidence <= same[n].confidence}
           best == Picked(same, top)
<1>1. /\ IsList(same) /\ same # <<>> /\ ToSet(same) = {items[n] : n \in at}
    <2>1. at # {} /\ at \in SUBSET DOMAIN items
        OBVIOUS
    <2> HIDE DEF at
    <2> QED BY <2>1, PickedFacts
<1>2. \A i \in DOMAIN same : same[i] \in ToSet(items) /\ same[i].path = path /\ same[i].confidence \in 0..2
    <2>1. \A i \in DOMAIN same : \E n \in DOMAIN items : same[i] = items[n] /\ items[n].path = path
        <3>1. \A i \in DOMAIN same : same[i] \in ToSet(same)
            BY DEF ToSet
        <3> HIDE DEF same
        <3> QED BY <1>1, <3>1
    <2> HIDE DEF same
    <2> QED BY <2>1 DEF ToSet
<1> HIDE DEF same
<1>3. top # {}
    <2>1. 1 \in DOMAIN same
        BY <1>1, ListFacts
    <2>2. CASE \E n \in DOMAIN same : same[n].confidence = 2
        BY <1>2, <2>2
    <2>3. CASE /\ \A n \in DOMAIN same : same[n].confidence # 2
               /\ \E n \in DOMAIN same : same[n].confidence = 1
        BY <1>2, <2>3
    <2>4. CASE \A n \in DOMAIN same : same[n].confidence # 2 /\ same[n].confidence # 1
        BY <1>2, <2>1, <2>4
    <2> QED BY <2>2, <2>3, <2>4
<1>4. IsList(best) /\ best # <<>> /\ ToSet(best) = {same[n] : n \in top}
    <2>1. top \in SUBSET DOMAIN same
        OBVIOUS
    <2> HIDE DEF top
    <2> QED BY <1>1, <1>3, <2>1, PickedFacts
<1>5. Best(items, path) = best[1]
    BY DEF Best, Select, same
<1> HIDE DEF best
<1>6. best[1] \in ToSet(best)
    <2>1. 1 \in DOMAIN best
        BY <1>4, ListFacts
    <2> QED BY <2>1 DEF ToSet
<1>7. PICK n \in DOMAIN same : best[1] = same[n]
    BY <1>4, <1>6
<1> QED BY <1>2, <1>5, <1>7

LEMMA DedupRecords ==
    ASSUME NEW items, Records(items, Fields("items")),
           \A i \in DOMAIN items : items[i].confidence \in 0..2
    PROVE  Records(Dedup(items), Fields("items")) /\ ToSet(Dedup(items)) \subseteq ToSet(items)
<1> DEFINE places == [i \in DOMAIN items |-> [at |-> i, path |-> items[i].path]]
           firsts == Select(places, LAMBDA x : \A j \in 1..(x.at - 1) : items[j].path # x.path)
<1>1. IsList(places)
    <2>1. places = [i \in DOMAIN items |-> places[i]]
        OBVIOUS
    <2> HIDE DEF places
    <2> QED BY <2>1, MapFacts DEF Records
<1>2. \A i \in DOMAIN places : i \in DOMAIN items /\ places[i].path = items[i].path
    OBVIOUS
<1> HIDE DEF places
<1>3. IsList(firsts) /\ \A x \in ToSet(firsts) : \E i \in DOMAIN items : items[i].path = x.path
    BY <1>1, <1>2, PickedFacts DEF Select
<1>4. /\ Dedup(items) = [i \in DOMAIN firsts |-> Dedup(items)[i]]
      /\ \A i \in DOMAIN firsts : Dedup(items)[i] = Best(items, firsts[i].path)
    BY DEF Dedup, places
<1> HIDE DEF firsts
<1>5. \A i \in DOMAIN firsts : Dedup(items)[i] \in ToSet(items)
    BY <1>3, <1>4, BestIsThere DEF Records, ToSet
<1>6. \A i \in DOMAIN firsts : Fields("items") \subseteq DOMAIN Dedup(items)[i]
    BY <1>5 DEF Records
<1>7. Records(Dedup(items), Fields("items")) /\ DOMAIN Dedup(items) = DOMAIN firsts
    BY <1>3, <1>4, <1>6, MapRecords, MapFacts
<1> QED BY <1>5, <1>7 DEF ToSet

(* Projects have lists of files; and every item has one of the three       *)
(* confidences when it is found.                                           *)
Projects(list) == Records(list, Fields("items")) /\ \A x \in ToSet(list) : IsList(x.files)

Sure(list) == \A x \in ToSet(list) : x.confidence \in 0..2

LEMMA MapProjects ==
    ASSUME NEW list, IsList(list), NEW t, t = [i \in DOMAIN list |-> t[i]],
           \A i \in DOMAIN list : \E at, how, c, files, text, pip :
                /\ t[i] = NonRpmItem(at, how, c, files, text, pip)
                /\ c \in 0..2 /\ IsList(files)
    PROVE  Projects(t) /\ Sure(t)
<1>1. ASSUME NEW at, NEW method, NEW c, NEW files, NEW text, NEW pip
      PROVE  LET x == NonRpmItem(at, method, c, files, text, pip)
             IN  Fields("items") \subseteq DOMAIN x /\ x.confidence = c /\ x.files = files
    BY FieldsAre DEF NonRpmItem
<1>2. \A i \in DOMAIN list : /\ Fields("items") \subseteq DOMAIN t[i]
                              /\ t[i].confidence \in 0..2 /\ IsList(t[i].files)
    BY <1>1
<1>3. Records(t, Fields("items")) /\ DOMAIN t = DOMAIN list
    BY <1>2, MapRecords, MapFacts
<1> QED BY <1>2, <1>3 DEF Projects, Sure, ToSet

LEMMA ConcatProjects ==
    ASSUME NEW s, NEW t, Projects(s), Projects(t), Sure(s), Sure(t)
    PROVE  Projects(s \o t) /\ Sure(s \o t)
BY ConcatRecords, Concatenation DEF Projects, Sure, Records

LEMMA ScansAreProjects ==
    ASSUME NEW h \in Hosts
    PROVE  /\ Projects(ScanDirs(h.apps)) /\ Sure(ScanDirs(h.apps))
           /\ Projects(ScanVenvs(h.apps)) /\ Sure(ScanVenvs(h.apps))
           /\ Projects(ScanDists(h.dists)) /\ Sure(ScanDists(h.dists))
           /\ Projects(ScanRequirements(h.apps)) /\ Sure(ScanRequirements(h.apps))
           /\ \A lock, method : Projects(ScanLocks(h.apps, lock, method))
                               /\ Sure(ScanLocks(h.apps, lock, method))
<1>1. Projects(ScanDirs(h.apps)) /\ Sure(ScanDirs(h.apps))
    <2> DEFINE entries == Select(h.apps, LAMBDA a : /\ a.path.top # "srv" /\ ~a.nested
                                                    /\ a.git \/ ~a.venv)
    <2>1. IsList(entries)
        BY ListsOfHost, PickedFacts DEF Select
    <2>2. ScanDirs(h.apps) = [i \in DOMAIN entries |-> ScanDirs(h.apps)[i]]
        BY DEF ScanDirs
    <2>3. \A i \in DOMAIN entries : \E at, how, c, files, text, pip :
            /\ ScanDirs(h.apps)[i] = NonRpmItem(at, how, c, files, text, pip)
            /\ c \in 0..2 /\ IsList(files)
        <3> DEFINE c(i) == CASE entries[i].binary = "elf" -> 2
                             [] entries[i].binary = "version" -> 1
                             [] OTHER -> 0
        <3>1. \A i \in DOMAIN entries : ScanDirs(h.apps)[i]
                = IF entries[i].git THEN NonRpmItem(entries[i].path, "git repository", 2, <<>>, NoText, FALSE)
                  ELSE NonRpmItem(entries[i].path, "directory scan", c(i), <<>>, NoText, FALSE)
            BY DEF ScanDirs, Bare
        <3>2. 2 \in 0..2 /\ IsList(<<>>) /\ \A i : c(i) \in 0..2
            BY EmptyList
        <3> HIDE DEF entries, c
        <3>3. ASSUME NEW i \in DOMAIN entries
              PROVE  \E at, how, k, files, text, pip :
                        /\ ScanDirs(h.apps)[i] = NonRpmItem(at, how, k, files, text, pip)
                        /\ k \in 0..2 /\ IsList(files)
            <4>1. CASE entries[i].git
                BY <3>1, <3>2, <4>1, Zenon
            <4>2. CASE ~entries[i].git
                BY <3>1, <3>2, <4>2, Zenon
            <4> QED BY <4>1, <4>2
        <3> QED BY <3>3
    <2> HIDE DEF entries
    <2> QED BY <2>1, <2>2, <2>3, MapProjects
<1>2. Projects(ScanVenvs(h.apps)) /\ Sure(ScanVenvs(h.apps))
    <2> DEFINE venvs == Select(h.apps, LAMBDA a : a.path.top # "usr" /\ a.venv)
    <2>1. IsList(venvs)
        BY ListsOfHost, PickedFacts DEF Select
    <2>2. ScanVenvs(h.apps) = [i \in DOMAIN venvs |-> ScanVenvs(h.apps)[i]]
        BY DEF ScanVenvs
    <2>3. \A i \in DOMAIN venvs : \E at, how, c, files, text, pip :
            /\ ScanVenvs(h.apps)[i] = NonRpmItem(at, how, c, files, text, pip)
            /\ c \in 0..2 /\ IsList(files)
        <3>1. \A i \in DOMAIN venvs :
                ScanVenvs(h.apps)[i] = NonRpmItem(venvs[i].path, "python venv", 2, <<>>, NoText,
                                               venvs[i].pips)
            BY DEF ScanVenvs
        <3>2. 2 \in 0..2 /\ IsList(<<>>)
            BY EmptyList
        <3> HIDE DEF venvs
        <3>3. ASSUME NEW i \in DOMAIN venvs
              PROVE  \E at, how, c, files, text, pip :
                        /\ ScanVenvs(h.apps)[i] = NonRpmItem(at, how, c, files, text, pip)
                        /\ c \in 0..2 /\ IsList(files)
            <4>1. ScanVenvs(h.apps)[i]
                    = NonRpmItem(venvs[i].path, "python venv", 2, <<>>, NoText, venvs[i].pips)
                BY <3>1
            <4> QED BY <3>2, <4>1, Zenon
        <3> QED BY <3>3
    <2> HIDE DEF venvs
    <2> QED BY <2>1, <2>2, <2>3, MapProjects
<1>3. Projects(ScanRequirements(h.apps)) /\ Sure(ScanRequirements(h.apps))
    <2> DEFINE with == Select(h.apps, LAMBDA a : a.path.top # "usr" /\ a.requirements # None)
    <2>1. IsList(with)
        BY ListsOfHost, PickedFacts DEF Select
    <2>2. ScanRequirements(h.apps) = [i \in DOMAIN with |-> ScanRequirements(h.apps)[i]]
        BY DEF ScanRequirements
    <2>3. \A i \in DOMAIN with : \E at, how, c, files, text, pip :
            /\ ScanRequirements(h.apps)[i] = NonRpmItem(at, how, c, files, text, pip)
            /\ c \in 0..2 /\ IsList(files)
        <3>1. \A i \in DOMAIN with : \E at, text : ScanRequirements(h.apps)[i]
                = NonRpmItem(at, "pip requirements.txt", 2, <<>>, text, TRUE)
            BY DEF ScanRequirements
        <3>2. 2 \in 0..2 /\ IsList(<<>>)
            BY EmptyList
        <3> HIDE DEF with
        <3>3. ASSUME NEW i \in DOMAIN with
              PROVE  \E at, how, c, files, text, pip :
                        /\ ScanRequirements(h.apps)[i] = NonRpmItem(at, how, c, files, text, pip)
                        /\ c \in 0..2 /\ IsList(files)
            <4>1. \E at, text : ScanRequirements(h.apps)[i]
                    = NonRpmItem(at, "pip requirements.txt", 2, <<>>, text, TRUE)
                BY <3>1
            <4> QED BY <3>2, <4>1, Zenon
        <3> QED BY <3>3
    <2> HIDE DEF with
    <2> QED BY <2>1, <2>2, <2>3, MapProjects
<1>4. ASSUME NEW lock, NEW method
      PROVE  Projects(ScanLocks(h.apps, lock, method)) /\ Sure(ScanLocks(h.apps, lock, method))
    <2> DEFINE with == Select(h.apps, LAMBDA a : \E i \in DOMAIN a.locks : a.locks[i].name = lock)
    <2>1. IsList(with)
        BY ListsOfHost, PickedFacts DEF Select
    <2>2. ScanLocks(h.apps, lock, method) = [i \in DOMAIN with |-> ScanLocks(h.apps, lock, method)[i]]
        BY DEF ScanLocks
    <2>3. \A i \in DOMAIN with : \E at, how, c, files, text, pip :
            /\ ScanLocks(h.apps, lock, method)[i] = NonRpmItem(at, how, c, files, text, pip)
            /\ c \in 0..2 /\ IsList(files)
        <3>1. \A x \in ToSet(with) : IsList(x.locks)
            BY ListsOfHost, PickedFacts DEF Select
        <3>2. \A i \in DOMAIN with : IsList(with[i].locks)
            BY <3>1 DEF ToSet
        <3>3. \A i \in DOMAIN with : ScanLocks(h.apps, lock, method)[i]
                = NonRpmItem(with[i].path, method, 2, with[i].locks, NoText, FALSE)
            BY DEF ScanLocks
        <3>4. 2 \in 0..2
            OBVIOUS
        <3> HIDE DEF with
        <3> QED BY <3>2, <3>3, <3>4, Zenon
    <2> HIDE DEF with
    <2> QED BY <2>1, <2>2, <2>3, MapProjects
<1>5. Projects(ScanDists(h.dists)) /\ Sure(ScanDists(h.dists))
    <2>1. ScanDists(h.dists) = [i \in DOMAIN h.dists |-> ScanDists(h.dists)[i]]
        BY DEF ScanDists
    <2>2. \A i \in DOMAIN h.dists : \E at, how, c, files, text, pip :
            /\ ScanDists(h.dists)[i] = NonRpmItem(at, how, c, files, text, pip)
            /\ c \in 0..2 /\ IsList(files)
        <3>1. \A i \in DOMAIN h.dists : ScanDists(h.dists)[i]
                = NonRpmItem(h.dists[i].path, "pip dist-info", 2, <<>>, NoText, h.dists[i].pips)
            BY DEF ScanDists
        <3>2. 2 \in 0..2 /\ IsList(<<>>)
            BY EmptyList
        <3>3. ASSUME NEW i \in DOMAIN h.dists
              PROVE  \E at, how, c, files, text, pip :
                        /\ ScanDists(h.dists)[i] = NonRpmItem(at, how, c, files, text, pip)
                        /\ c \in 0..2 /\ IsList(files)
            <4>1. ScanDists(h.dists)[i]
                    = NonRpmItem(h.dists[i].path, "pip dist-info", 2, <<>>, NoText, h.dists[i].pips)
                BY <3>1
            <4> QED BY <3>2, <4>1, Zenon
        <3> QED BY <3>3
    <2> QED BY ListsOfHost, <2>1, <2>2, MapProjects
<1> QED BY <1>1, <1>2, <1>3, <1>4, <1>5

LEMMA SoftwareSnapshot ==
    ASSUME NEW s, IsSnapshot(s), NEW h \in Hosts
    PROVE  IsSnapshot(RunSoftware(s, h)) /\ Projects(RunSoftware(s, h).items)
<1> DEFINE t == RunSoftware(s, h)
           found == ScanDirs(h.apps) \o ScanVenvs(h.apps)
                        \o ScanDists(h.dists) \o ScanRequirements(h.apps)
                        \o ScanLocks(h.apps, "package-lock.json", "npm package-lock.json")
                        \o ScanLocks(h.apps, "yarn.lock", "yarn.lock")
                        \o ScanLocks(h.apps, "Gemfile.lock", "gem Gemfile.lock")
           envs == Select(h.files, LAMBDA f : f.path.top = "opt" /\ f.path.name \in EnvFileNames)
<1>5. Projects(found) /\ Sure(found)
    BY ScansAreProjects, ConcatProjects
<1>6. Projects(Dedup(found))
    <2>1. \A i \in DOMAIN found : found[i].confidence \in 0..2
        BY <1>5 DEF Sure, ToSet
    <2> HIDE DEF found
    <2>2. Records(Dedup(found), Fields("items")) /\ ToSet(Dedup(found)) \subseteq ToSet(found)
        BY <1>5, <2>1, DedupRecords DEF Projects
    <2> QED BY <1>5, <2>2 DEF Projects
<1>7. Records(Items(envs), {"path", "text", "include"})
    <2>1. IsList(envs)
        BY ListsOfHost, PickedFacts DEF Select
    <2> QED BY <2>1, ItemsFacts
<1>8. t = [s EXCEPT !.items = Dedup(found), !.env_files = Items(envs)]
    BY DEF RunSoftware
<1> HIDE DEF t, found, envs
<1>9. t = [d \in Parts |-> t[d]] /\ \A d \in Lists : t[d] = s[d] \/ Records(t[d], Fields(d))
    BY <1>6, <1>7, <1>8, FieldsAre DEF IsSnapshot, Parts, Lists, Projects
<1>10. t.items = Dedup(found)
    BY <1>8 DEF IsSnapshot, Parts, Lists
<1> QED BY <1>6, <1>9, <1>10, SnapshotWith DEF t

LEMMA UsersSnapshot ==
    ASSUME NEW s, IsSnapshot(s), NEW h \in Hosts, NEW override
    PROVE  IsSnapshot(RunUsers(s, h, override))
<1> DEFINE t == RunUsers(s, h, override)
           users == Users(h, override)
           shadow == Select(h.shadow, LAMBDA e : \E i \in DOMAIN users : users[i].name = e.name)
<1>1. Records(users, Fields("users"))
    <2> DEFINE own == Select(h.users, LAMBDA u : OwnId(u.uid))
    <2>1. IsList(own)
        BY ListsOfHost, PickedFacts DEF Select
    <2>2. users = [i \in DOMAIN own |-> users[i]]
        BY DEF Users
    <2>3. \A i \in DOMAIN own : Fields("users") \subseteq DOMAIN users[i]
        BY FieldsAre DEF Users
    <2> HIDE DEF own, users
    <2> QED BY <2>1, <2>2, <2>3, MapRecords
<1>2. Records(Groups(h, users, override), Fields("groups"))
    <2> DEFINE own == Select(h.groups, LAMBDA g : OwnId(g.gid))
               groups == Groups(h, users, override)
    <2>1. IsList(own)
        BY ListsOfHost, PickedFacts DEF Select
    <2>2. groups = [i \in DOMAIN own |-> groups[i]]
        BY DEF Groups
    <2>3. \A i \in DOMAIN own : Fields("groups") \subseteq DOMAIN groups[i]
        BY FieldsAre DEF Groups
    <2> HIDE DEF own, groups
    <2>4. Records(groups, Fields("groups"))
        BY <2>1, <2>2, <2>3, MapRecords
    <2> QED BY <2>4 DEF groups
<1>3. Records(shadow, Fields("shadow_entries"))
    <2>1. Records(h.shadow, Fields("shadow_entries"))
        BY ListsOfHost, FieldsAre, HostAssumption DEF Records, ToSet
    <2> HIDE DEF users
    <2> QED BY <2>1, PickedRecords DEF Select
<1>4. t = [s EXCEPT !.users = users, !.groups = Groups(h, users, override), !.shadow_entries = shadow]
    BY DEF RunUsers
<1> HIDE DEF t, users, shadow
<1>5. t = [d \in Parts |-> t[d]] /\ \A d \in Lists : t[d] = s[d] \/ Records(t[d], Fields(d))
    BY <1>1, <1>2, <1>3, <1>4 DEF IsSnapshot, Parts, Lists
<1> QED BY <1>5, SnapshotWith DEF t
-----------------------------------------------------------------------------
(* The redaction                                                           *)

LEMMA OneElement == ASSUME NEW x PROVE IsList(<<x>>) /\ ToSet(<<x>>) = {x}
<1>1. <<x>> = [i \in 1..1 |-> <<x>>[i]] /\ \A i \in DOMAIN <<x>> : <<x>>[i] = x
    OBVIOUS
<1>2. IsList(<<x>>) /\ Len(<<x>>) = 1
    BY <1>1, ListOf
<1>3. DOMAIN <<x>> = {1}
    BY <1>2, ListFacts
<1> QED BY <1>1, <1>2, <1>3 DEF ToSet

(* A text without a secret, though it may have a mark that is matched.     *)
Plain(text) == \A match \in text.holds : match[1] # "secret"

(* A record, put together from its fields: itself, if it is a function.    *)
Made(x) == [d \in DOMAIN x |-> x[d]]

\* What _redact_text() replaces is matched, if at all, with a keyword less; it leaves no
\* secret, and a text that nothing matches as it is, without a note.
LEMMA RedactTextFacts ==
    ASSUME NEW text
    PROVE  /\ Plain(RedactText(text))
           /\ Matching(RedactText(text)) \subseteq {Mark(match) : match \in Matching(text)}
           /\ Matching(text) = {} =>
                RedactText(text) = text /\ \A where : Noted(where, text) = <<>>
<1>1. CASE Matching(text) = {}
    <2>1. RedactText(text) = text /\ \A where : Noted(where, text) = <<>>
        BY <1>1 DEF RedactText, Noted
    <2>2. Plain(text)
        BY <1>1 DEF Plain, Matching, Matched
    <2> QED BY <1>1, <2>1, <2>2
<1>2. CASE Matching(text) # {}
    <2> DEFINE marks == {Mark(match) : match \in Matching(text)}
    <2>1. RedactText(text).holds = (text.holds \ Matching(text)) \cup marks
        BY <1>2 DEF RedactText, Text
    <2>2. \A match : Mark(match)[1] = "mark"
        BY DEF Mark
    <2>3. \A match \in text.holds \ Matching(text) : match[1] # "secret" /\ ~Matched(match)
        BY DEF Matching, Matched
    <2>4. Plain(RedactText(text))
        BY <2>1, <2>2, <2>3 DEF Plain
    <2>5. Matching(RedactText(text)) \subseteq marks
        BY <2>1, <2>3 DEF Matching
    <2> QED BY <1>2, <2>4, <2>5
<1> QED BY <1>1, <1>2

LEMMA RedactFileFacts ==
    ASSUME NEW f, {"path", "text"} \subseteq DOMAIN f
    PROVE  /\ DOMAIN RedactFile(f) = DOMAIN f /\ RedactFile(f).path = f.path
           /\ RedactFile(f).text
                = IF IsExcludedPath(f.path) THEN ExcludedPlaceholder ELSE RedactText(f.text)
           /\ RedactFile(f) = Made(RedactFile(f))
           /\ Matching(f.text) = {} /\ (IsExcludedPath(f.path) => f.text = ExcludedPlaceholder)
                => (f = Made(f) => RedactFile(f) = f) /\ NotedFile(f) = <<>>
<1> DEFINE text == IF IsExcludedPath(f.path) THEN ExcludedPlaceholder ELSE RedactText(f.text)
<1>1. RedactFile(f) = [f EXCEPT !.text = text]
    BY DEF RedactFile
<1>2. /\ DOMAIN RedactFile(f) = DOMAIN f /\ RedactFile(f).path = f.path
      /\ RedactFile(f).text = text /\ RedactFile(f) = Made(RedactFile(f))
    BY <1>1 DEF Made
<1>3. ASSUME Matching(f.text) = {}, IsExcludedPath(f.path) => f.text = ExcludedPlaceholder
      PROVE  (f = Made(f) => RedactFile(f) = f) /\ NotedFile(f) = <<>>
    <2>1. f.text = text
        BY <1>3, RedactTextFacts
    <2>2. NotedFile(f) = <<>>
        BY <1>3, RedactTextFacts DEF NotedFile
    <2> HIDE DEF text
    <2> QED BY <1>1, <2>1, <2>2 DEF Made
<1> QED BY <1>2, <1>3

LEMMA RedactGeneratedFacts ==
    ASSUME NEW u, {"name", "service_content", "command"} \subseteq DOMAIN u
    PROVE  /\ DOMAIN RedactGenerated(u) = DOMAIN u
           /\ RedactGenerated(u).service_content = RedactText(u.service_content)
           /\ RedactGenerated(u).command = RedactText(u.command)
           /\ RedactGenerated(u) = Made(RedactGenerated(u))
           /\ Matching(u.service_content) = {} /\ Matching(u.command) = {}
                => (u = Made(u) => RedactGenerated(u) = u) /\ NotedGenerated(u) = <<>>
<1>1. RedactGenerated(u) = [u EXCEPT !.service_content = RedactText(u.service_content),
                                     !.command = RedactText(u.command)]
    BY DEF RedactGenerated
<1>2. /\ DOMAIN RedactGenerated(u) = DOMAIN u
      /\ RedactGenerated(u).service_content = RedactText(u.service_content)
      /\ RedactGenerated(u).command = RedactText(u.command)
      /\ RedactGenerated(u) = Made(RedactGenerated(u))
    BY <1>1 DEF Made
<1>3. ASSUME Matching(u.service_content) = {}, Matching(u.command) = {}
      PROVE  (u = Made(u) => RedactGenerated(u) = u) /\ NotedGenerated(u) = <<>>
    <2>1. RedactText(u.service_content) = u.service_content /\ RedactText(u.command) = u.command
        BY <1>3, RedactTextFacts
    <2>2. RedactGenerated(u) = [u EXCEPT !.service_content = u.service_content,
                                         !.command = u.command]
        BY <1>1, <2>1
    <2>3. u = Made(u) => RedactGenerated(u) = u
        BY <2>2 DEF Made
    <2>4. NotedGenerated(u) = <<>> \o <<>>
        BY <1>3, RedactTextFacts DEF NotedGenerated
    <2>5. <<>> \o <<>> = <<>>
        BY EmptyList, ConcatEmpty
    <2> QED BY <2>3, <2>4, <2>5
<1> QED BY <1>2, <1>3

LEMMA RedactTimerFacts ==
    ASSUME NEW u, {"name", "service_content"} \subseteq DOMAIN u
    PROVE  /\ DOMAIN RedactTimer(u) = DOMAIN u
           /\ RedactTimer(u).service_content = RedactText(u.service_content)
           /\ RedactTimer(u) = Made(RedactTimer(u))
           /\ Matching(u.service_content) = {}
                => (u = Made(u) => RedactTimer(u) = u) /\ NotedTimer(u) = <<>>
<1>1. RedactTimer(u) = [u EXCEPT !.service_content = RedactText(u.service_content)]
    BY DEF RedactTimer
<1>2. ASSUME Matching(u.service_content) = {}
      PROVE  (u = Made(u) => RedactTimer(u) = u) /\ NotedTimer(u) = <<>>
    <2>1. RedactText(u.service_content) = u.service_content
        BY <1>2, RedactTextFacts
    <2>2. NotedTimer(u) = <<>>
        BY <1>2, RedactTextFacts DEF NotedTimer
    <2> QED BY <1>1, <2>1, <2>2 DEF Made
<1> QED BY <1>1, <1>2 DEF Made

LEMMA RedactShadowFacts ==
    ASSUME NEW e, {"name", "hash"} \subseteq DOMAIN e
    PROVE  /\ DOMAIN RedactShadow(e) = DOMAIN e /\ RedactShadow(e).hash # "hash"
           /\ RedactShadow(e) = Made(RedactShadow(e))
           /\ e.hash # "hash" => (e = Made(e) => RedactShadow(e) = e) /\ NotedShadow(e) = <<>>
<1> DEFINE hash == IF e.hash = "hash" THEN "redacted" ELSE e.hash
<1>1. RedactShadow(e) = [e EXCEPT !.hash = hash] /\ hash # "hash"
    BY DEF RedactShadow
<1>2. e.hash # "hash" => (e = Made(e) => RedactShadow(e) = e) /\ NotedShadow(e) = <<>>
    BY <1>1 DEF NotedShadow, Made
<1> HIDE DEF hash
<1> QED BY <1>1, <1>2 DEF Made

(* What becomes of an item of a section of texts.                          *)
RedactItem(x) == [x EXCEPT !.text = RedactText(x.text)]

LEMMA RedactItemFacts ==
    ASSUME NEW x, {"path", "text"} \subseteq DOMAIN x
    PROVE  /\ DOMAIN RedactItem(x) = DOMAIN x /\ RedactItem(x).text = RedactText(x.text)
           /\ RedactItem(x) = Made(RedactItem(x))
           /\ Matching(x.text) = {} /\ x = Made(x) => RedactItem(x) = x
<1>1. /\ DOMAIN RedactItem(x) = DOMAIN x /\ RedactItem(x).text = RedactText(x.text)
      /\ RedactItem(x) = Made(RedactItem(x))
    BY DEF RedactItem, Made
<1>2. ASSUME Matching(x.text) = {}, x = Made(x) PROVE RedactItem(x) = x
    <2>1. RedactText(x.text) = x.text
        BY <1>2, RedactTextFacts
    <2> QED BY <1>2, <2>1 DEF RedactItem, Made
<1> QED BY <1>1, <1>2

(* Nothing, one after the other, is nothing.                               *)
LEMMA FlattenNothing ==
    ASSUME NEW list, IsList(list), NEW t, t = [i \in DOMAIN list |-> t[i]],
           \A i \in DOMAIN list : t[i] = <<>>
    PROVE  FlattenSeq(t) = <<>>
<1>1. IsList(t) /\ DOMAIN t = DOMAIN list
    BY MapFacts
<1>2. IsList(FlattenSeq(t)) /\ ToSet(FlattenSeq(t)) = {}
    BY <1>1, EmptyList, FlattenFacts
<1>3. DOMAIN FlattenSeq(t) = {}
    BY <1>2 DEF ToSet
<1> QED BY <1>2, <1>3, ListFacts

LEMMA NotedIsList == ASSUME NEW where, NEW text PROVE IsList(Noted(where, text))
BY EmptyList, OneElement DEF Noted

(* A list of which every element becomes itself is itself.                 *)
LEMMA SameElements ==
    ASSUME NEW list, IsList(list), NEW t, t = [i \in DOMAIN list |-> t[i]],
           \A i \in DOMAIN list : t[i] = list[i]
    PROVE  t = list
<1>1. list = [i \in DOMAIN list |-> list[i]]
    BY DEF IsList
<1> QED BY <1>1

LEMMA ItemsPass ==
    ASSUME NEW list, Records(list, {"path", "text", "include"})
    PROVE  /\ Records(RedactItems(list), {"path", "text", "include"})
           /\ \A x \in ToSet(RedactItems(list)) :
                x = Made(x) /\ \E y \in ToSet(list) : x.text = RedactText(y.text)
           /\ \A section : Records(NotedIn(section, list), {})
           /\ (\A x \in ToSet(list) : x = Made(x) /\ Matching(x.text) = {})
                => RedactItems(list) = list /\ \A section : NotedIn(section, list) = <<>>
<1> DEFINE t == RedactItems(list)
           n(section) == [i \in DOMAIN list |-> Noted(<<section, list[i].path>>, list[i].text)]
<1>1. IsList(list) /\ t = [i \in DOMAIN list |-> t[i]] /\ \A i \in DOMAIN list : t[i] = RedactItem(list[i])
    BY DEF Records, RedactItems, RedactItem
<1>2. \A i \in DOMAIN list : {"path", "text", "include"} \subseteq DOMAIN list[i] /\ list[i] \in ToSet(list)
    BY DEF Records, ToSet
<1>3. \A i \in DOMAIN list : /\ {"path", "text", "include"} \subseteq DOMAIN t[i]
                              /\ t[i].text = RedactText(list[i].text)
                              /\ t[i] = Made(t[i])
    BY <1>1, <1>2, RedactItemFacts
<1> HIDE DEF t
<1>4. DOMAIN t = DOMAIN list /\ IsList(t) /\ Records(t, {"path", "text", "include"})
    BY <1>1, <1>3, MapFacts, MapRecords
<1>5. ASSUME NEW section
      PROVE  n(section) = [i \in DOMAIN list |-> n(section)[i]] /\ NotedIn(section, list) = FlattenSeq(n(section))
    BY DEF NotedIn
<1>6. ASSUME NEW section PROVE Records(NotedIn(section, list), {})
    <2>1. \A i \in DOMAIN list : IsList(n(section)[i])
        BY NotedIsList
    <2> HIDE DEF n
    <2>2. IsList(n(section)) /\ \A i \in DOMAIN n(section) : Records(n(section)[i], {})
        BY <1>1, <1>5, <2>1, MapFacts DEF Records
    <2> QED BY <1>5, <2>2, FlattenRecords
<1>7. \A x \in ToSet(t) : x = Made(x) /\ \E y \in ToSet(list) : x.text = RedactText(y.text)
    BY <1>2, <1>3, <1>4 DEF ToSet
<1>8. ASSUME \A x \in ToSet(list) : x = Made(x) /\ Matching(x.text) = {}
      PROVE  t = list /\ \A section : NotedIn(section, list) = <<>>
    <2>1. \A i \in DOMAIN list : t[i] = list[i]
        BY <1>1, <1>2, <1>8, RedactItemFacts
    <2>2. ASSUME NEW section PROVE NotedIn(section, list) = <<>>
        <3>1. \A i \in DOMAIN list : n(section)[i] = <<>>
            BY <1>2, <1>8, RedactTextFacts
        <3> HIDE DEF n
        <3> QED BY <1>1, <1>5, <3>1, FlattenNothing
    <2> QED BY <1>1, <2>1, <2>2, SameElements
<1> QED BY <1>4, <1>6, <1>7, <1>8 DEF t

LEMMA FilesPass ==
    ASSUME NEW list, Records(list, {"path", "text", "include"})
    PROVE  /\ Records(Each(RedactFile, list), {"path", "text", "include"})
           /\ \A x \in ToSet(Each(RedactFile, list)) :
                x = Made(x) /\ \E y \in ToSet(list) : /\ x.path = y.path
                                      /\ x.text = IF IsExcludedPath(y.path) THEN ExcludedPlaceholder
                                                  ELSE RedactText(y.text)
           /\ Records(AllOf(NotedFile, list), {})
           /\ (\A x \in ToSet(list) : /\ x = Made(x) /\ Matching(x.text) = {}
                                      /\ IsExcludedPath(x.path) => x.text = ExcludedPlaceholder)
                => Each(RedactFile, list) = list /\ AllOf(NotedFile, list) = <<>>
<1> DEFINE t == Each(RedactFile, list)
           n == [i \in DOMAIN list |-> NotedFile(list[i])]
<1>1. IsList(list) /\ t = [i \in DOMAIN list |-> t[i]] /\ \A i \in DOMAIN list : t[i] = RedactFile(list[i])
    BY DEF Records, Each
<1>2. \A i \in DOMAIN list : /\ {"path", "text", "include"} \subseteq DOMAIN list[i]
                              /\ list[i] \in ToSet(list)
    BY DEF Records, ToSet
<1>3. ASSUME NEW i \in DOMAIN list
      PROVE  /\ {"path", "text", "include"} \subseteq DOMAIN t[i]
             /\ t[i].path = list[i].path
             /\ t[i].text = IF IsExcludedPath(list[i].path) THEN ExcludedPlaceholder
                            ELSE RedactText(list[i].text)
             /\ t[i] = Made(t[i])
    <2>1. {"path", "text"} \subseteq DOMAIN list[i]
        BY <1>2
    <2>2. /\ DOMAIN RedactFile(list[i]) = DOMAIN list[i]
          /\ RedactFile(list[i]).path = list[i].path
          /\ RedactFile(list[i]).text = IF IsExcludedPath(list[i].path) THEN ExcludedPlaceholder
                                ELSE RedactText(list[i].text)
          /\ RedactFile(list[i]) = Made(RedactFile(list[i]))
        BY <2>1, RedactFileFacts
    <2>3. t[i] = RedactFile(list[i])
        BY <1>1
    <2> HIDE DEF t
    <2> QED BY <1>2, <2>2, <2>3
<1> HIDE DEF t
<1>4. DOMAIN t = DOMAIN list /\ IsList(t) /\ Records(t, {"path", "text", "include"})
    BY <1>1, <1>3, MapFacts, MapRecords
<1>5. n = [i \in DOMAIN list |-> n[i]] /\ AllOf(NotedFile, list) = FlattenSeq(n)
    BY DEF AllOf
<1>6. Records(AllOf(NotedFile, list), {})
    <2>1. \A i \in DOMAIN list : IsList(n[i])
        BY EmptyList, OneElement, NotedIsList DEF NotedFile
    <2> HIDE DEF n
    <2>2. IsList(n) /\ \A i \in DOMAIN n : Records(n[i], {})
        BY <1>1, <1>5, <2>1, MapFacts DEF Records
    <2> QED BY <1>5, <2>2, FlattenRecords
<1>7. \A x \in ToSet(t) :
        x = Made(x) /\ \E y \in ToSet(list) : /\ x.path = y.path
                                      /\ x.text = IF IsExcludedPath(y.path) THEN ExcludedPlaceholder
                                                  ELSE RedactText(y.text)
    <2>1. SUFFICES ASSUME NEW i \in DOMAIN list
                   PROVE  t[i] = Made(t[i]) /\ \E y \in ToSet(list) :
                            /\ t[i].path = y.path
                            /\ t[i].text = IF IsExcludedPath(y.path) THEN ExcludedPlaceholder
                                           ELSE RedactText(y.text)
        BY <1>4 DEF ToSet
    <2>2. list[i] \in ToSet(list)
        BY <1>2
    <2> QED BY <1>3, <2>2
<1>8. ASSUME \A x \in ToSet(list) : /\ x = Made(x) /\ Matching(x.text) = {}
                                    /\ IsExcludedPath(x.path) => x.text = ExcludedPlaceholder
      PROVE  t = list /\ AllOf(NotedFile, list) = <<>>
    <2>1. \A i \in DOMAIN list : RedactFile(list[i]) = list[i] /\ NotedFile(list[i]) = <<>>
        <3>1. SUFFICES ASSUME NEW i \in DOMAIN list
                       PROVE  RedactFile(list[i]) = list[i] /\ NotedFile(list[i]) = <<>>
            OBVIOUS
        <3> DEFINE f == list[i]
        <3>2. /\ {"path", "text"} \subseteq DOMAIN f /\ f = Made(f) /\ Matching(f.text) = {}
              /\ IsExcludedPath(f.path) => f.text = ExcludedPlaceholder
            <4>1. {"path", "text"} \subseteq DOMAIN f /\ f \in ToSet(list)
                BY <1>2
            <4> HIDE DEF f
            <4>2. f = Made(f) /\ Matching(f.text) = {}
                BY <1>8, <4>1
            <4>3. IsExcludedPath(f.path) => f.text = ExcludedPlaceholder
                BY <1>8, <4>1
            <4> QED BY <4>1, <4>2, <4>3
        <3> HIDE DEF f
        <3>3. RedactFile(f) = f /\ NotedFile(f) = <<>>
            BY <3>2, RedactFileFacts
        <3> QED BY <3>3 DEF f
    <2>2. \A i \in DOMAIN list : t[i] = list[i] /\ n[i] = <<>>
        BY <1>1, <2>1
    <2> HIDE DEF n
    <2> QED BY <1>1, <1>5, <2>2, SameElements, FlattenNothing
<1> QED BY <1>4, <1>6, <1>7, <1>8 DEF t

LEMMA GeneratedPass ==
    ASSUME NEW list, Records(list, {"name", "timer_content", "service_content", "command", "include"})
    PROVE  /\ Records(Each(RedactGenerated, list), {"name", "timer_content", "service_content", "command", "include"})
           /\ \A x \in ToSet(Each(RedactGenerated, list)) :
                x = Made(x) /\ \E y \in ToSet(list) : /\ x.service_content = RedactText(y.service_content)
                                      /\ x.command = RedactText(y.command)
           /\ Records(AllOf(NotedGenerated, list), {})
           /\ (\A x \in ToSet(list) : x = Made(x) /\ Matching(x.service_content) = {} /\ Matching(x.command) = {})
                => Each(RedactGenerated, list) = list /\ AllOf(NotedGenerated, list) = <<>>
<1> DEFINE t == Each(RedactGenerated, list)
           n == [i \in DOMAIN list |-> NotedGenerated(list[i])]
<1>1. IsList(list) /\ t = [i \in DOMAIN list |-> t[i]] /\ \A i \in DOMAIN list : t[i] = RedactGenerated(list[i])
    BY DEF Records, Each
<1>2. \A i \in DOMAIN list : /\ {"name", "timer_content", "service_content", "command", "include"} \subseteq DOMAIN list[i]
                              /\ list[i] \in ToSet(list)
    BY DEF Records, ToSet
<1>3. ASSUME NEW i \in DOMAIN list
      PROVE  /\ {"name", "timer_content", "service_content", "command", "include"} \subseteq DOMAIN t[i]
             /\ t[i].service_content = RedactText(list[i].service_content)
             /\ t[i].command = RedactText(list[i].command)
             /\ t[i] = Made(t[i])
    <2>1. {"name", "service_content", "command"} \subseteq DOMAIN list[i]
        BY <1>2
    <2>2. /\ DOMAIN RedactGenerated(list[i]) = DOMAIN list[i]
          /\ RedactGenerated(list[i]).service_content = RedactText(list[i].service_content)
          /\ RedactGenerated(list[i]).command = RedactText(list[i].command)
          /\ RedactGenerated(list[i]) = Made(RedactGenerated(list[i]))
        BY <2>1, RedactGeneratedFacts
    <2>3. t[i] = RedactGenerated(list[i])
        BY <1>1
    <2> HIDE DEF t
    <2> QED BY <1>2, <2>2, <2>3
<1> HIDE DEF t
<1>4. DOMAIN t = DOMAIN list /\ IsList(t) /\ Records(t, {"name", "timer_content", "service_content", "command", "include"})
    BY <1>1, <1>3, MapFacts, MapRecords
<1>5. n = [i \in DOMAIN list |-> n[i]] /\ AllOf(NotedGenerated, list) = FlattenSeq(n)
    BY DEF AllOf
<1>6. Records(AllOf(NotedGenerated, list), {})
    <2>1. \A i \in DOMAIN list : IsList(n[i])
        BY NotedIsList, Concatenation DEF NotedGenerated
    <2> HIDE DEF n
    <2>2. IsList(n) /\ \A i \in DOMAIN n : Records(n[i], {})
        BY <1>1, <1>5, <2>1, MapFacts DEF Records
    <2> QED BY <1>5, <2>2, FlattenRecords
<1>7. \A x \in ToSet(t) :
        x = Made(x) /\ \E y \in ToSet(list) : /\ x.service_content = RedactText(y.service_content)
                                      /\ x.command = RedactText(y.command)
    BY <1>2, <1>3, <1>4 DEF ToSet
<1>8. ASSUME \A x \in ToSet(list) : x = Made(x) /\ Matching(x.service_content) = {} /\ Matching(x.command) = {}
      PROVE  t = list /\ AllOf(NotedGenerated, list) = <<>>
    <2>1. \A i \in DOMAIN list : t[i] = list[i] /\ n[i] = <<>>
        BY <1>1, <1>2, <1>8, RedactGeneratedFacts
    <2> HIDE DEF n
    <2> QED BY <1>1, <1>5, <2>1, SameElements, FlattenNothing
<1> QED BY <1>4, <1>6, <1>7, <1>8 DEF t

LEMMA TimersPass ==
    ASSUME NEW list, Records(list, {"name", "timer_content", "service_content"})
    PROVE  /\ Records(Each(RedactTimer, list), {"name", "timer_content", "service_content"})
           /\ \A x \in ToSet(Each(RedactTimer, list)) :
                x = Made(x) /\ \E y \in ToSet(list) : x.service_content = RedactText(y.service_content)
           /\ Records(AllOf(NotedTimer, list), {})
           /\ (\A x \in ToSet(list) : x = Made(x) /\ Matching(x.service_content) = {})
                => Each(RedactTimer, list) = list /\ AllOf(NotedTimer, list) = <<>>
<1> DEFINE t == Each(RedactTimer, list)
           n == [i \in DOMAIN list |-> NotedTimer(list[i])]
<1>1. IsList(list) /\ t = [i \in DOMAIN list |-> t[i]] /\ \A i \in DOMAIN list : t[i] = RedactTimer(list[i])
    BY DEF Records, Each
<1>2. \A i \in DOMAIN list : /\ {"name", "timer_content", "service_content"} \subseteq DOMAIN list[i]
                              /\ list[i] \in ToSet(list)
    BY DEF Records, ToSet
<1>3. ASSUME NEW i \in DOMAIN list
      PROVE  /\ {"name", "timer_content", "service_content"} \subseteq DOMAIN t[i]
             /\ t[i].service_content = RedactText(list[i].service_content)
             /\ t[i] = Made(t[i])
    <2>1. {"name", "service_content"} \subseteq DOMAIN list[i]
        BY <1>2
    <2>2. /\ DOMAIN RedactTimer(list[i]) = DOMAIN list[i]
          /\ RedactTimer(list[i]).service_content = RedactText(list[i].service_content)
          /\ RedactTimer(list[i]) = Made(RedactTimer(list[i]))
        BY <2>1, RedactTimerFacts
    <2>3. t[i] = RedactTimer(list[i])
        BY <1>1
    <2> HIDE DEF t
    <2> QED BY <1>2, <2>2, <2>3
<1> HIDE DEF t
<1>4. DOMAIN t = DOMAIN list /\ IsList(t) /\ Records(t, {"name", "timer_content", "service_content"})
    BY <1>1, <1>3, MapFacts, MapRecords
<1>5. n = [i \in DOMAIN list |-> n[i]] /\ AllOf(NotedTimer, list) = FlattenSeq(n)
    BY DEF AllOf
<1>6. Records(AllOf(NotedTimer, list), {})
    <2>1. \A i \in DOMAIN list : IsList(n[i])
        BY NotedIsList DEF NotedTimer
    <2> HIDE DEF n
    <2>2. IsList(n) /\ \A i \in DOMAIN n : Records(n[i], {})
        BY <1>1, <1>5, <2>1, MapFacts DEF Records
    <2> QED BY <1>5, <2>2, FlattenRecords
<1>7. \A x \in ToSet(t) :
        x = Made(x) /\ \E y \in ToSet(list) : x.service_content = RedactText(y.service_content)
    BY <1>2, <1>3, <1>4 DEF ToSet
<1>8. ASSUME \A x \in ToSet(list) : x = Made(x) /\ Matching(x.service_content) = {}
      PROVE  t = list /\ AllOf(NotedTimer, list) = <<>>
    <2>1. \A i \in DOMAIN list : t[i] = list[i] /\ n[i] = <<>>
        BY <1>1, <1>2, <1>8, RedactTimerFacts
    <2> HIDE DEF n
    <2> QED BY <1>1, <1>5, <2>1, SameElements, FlattenNothing
<1> QED BY <1>4, <1>6, <1>7, <1>8 DEF t

LEMMA ShadowPass ==
    ASSUME NEW list, Records(list, {"name", "hash"})
    PROVE  /\ Records(Each(RedactShadow, list), {"name", "hash"})
           /\ \A x \in ToSet(Each(RedactShadow, list)) :
                x = Made(x) /\ x.hash # "hash"
           /\ Records(AllOf(NotedShadow, list), {})
           /\ (\A x \in ToSet(list) : x = Made(x) /\ x.hash # "hash")
                => Each(RedactShadow, list) = list /\ AllOf(NotedShadow, list) = <<>>
<1> DEFINE t == Each(RedactShadow, list)
           n == [i \in DOMAIN list |-> NotedShadow(list[i])]
<1>1. IsList(list) /\ t = [i \in DOMAIN list |-> t[i]] /\ \A i \in DOMAIN list : t[i] = RedactShadow(list[i])
    BY DEF Records, Each
<1>2. \A i \in DOMAIN list : /\ {"name", "hash"} \subseteq DOMAIN list[i]
                              /\ list[i] \in ToSet(list)
    BY DEF Records, ToSet
<1>3. \A i \in DOMAIN list : /\ {"name", "hash"} \subseteq DOMAIN t[i]
                              /\ t[i].hash # "hash"
                              /\ t[i] = Made(t[i])
    BY <1>1, <1>2, RedactShadowFacts
<1> HIDE DEF t
<1>4. DOMAIN t = DOMAIN list /\ IsList(t) /\ Records(t, {"name", "hash"})
    BY <1>1, <1>3, MapFacts, MapRecords
<1>5. n = [i \in DOMAIN list |-> n[i]] /\ AllOf(NotedShadow, list) = FlattenSeq(n)
    BY DEF AllOf
<1>6. Records(AllOf(NotedShadow, list), {})
    <2>1. \A i \in DOMAIN list : IsList(n[i])
        BY EmptyList, OneElement DEF NotedShadow
    <2> HIDE DEF n
    <2>2. IsList(n) /\ \A i \in DOMAIN n : Records(n[i], {})
        BY <1>1, <1>5, <2>1, MapFacts DEF Records
    <2> QED BY <1>5, <2>2, FlattenRecords
<1>7. \A x \in ToSet(t) :
        x = Made(x) /\ x.hash # "hash"
    BY <1>2, <1>3, <1>4 DEF ToSet
<1>8. ASSUME \A x \in ToSet(list) : x = Made(x) /\ x.hash # "hash"
      PROVE  t = list /\ AllOf(NotedShadow, list) = <<>>
    <2>1. \A i \in DOMAIN list : t[i] = list[i] /\ n[i] = <<>>
        BY <1>1, <1>2, <1>8, RedactShadowFacts
    <2> HIDE DEF n
    <2> QED BY <1>1, <1>5, <2>1, SameElements, FlattenNothing
<1> QED BY <1>4, <1>6, <1>7, <1>8 DEF t

Redacted == {"config", "firewall_zones", "quadlet_units", "generated_timer_units",
             "systemd_timers", "snippets", "env_files", "shadow_entries"}

OfTexts == {"config", "firewall_zones", "quadlet_units", "snippets", "env_files"}

(* What a pass over the sections leaves: no secret, no hash, and of the    *)
(* excluded paths the placeholder.                                         *)
Passed(s) ==
    /\ \A d \in Redacted : \A x \in ToSet(s[d]) : x = Made(x)
    /\ \A d \in OfTexts : \A x \in ToSet(s[d]) : Plain(x.text)
    /\ \A x \in ToSet(s.config) : IsExcludedPath(x.path) => x.text = ExcludedPlaceholder
    /\ \A x \in ToSet(s.generated_timer_units) : Plain(x.service_content) /\ Plain(x.command)
    /\ \A x \in ToSet(s.systemd_timers) : Plain(x.service_content)
    /\ \A x \in ToSet(s.shadow_entries) : x.hash # "hash"

LEMMA ConcatEight ==
    ASSUME NEW s, NEW n, Records(s, {}), \A i \in 1..8 : Records(n[i], {})
    PROVE  Records(s \o n[1] \o n[2] \o n[3] \o n[4] \o n[5] \o n[6] \o n[7] \o n[8], {})
<1> DEFINE a == s \o n[1] \o n[2]
           b == a \o n[3] \o n[4]
           c == b \o n[5] \o n[6]
<1>1. Records(s \o n[1], {}) /\ Records(a, {})
    BY ConcatRecords
<1>2. Records(a \o n[3], {}) /\ Records(b, {})
    <2> HIDE DEF a
    <2> QED BY <1>1, ConcatRecords
<1>3. Records(b \o n[5], {}) /\ Records(c, {})
    <2> HIDE DEF b
    <2> QED BY <1>2, ConcatRecords
<1>4. Records(c \o n[7], {}) /\ Records(c \o n[7] \o n[8], {})
    <2> HIDE DEF c
    <2> QED BY <1>3, ConcatRecords
<1> QED BY <1>4

LEMMA ConcatNothing ==
    ASSUME NEW s, NEW n, IsList(s), \A i \in 1..8 : n[i] = <<>>
    PROVE  s \o n[1] \o n[2] \o n[3] \o n[4] \o n[5] \o n[6] \o n[7] \o n[8] = s
<1>1. /\ s \o n[1] = s /\ s \o n[2] = s /\ s \o n[3] = s /\ s \o n[4] = s
      /\ s \o n[5] = s /\ s \o n[6] = s /\ s \o n[7] = s /\ s \o n[8] = s
    <2>1. s \o <<>> = s
        BY ConcatEmpty
    <2>2. \A e : e = <<>> => s \o e = s
        BY <2>1, Zenon
    <2>3. /\ n[1] = <<>> /\ n[2] = <<>> /\ n[3] = <<>> /\ n[4] = <<>>
          /\ n[5] = <<>> /\ n[6] = <<>> /\ n[7] = <<>> /\ n[8] = <<>>
        OBVIOUS
    <2> QED BY <2>2, <2>3, Zenon
<1> QED BY <1>1

(* What the redaction notes of the sections, in its order.                 *)
NotedOf(s) == <<AllOf(NotedFile, s.config), NotedIn("firewall_zone", s.firewall_zones),
                NotedIn("quadlet", s.quadlet_units),
                AllOf(NotedGenerated, s.generated_timer_units),
                AllOf(NotedTimer, s.systemd_timers), NotedIn("snippet", s.snippets),
                NotedIn("env_file", s.env_files), AllOf(NotedShadow, s.shadow_entries)>>

(* The sections of a redacted snapshot.                                    *)
LEMMA RedactedSections ==
    ASSUME NEW s, IsSnapshot(s)
    PROVE  LET t == RedactSnapshot(s)
               n == NotedOf(s)
           IN  /\ t = [d \in Parts |-> t[d]]
               /\ \A d \in Parts \ (Redacted \cup {"redactions"}) : t[d] = s[d]
               /\ t.config = Each(RedactFile, s.config)
               /\ t.firewall_zones = RedactItems(s.firewall_zones)
               /\ t.quadlet_units = RedactItems(s.quadlet_units)
               /\ t.generated_timer_units = Each(RedactGenerated, s.generated_timer_units)
               /\ t.systemd_timers = Each(RedactTimer, s.systemd_timers)
               /\ t.snippets = RedactItems(s.snippets)
               /\ t.env_files = RedactItems(s.env_files)
               /\ t.shadow_entries = Each(RedactShadow, s.shadow_entries)
               /\ t.redactions = s.redactions \o n[1] \o n[2] \o n[3] \o n[4] \o n[5]
                                              \o n[6] \o n[7] \o n[8]
BY ZenonT(40) DEF RedactSnapshot, NotedOf, IsSnapshot, Parts, Lists, Redacted

LEMMA SectionRecords ==
    ASSUME NEW s, IsSnapshot(s)
    PROVE  /\ \A d \in OfTexts : Records(s[d], {"path", "text", "include"})
           /\ Records(s.generated_timer_units,
                      {"name", "timer_content", "service_content", "command", "include"})
           /\ Records(s.systemd_timers, {"name", "timer_content", "service_content"})
           /\ Records(s.shadow_entries, {"name", "hash"}) /\ Records(s.redactions, {})
<1>1. \A d \in Lists : Records(s[d], Fields(d))
    BY DEF IsSnapshot
<1> QED BY <1>1, FieldsAre DEF Lists, OfTexts

(* What is still matched, section by section.                              *)
LEMMA UnsettledIn ==
    ASSUME NEW s, NEW match
    PROVE  match \in Unsettled(s) <=>
            \/ \E d \in OfTexts : \E x \in ToSet(s[d]) : match \in Matching(x.text)
            \/ \E x \in ToSet(s.generated_timer_units) :
                    match \in Matching(x.service_content) \/ match \in Matching(x.command)
            \/ \E x \in ToSet(s.systemd_timers) : match \in Matching(x.service_content)
<1> DEFINE texts == UNION {ToSet(s[d]) : d \in OfTexts}
           units == ToSet(s.generated_timer_units) \cup ToSet(s.systemd_timers)
<1>1. match \in UNION {Matching(x.text) : x \in texts}
        <=> \E d \in OfTexts : \E x \in ToSet(s[d]) : match \in Matching(x.text)
    <2>1. \A x : x \in texts <=> \E d \in OfTexts : x \in ToSet(s[d])
        OBVIOUS
    <2> HIDE DEF texts
    <2>2. match \in UNION {Matching(x.text) : x \in texts}
            <=> \E x \in texts : match \in Matching(x.text)
        OBVIOUS
    <2> QED BY <2>1, <2>2
<1>2. match \in UNION {Matching(x.service_content) : x \in units}
        <=> \E x \in units : match \in Matching(x.service_content)
    OBVIOUS
<1>3. match \in UNION {Matching(x.command) : x \in ToSet(s.generated_timer_units)}
        <=> \E x \in ToSet(s.generated_timer_units) : match \in Matching(x.command)
    OBVIOUS
<1>4. Unsettled(s) = (UNION {Matching(x.text) : x \in texts})
                     \cup (UNION {Matching(x.service_content) : x \in units})
                     \cup (UNION {Matching(x.command) : x \in ToSet(s.generated_timer_units)})
    BY DEF Unsettled, OfTexts
<1>5. \A x : x \in units <=> x \in ToSet(s.generated_timer_units) \/ x \in ToSet(s.systemd_timers)
    OBVIOUS
<1> HIDE DEF texts, units
<1>6. match \in Unsettled(s) <=> \/ \E d \in OfTexts : \E x \in ToSet(s[d]) : match \in Matching(x.text)
                                 \/ \E x \in units : match \in Matching(x.service_content)
                                 \/ \E x \in ToSet(s.generated_timer_units) : match \in Matching(x.command)
    BY <1>1, <1>2, <1>3, <1>4
<1> QED BY <1>5, <1>6

LEMMA PassOver ==
    ASSUME NEW s, IsSnapshot(s)
    PROVE  /\ IsSnapshot(RedactSnapshot(s)) /\ Passed(RedactSnapshot(s))
           /\ Unsettled(RedactSnapshot(s)) \subseteq {Mark(match) : match \in Unsettled(s)}
<1> DEFINE t == RedactSnapshot(s)
           n == NotedOf(s)
<1>1. \A d \in Lists : Records(s[d], Fields(d))
    BY DEF IsSnapshot
<1>2. /\ \A d \in OfTexts : Records(s[d], {"path", "text", "include"})
      /\ Records(s.generated_timer_units,
                 {"name", "timer_content", "service_content", "command", "include"})
      /\ Records(s.systemd_timers, {"name", "timer_content", "service_content"})
      /\ Records(s.shadow_entries, {"name", "hash"}) /\ Records(s.redactions, {})
    BY SectionRecords
<1>3. \A i \in 1..8 : Records(n[i], {})
    <2>1. Records(AllOf(NotedFile, s.config), {})
        BY <1>2, FilesPass DEF OfTexts
    <2>2. /\ Records(NotedIn("firewall_zone", s.firewall_zones), {})
          /\ Records(NotedIn("quadlet", s.quadlet_units), {})
          /\ Records(NotedIn("snippet", s.snippets), {})
          /\ Records(NotedIn("env_file", s.env_files), {})
        BY <1>2, ItemsPass DEF OfTexts
    <2>3. Records(AllOf(NotedGenerated, s.generated_timer_units), {})
        BY <1>2, GeneratedPass
    <2>4. Records(AllOf(NotedTimer, s.systemd_timers), {})
        BY <1>2, TimersPass
    <2>5. Records(AllOf(NotedShadow, s.shadow_entries), {})
        BY <1>2, ShadowPass
    <2> QED BY <2>1, <2>2, <2>3, <2>4, <2>5 DEF NotedOf
<1>4. /\ t = [d \in Parts |-> t[d]]
      /\ \A d \in Parts \ (Redacted \cup {"redactions"}) : t[d] = s[d]
      /\ t.config = Each(RedactFile, s.config)
      /\ t.firewall_zones = RedactItems(s.firewall_zones)
      /\ t.quadlet_units = RedactItems(s.quadlet_units)
      /\ t.generated_timer_units = Each(RedactGenerated, s.generated_timer_units)
      /\ t.systemd_timers = Each(RedactTimer, s.systemd_timers)
      /\ t.snippets = RedactItems(s.snippets)
      /\ t.env_files = RedactItems(s.env_files)
      /\ t.shadow_entries = Each(RedactShadow, s.shadow_entries)
      /\ t.redactions = s.redactions \o n[1] \o n[2] \o n[3] \o n[4] \o n[5] \o n[6] \o n[7] \o n[8]
    BY RedactedSections
<1> HIDE DEF t, n
<1>5. /\ Records(t.redactions, {}) /\ \A d \in OfTexts : Records(t[d], {"path", "text", "include"})
      /\ Records(t.generated_timer_units,
                 {"name", "timer_content", "service_content", "command", "include"})
      /\ Records(t.systemd_timers, {"name", "timer_content", "service_content"})
      /\ Records(t.shadow_entries, {"name", "hash"})
    <2>1. Records(t.redactions, {})
        <3>1. Records(s.redactions \o n[1] \o n[2] \o n[3] \o n[4] \o n[5] \o n[6] \o n[7] \o n[8], {})
            BY <1>2, <1>3, ConcatEight
        <3> QED BY <1>4, <3>1
    <2>2. Records(t.config, {"path", "text", "include"})
        BY <1>2, <1>4, FilesPass DEF OfTexts
    <2>3. \A d \in OfTexts \ {"config"} : Records(t[d], {"path", "text", "include"})
        BY <1>2, <1>4, ItemsPass DEF OfTexts
    <2>4. Records(t.generated_timer_units,
                  {"name", "timer_content", "service_content", "command", "include"})
        BY <1>2, <1>4, GeneratedPass
    <2>5. Records(t.systemd_timers, {"name", "timer_content", "service_content"})
        BY <1>2, <1>4, TimersPass
    <2>6. Records(t.shadow_entries, {"name", "hash"})
        BY <1>2, <1>4, ShadowPass
    <2> QED BY <2>1, <2>2, <2>3, <2>4, <2>5, <2>6
<1>6. IsSnapshot(t)
    <2>1. \A d \in Redacted \cup {"redactions"} : Records(t[d], Fields(d))
        BY <1>5, FieldsAre, SMTT(30) DEF Redacted, OfTexts
    <2>2. \A d \in Lists : Records(t[d], Fields(d))
        BY <1>1, <1>4, <2>1 DEF Parts, Redacted
    <2> QED BY <1>4, <2>2 DEF IsSnapshot
<1>7. \A x \in ToSet(t.config) : \E y \in ToSet(s.config) :
        /\ x.path = y.path
        /\ x.text = IF IsExcludedPath(y.path) THEN ExcludedPlaceholder ELSE RedactText(y.text)
    BY <1>2, <1>4, FilesPass DEF OfTexts
<1>8. \A d \in OfTexts \ {"config"} : \A x \in ToSet(t[d]) :
        \E y \in ToSet(s[d]) : x.text = RedactText(y.text)
    BY <1>2, <1>4, ItemsPass DEF OfTexts
<1>9. \A x \in ToSet(t.generated_timer_units) : \E y \in ToSet(s.generated_timer_units) :
        x.service_content = RedactText(y.service_content) /\ x.command = RedactText(y.command)
    BY <1>2, <1>4, GeneratedPass
<1>10. \A x \in ToSet(t.systemd_timers) : \E y \in ToSet(s.systemd_timers) :
        x.service_content = RedactText(y.service_content)
    BY <1>2, <1>4, TimersPass
<1>11. \A x \in ToSet(t.shadow_entries) : x.hash # "hash"
    BY <1>2, <1>4, ShadowPass
<1>12. Plain(ExcludedPlaceholder) /\ Matching(ExcludedPlaceholder) = {}
    BY DEF Plain, Matching, ExcludedPlaceholder, Text
<1>13. Passed(t)
    <2>1. \A x \in ToSet(t.config) :
            Plain(x.text) /\ (IsExcludedPath(x.path) => x.text = ExcludedPlaceholder)
        BY <1>7, <1>12, RedactTextFacts
    <2>2. \A d \in OfTexts \ {"config"} : \A x \in ToSet(t[d]) : Plain(x.text)
        BY <1>8, RedactTextFacts
    <2>3. \A x \in ToSet(t.generated_timer_units) : Plain(x.service_content) /\ Plain(x.command)
        BY <1>9, RedactTextFacts
    <2>4. \A x \in ToSet(t.systemd_timers) : Plain(x.service_content)
        BY <1>10, RedactTextFacts
    <2>5. \A d \in Redacted : \A x \in ToSet(t[d]) : x = Made(x)
        <3>1. \A x \in ToSet(t.config) : x = Made(x)
            BY <1>2, <1>4, FilesPass DEF OfTexts
        <3>2. \A d \in OfTexts \ {"config"} : \A x \in ToSet(t[d]) : x = Made(x)
            BY <1>2, <1>4, ItemsPass DEF OfTexts
        <3>3. \A x \in ToSet(t.generated_timer_units) : x = Made(x)
            BY <1>2, <1>4, GeneratedPass
        <3>4. \A x \in ToSet(t.systemd_timers) : x = Made(x)
            BY <1>2, <1>4, TimersPass
        <3>5. \A x \in ToSet(t.shadow_entries) : x = Made(x)
            BY <1>2, <1>4, ShadowPass
        <3> QED BY <3>1, <3>2, <3>3, <3>4, <3>5 DEF Redacted, OfTexts
    <2> QED BY <1>11, <2>1, <2>2, <2>3, <2>4, <2>5 DEF Passed, OfTexts
<1>14. ASSUME NEW match \in Unsettled(t) PROVE \E k \in Unsettled(s) : match = Mark(k)
    <2>1. ASSUME NEW text, match \in Matching(RedactText(text))
          PROVE  \E k \in Matching(text) : match = Mark(k)
        BY <2>1, RedactTextFacts
    <2>2. CASE \E x \in ToSet(t.config) : match \in Matching(x.text)
        <3>1. PICK y \in ToSet(s.config) : match \in Matching(RedactText(y.text))
            BY <1>7, <1>12, <2>2
        <3>2. PICK k \in Matching(y.text) : match = Mark(k)
            BY <2>1, <3>1
        <3> QED BY <3>2, UnsettledIn DEF OfTexts
    <2>3. CASE \E d \in OfTexts \ {"config"} : \E x \in ToSet(t[d]) : match \in Matching(x.text)
        <3>1. PICK d \in OfTexts \ {"config"} : \E x \in ToSet(t[d]) : match \in Matching(x.text)
            BY <2>3
        <3>2. PICK y \in ToSet(s[d]) : match \in Matching(RedactText(y.text))
            BY <1>8, <3>1
        <3>3. PICK k \in Matching(y.text) : match = Mark(k)
            BY <2>1, <3>2
        <3> QED BY <3>3, UnsettledIn
    <2>4. CASE \E x \in ToSet(t.generated_timer_units) :
                match \in Matching(x.service_content) \/ match \in Matching(x.command)
        <3>1. PICK y \in ToSet(s.generated_timer_units) :
                \/ match \in Matching(RedactText(y.service_content))
                \/ match \in Matching(RedactText(y.command))
            BY <1>9, <2>4
        <3>2. \E k \in Matching(y.service_content) \cup Matching(y.command) : match = Mark(k)
            BY <2>1, <3>1
        <3> QED BY <3>2, UnsettledIn
    <2>5. CASE \E x \in ToSet(t.systemd_timers) : match \in Matching(x.service_content)
        <3>1. PICK y \in ToSet(s.systemd_timers) : match \in Matching(RedactText(y.service_content))
            BY <1>10, <2>5
        <3>2. PICK k \in Matching(y.service_content) : match = Mark(k)
            BY <2>1, <3>1
        <3> QED BY <3>2, UnsettledIn
    <2>6. \/ \E d \in OfTexts : \E x \in ToSet(t[d]) : match \in Matching(x.text)
          \/ \E x \in ToSet(t.generated_timer_units) :
                match \in Matching(x.service_content) \/ match \in Matching(x.command)
          \/ \E x \in ToSet(t.systemd_timers) : match \in Matching(x.service_content)
        BY UnsettledIn
    <2> QED BY <2>2, <2>3, <2>4, <2>5, <2>6
<1> QED BY <1>6, <1>13, <1>14 DEF t

(* A pass after one that left nothing to be matched changes nothing.       *)
LEMMA PassAgain ==
    ASSUME NEW s, IsSnapshot(s), Passed(s), Unsettled(s) = {}
    PROVE  RedactSnapshot(s) = s
<1> DEFINE t == RedactSnapshot(s)
           n == NotedOf(s)
<1>1. /\ \A d \in OfTexts : Records(s[d], {"path", "text", "include"})
      /\ Records(s.generated_timer_units,
                 {"name", "timer_content", "service_content", "command", "include"})
      /\ Records(s.systemd_timers, {"name", "timer_content", "service_content"})
      /\ Records(s.shadow_entries, {"name", "hash"}) /\ Records(s.redactions, {})
    BY SectionRecords
<1>2. /\ \A d \in OfTexts : \A x \in ToSet(s[d]) : Matching(x.text) = {}
      /\ \A x \in ToSet(s.generated_timer_units) :
            Matching(x.service_content) = {} /\ Matching(x.command) = {}
      /\ \A x \in ToSet(s.systemd_timers) : Matching(x.service_content) = {}
    BY UnsettledIn
<1>14. /\ \A d \in OfTexts : \A x \in ToSet(s[d]) : x = Made(x)
       /\ \A x \in ToSet(s.generated_timer_units) : x = Made(x)
       /\ \A x \in ToSet(s.systemd_timers) : x = Made(x)
       /\ \A x \in ToSet(s.shadow_entries) : x = Made(x)
    BY DEF Passed, Redacted, OfTexts
<1>3. Each(RedactFile, s.config) = s.config /\ AllOf(NotedFile, s.config) = <<>>
    BY <1>1, <1>2, <1>14, FilesPass DEF Passed, OfTexts
<1>4. \A d \in OfTexts : RedactItems(s[d]) = s[d] /\ \A section : NotedIn(section, s[d]) = <<>>
    BY <1>1, <1>2, <1>14, ItemsPass
<1>5. /\ Each(RedactGenerated, s.generated_timer_units) = s.generated_timer_units
      /\ AllOf(NotedGenerated, s.generated_timer_units) = <<>>
    BY <1>1, <1>2, <1>14, GeneratedPass
<1>6. /\ Each(RedactTimer, s.systemd_timers) = s.systemd_timers
      /\ AllOf(NotedTimer, s.systemd_timers) = <<>>
    BY <1>1, <1>2, <1>14, TimersPass
<1>7. /\ Each(RedactShadow, s.shadow_entries) = s.shadow_entries
      /\ AllOf(NotedShadow, s.shadow_entries) = <<>>
    BY <1>1, <1>14, ShadowPass DEF Passed
<1>8. \A i \in 1..8 : n[i] = <<>>
    <2>1. /\ NotedIn("firewall_zone", s.firewall_zones) = <<>>
          /\ NotedIn("quadlet", s.quadlet_units) = <<>>
          /\ NotedIn("snippet", s.snippets) = <<>> /\ NotedIn("env_file", s.env_files) = <<>>
        BY <1>4 DEF OfTexts
    <2> QED BY <1>3, <1>5, <1>6, <1>7, <2>1 DEF NotedOf
<1>9. /\ t = [d \in Parts |-> t[d]]
      /\ \A d \in Parts \ (Redacted \cup {"redactions"}) : t[d] = s[d]
      /\ t.config = Each(RedactFile, s.config)
      /\ t.firewall_zones = RedactItems(s.firewall_zones)
      /\ t.quadlet_units = RedactItems(s.quadlet_units)
      /\ t.generated_timer_units = Each(RedactGenerated, s.generated_timer_units)
      /\ t.systemd_timers = Each(RedactTimer, s.systemd_timers)
      /\ t.snippets = RedactItems(s.snippets)
      /\ t.env_files = RedactItems(s.env_files)
      /\ t.shadow_entries = Each(RedactShadow, s.shadow_entries)
      /\ t.redactions = s.redactions \o n[1] \o n[2] \o n[3] \o n[4] \o n[5] \o n[6] \o n[7] \o n[8]
    BY RedactedSections
<1> HIDE DEF t, n
<1>10. t.redactions = s.redactions
    <2>1. s.redactions \o n[1] \o n[2] \o n[3] \o n[4] \o n[5] \o n[6] \o n[7] \o n[8] = s.redactions
        BY <1>1, <1>8, ConcatNothing DEF Records
    <2> QED BY <1>9, <2>1
<1>11. \A d \in Redacted : t[d] = s[d]
    <2>1. \A d \in OfTexts \ {"config"} : t[d] = s[d]
        BY <1>4, <1>9 DEF OfTexts
    <2> QED BY <1>3, <1>5, <1>6, <1>7, <1>9, <2>1 DEF Redacted, OfTexts
<1>12. s = [d \in Parts |-> s[d]]
    BY DEF IsSnapshot
<1>13. t = s
    BY <1>9, <1>10, <1>11, <1>12
<1> QED BY <1>13 DEF t
-----------------------------------------------------------------------------
(* The report                                                              *)

(* A record of a section with one field changed.                           *)
LEMMA EditedSnapshot ==
    ASSUME NEW s, IsSnapshot(s), NEW d \in Lists, NEW i \in DOMAIN s[d], NEW field, NEW value
    PROVE  IsSnapshot([s EXCEPT ![d] = [s[d] EXCEPT ![i] = [s[d][i] EXCEPT ![field] = value]]])
<1> DEFINE x == [s[d][i] EXCEPT ![field] = value]
           list == [s[d] EXCEPT ![i] = x]
           t == [s EXCEPT ![d] = list]
<1>1. Records(s[d], Fields(d)) /\ s = [e \in Parts |-> s[e]] /\ d \in Parts
    BY DEF IsSnapshot, Parts
<1>2. DOMAIN x = DOMAIN s[d][i]
    OBVIOUS
<1> HIDE DEF x
<1>3. list = [j \in DOMAIN s[d] |-> list[j]]
      /\ \A j \in DOMAIN s[d] : list[j] = IF j = i THEN x ELSE s[d][j]
    OBVIOUS
<1>4. \A j \in DOMAIN s[d] : Fields(d) \subseteq DOMAIN s[d][j]
    BY <1>1 DEF Records, ToSet
<1>5. \A j \in DOMAIN s[d] : Fields(d) \subseteq DOMAIN list[j]
    BY <1>2, <1>3, <1>4
<1> HIDE DEF list
<1>6. Records(list, Fields(d))
    BY <1>1, <1>3, <1>5, MapRecords DEF Records
<1>7. t = [e \in Parts |-> t[e]] /\ \A e \in Lists : t[e] = s[e] \/ Records(t[e], Fields(e))
    BY <1>1, <1>6
<1> HIDE DEF t
<1>8. IsSnapshot(t)
    BY <1>7, SnapshotWith
<1> QED BY <1>8 DEF t, list, x

LEMMA EditedJobs ==
    ASSUME NEW list, Jobs(list), NEW i \in DOMAIN list, NEW field \in {"include", "strategy"}, NEW value
    PROVE  Jobs([list EXCEPT ![i] = [list[i] EXCEPT ![field] = value]])
<1> DEFINE x == [list[i] EXCEPT ![field] = value]
           t == [list EXCEPT ![i] = x]
<1>1. /\ IsList(list) /\ t = [j \in DOMAIN list |-> t[j]]
      /\ \A j \in DOMAIN list : t[j] = IF j = i THEN x ELSE list[j]
    BY DEF Jobs, Records
<1>2. \A j \in DOMAIN list : /\ Fields("generated_timer_units") \subseteq DOMAIN list[j]
                              /\ list[j].timer_content.holds = {}
    BY DEF Jobs, Records, ToSet
<1>3. DOMAIN x = DOMAIN list[i] /\ x.timer_content = list[i].timer_content
    BY <1>2, FieldsAre
<1> HIDE DEF t, x
<1>4. \A j \in DOMAIN list : /\ Fields("generated_timer_units") \subseteq DOMAIN t[j]
                              /\ t[j].timer_content.holds = {}
    BY <1>1, <1>2, <1>3
<1>5. Records(t, Fields("generated_timer_units")) /\ DOMAIN t = DOMAIN list
    BY <1>1, <1>4, MapRecords, MapFacts
<1>6. Jobs(t)
    BY <1>4, <1>5 DEF Jobs, ToSet
<1> QED BY <1>6 DEF t, x

LEMMA EditedProjects ==
    ASSUME NEW list, Projects(list), NEW i \in DOMAIN list, NEW field \in {"include", "strategy"},
           NEW value
    PROVE  Projects([list EXCEPT ![i] = [list[i] EXCEPT ![field] = value]])
<1> DEFINE x == [list[i] EXCEPT ![field] = value]
           t == [list EXCEPT ![i] = x]
<1>1. /\ IsList(list) /\ t = [j \in DOMAIN list |-> t[j]]
      /\ \A j \in DOMAIN list : t[j] = IF j = i THEN x ELSE list[j]
    BY DEF Projects, Records
<1>2. \A j \in DOMAIN list : Fields("items") \subseteq DOMAIN list[j] /\ IsList(list[j].files)
    BY DEF Projects, Records, ToSet
<1>3. DOMAIN x = DOMAIN list[i] /\ x.files = list[i].files
    BY <1>2, FieldsAre
<1> HIDE DEF t, x
<1>4. \A j \in DOMAIN list : Fields("items") \subseteq DOMAIN t[j] /\ IsList(t[j].files)
    BY <1>1, <1>2, <1>3
<1>5. Records(t, Fields("items")) /\ DOMAIN t = DOMAIN list
    BY <1>1, <1>4, MapRecords, MapFacts
<1>6. Projects(t)
    BY <1>4, <1>5 DEF Projects, ToSet
<1> QED BY <1>6 DEF t, x

LEMMA RedactedJobs ==
    ASSUME NEW list, Jobs(list)
    PROVE  Jobs(Each(RedactGenerated, list))
<1> DEFINE t == Each(RedactGenerated, list)
<1>1. /\ IsList(list) /\ t = [j \in DOMAIN list |-> t[j]]
      /\ \A j \in DOMAIN list : t[j] = RedactGenerated(list[j])
    BY DEF Jobs, Records, Each
<1>2. \A j \in DOMAIN list : /\ Fields("generated_timer_units") \subseteq DOMAIN list[j]
                              /\ list[j].timer_content.holds = {}
    BY DEF Jobs, Records, ToSet
<1>3. ASSUME NEW x, Fields("generated_timer_units") \subseteq DOMAIN x
      PROVE  DOMAIN RedactGenerated(x) = DOMAIN x /\ RedactGenerated(x).timer_content = x.timer_content
    BY <1>3, FieldsAre DEF RedactGenerated
<1> HIDE DEF t
<1>4. \A j \in DOMAIN list : /\ Fields("generated_timer_units") \subseteq DOMAIN t[j]
                              /\ t[j].timer_content.holds = {}
    BY <1>1, <1>2, <1>3
<1>5. Records(t, Fields("generated_timer_units")) /\ DOMAIN t = DOMAIN list
    BY <1>1, <1>4, MapRecords, MapFacts
<1>6. Jobs(t)
    BY <1>4, <1>5 DEF Jobs, ToSet
<1> QED BY <1>6 DEF t

(* The other inspectors leave jobs and projects alone.                     *)
LEMMA LeftAlone ==
    ASSUME NEW s, IsSnapshot(s), NEW h, NEW a, NEW b, NEW c
    PROVE  /\ \A d \in {"generated_timer_units", "items"} :
                /\ RunRepos(RunConfig(s, h, a, b), h)[d] = s[d]
                /\ RunServices(s, h, a, b, c)[d] = s[d]
                /\ RunNetwork(s, h)[d] = s[d] /\ RunContainers(s, h)[d] = s[d]
                /\ RunKernel(s, h)[d] = s[d] /\ RunUsers(s, h, a)[d] = s[d]
           /\ RunScheduled(s, h, a).items = s.items
           /\ RunSoftware(s, h).generated_timer_units = s.generated_timer_units
<1>1. DOMAIN s = Parts
    BY DEF IsSnapshot
<1> SUFFICES ASSUME NEW d \in {"generated_timer_units", "items"}
             PROVE  /\ RunRepos(RunConfig(s, h, a, b), h)[d] = s[d]
                    /\ RunServices(s, h, a, b, c)[d] = s[d]
                    /\ RunNetwork(s, h)[d] = s[d] /\ RunContainers(s, h)[d] = s[d]
                    /\ RunKernel(s, h)[d] = s[d] /\ RunUsers(s, h, a)[d] = s[d]
                    /\ RunScheduled(s, h, a).items = s.items
                    /\ RunSoftware(s, h).generated_timer_units = s.generated_timer_units
    OBVIOUS
<1>2. RunRepos(RunConfig(s, h, a, b), h)[d] = s[d]
    BY <1>1 DEF RunRepos, RunConfig, Parts, Lists
<1>3. RunServices(s, h, a, b, c)[d] = s[d]
    BY <1>1 DEF RunServices, Parts, Lists
<1>4. RunNetwork(s, h)[d] = s[d]
    BY <1>1 DEF RunNetwork, Parts, Lists
<1>5. RunContainers(s, h)[d] = s[d]
    BY <1>1 DEF RunContainers, Parts, Lists
<1>6. RunKernel(s, h)[d] = s[d]
    BY <1>1 DEF RunKernel, Parts, Lists
<1>7. RunUsers(s, h, a)[d] = s[d]
    BY <1>1 DEF RunUsers, Parts, Lists
<1>8. RunScheduled(s, h, a).items = s.items
    BY <1>1 DEF RunScheduled, Parts, Lists
<1>9. RunSoftware(s, h).generated_timer_units = s.generated_timer_units
    BY <1>1 DEF RunSoftware, Parts, Lists
<1> QED BY <1>2, <1>3, <1>4, <1>5, <1>6, <1>7, <1>8, <1>9
-----------------------------------------------------------------------------
(* The configuration tree                                                  *)

(* Of some numbers up to a bound one is the greatest.                      *)
LEMMA GreatestNumber ==
    ASSUME NEW n \in Nat, NEW S \in SUBSET (0..n), S # {}
    PROVE  \E i \in S : \A j \in S : j <= i
<1> DEFINE T == {n - i : i \in S}
<1>1. T \in SUBSET Nat /\ T # {}
    <2>1. \A i \in S : i \in 0..n
        OBVIOUS
    <2>2. \A i \in S : n - i \in Nat
        BY <2>1
    <2> QED BY <2>2
<1>2. PICK k \in T : \A m \in T : k <= m
    <2> HIDE DEF T
    <2> QED BY <1>1, LeastNatural
<1>3. PICK i \in S : k = n - i
    BY <1>2
<1>4. \A j \in S : n - i <= n - j
    BY <1>2, <1>3
<1> QED BY <1>3, <1>4

(* What a directory has at a path is what some file written there had.     *)
LEMMA WrittenFacts ==
    ASSUME NEW files, IsList(files)
    PROVE  /\ DOMAIN Written(files) = {f.path : f \in ToSet(files)}
           /\ \A p \in DOMAIN Written(files) :
                \E f \in ToSet(files) : f.path = p /\ Written(files)[p] = f.text
<1> DEFINE w == Written(files)
           paths == {files[i].path : i \in DOMAIN files}
           At(p) == {i \in DOMAIN files : files[i].path = p}
<1>1. w = [p \in paths |-> files[LastOf(files, p)].text]
    BY DEF Written
<1>2. \A p \in paths : LastOf(files, p) \in DOMAIN files /\ files[LastOf(files, p)].path = p
    <2>1. SUFFICES ASSUME NEW p \in paths
                   PROVE  \E i \in DOMAIN files :
                            files[i].path = p /\ \A j \in DOMAIN files : files[j].path = p => j <= i
        BY DEF LastOf
    <2>2. Len(files) \in Nat /\ At(p) \in SUBSET (0..Len(files)) /\ At(p) # {}
        BY ListFacts
    <2>3. PICK i \in At(p) : \A j \in At(p) : j <= i
        <3> HIDE DEF At
        <3> QED BY <2>2, GreatestNumber
    <2> QED BY <2>3
<1>3. paths = {f.path : f \in ToSet(files)}
    BY DEF ToSet
<1>4. \A p \in paths : files[LastOf(files, p)] \in ToSet(files)
    BY <1>2 DEF ToSet
<1> QED BY <1>1, <1>2, <1>3, <1>4

(* An injective list of a finite set.                                      *)
LEMMA SetToSeqFacts ==
    ASSUME NEW S, IsFiniteSet(S)
    PROVE  IsList(SetToSeq(S)) /\ ToSet(SetToSeq(S)) = S
<1> DEFINE n == Cardinality(S)
           f == SetToSeq(S)
<1>1. n \in Nat /\ \E g : g \in Bijection(1..n, S)
    BY FS_CardinalityType DEF ExistsBijection
<1>2. \E g \in [1..n -> S] : IsInjective(g)
    BY <1>1 DEF Bijection, Injection, IsInjective
<1>3. f \in [1..n -> S] /\ IsInjective(f)
    BY <1>2 DEF SetToSeq
<1> HIDE DEF f
<1>4. f \in Surjection(1..n, S)
    <2>1. f \in Injection(1..n, S)
        BY <1>3 DEF Injection, IsInjective
    <2>2. Cardinality(1..n) = n
        BY <1>1, FS_Interval
    <2> QED BY <2>1, <2>2, FS_Injection
<1>5. f = [i \in 1..n |-> f[i]] /\ ToSet(f) = S
    BY <1>3, <1>4 DEF Surjection, ToSet
<1>6. IsList(f)
    <2> HIDE DEF n
    <2> QED BY <1>1, <1>5, ListOf
<1> QED BY <1>5, <1>6 DEF f

LEMMA KeptFacts ==
    ASSUME NEW items, IsList(items)
    PROVE  IsList(Kept(items)) /\ ToSet(Kept(items)) = {x \in ToSet(items) : x.include}
<1> DEFINE places == {n \in DOMAIN items : items[n].include}
<1>1. IsList(Picked(items, places)) /\ ToSet(Picked(items, places)) = {items[n] : n \in places}
    BY PickedFacts
<1>2. Kept(items) = Picked(items, places)
    BY DEF Kept, Select
<1> QED BY <1>1, <1>2 DEF ToSet

LEMMA KeptRecords ==
    ASSUME NEW items, NEW F, Records(items, F)
    PROVE  Records(Kept(items), F)
BY KeptFacts DEF Records

LEMMA FilesFacts ==
    ASSUME NEW items, IsList(items)
    PROVE  /\ IsList(Files(items))
           /\ \A f \in ToSet(Files(items)) : \E x \in ToSet(items) :
                x.include /\ f.path = x.path /\ f.text = x.text
<1> DEFINE kept == Kept(items)
           t == Files(items)
<1>1. IsList(kept) /\ \A x \in ToSet(kept) : x \in ToSet(items) /\ x.include
    BY KeptFacts
<1>2. /\ t = [i \in DOMAIN kept |-> t[i]]
      /\ \A i \in DOMAIN kept : t[i].path = kept[i].path /\ t[i].text = kept[i].text
    BY DEF Files, File
<1> HIDE DEF t, kept
<1>3. IsList(t) /\ DOMAIN t = DOMAIN kept
    BY <1>1, <1>2, MapFacts
<1>4. \A i \in DOMAIN kept : kept[i] \in ToSet(kept)
    BY DEF ToSet
<1>5. \A f \in ToSet(t) : \E i \in DOMAIN kept : f = t[i]
    BY <1>3 DEF ToSet
<1>6. ASSUME NEW f \in ToSet(t)
      PROVE  \E x \in ToSet(items) : x.include /\ f.path = x.path /\ f.text = x.text
    <2>1. PICK i \in DOMAIN kept : f = t[i]
        BY <1>5
    <2>2. kept[i] \in ToSet(items) /\ kept[i].include
        BY <1>1, <1>4
    <2> QED BY <1>2, <2>1, <2>2
<1> QED BY <1>3, <1>6 DEF t

(* The pair of files of each timer.                                        *)
LEMMA TimerFilesFacts ==
    ASSUME NEW timers, IsList(timers)
    PROVE  /\ IsList(TimerFiles(timers))
           /\ \A f \in ToSet(TimerFiles(timers)) : \E t \in ToSet(timers) :
                \/ f.path = UnitPath(Append(t.name, "timer")) /\ f.text = t.timer_content
                \/ f.path = UnitPath(Append(t.name, "service")) /\ f.text = t.service_content
<1> DEFINE file(t, suffix, text) == IF text = NoText THEN <<>>
                                    ELSE <<File(UnitPath(Append(t.name, suffix)), text)>>
           pair(t) == file(t, "timer", t.timer_content) \o file(t, "service", t.service_content)
           lists == [i \in DOMAIN timers |-> pair(timers[i])]
           Of(f, t) == \/ f.path = UnitPath(Append(t.name, "timer")) /\ f.text = t.timer_content
                       \/ f.path = UnitPath(Append(t.name, "service")) /\ f.text = t.service_content
<1>1. ASSUME NEW t, NEW suffix, NEW text
      PROVE  /\ IsList(file(t, suffix, text))
             /\ \A f \in ToSet(file(t, suffix, text)) :
                    f.path = UnitPath(Append(t.name, suffix)) /\ f.text = text
    <2> DEFINE one == File(UnitPath(Append(t.name, suffix)), text)
    <2>1. one.path = UnitPath(Append(t.name, suffix)) /\ one.text = text
        BY DEF File
    <2> HIDE DEF one
    <2>2. file(t, suffix, text) = IF text = NoText THEN <<>> ELSE <<one>>
        BY DEF one
    <2> HIDE DEF file
    <2> QED BY <2>1, <2>2, EmptyList, OneElement
<1>2. ASSUME NEW t PROVE IsList(pair(t)) /\ \A f \in ToSet(pair(t)) : Of(f, t)
    <2> HIDE DEF file
    <2> QED BY <1>1, Concatenation
<1>3. lists = [i \in DOMAIN timers |-> lists[i]] /\ \A i \in DOMAIN timers : lists[i] = pair(timers[i])
    OBVIOUS
<1>4. TimerFiles(timers) = FlattenSeq(lists)
    BY DEF TimerFiles
<1> HIDE DEF lists, pair, Of
<1>5. IsList(lists) /\ DOMAIN lists = DOMAIN timers
    BY <1>3, MapFacts
<1>6. /\ IsList(FlattenSeq(lists))
      /\ \A f \in ToSet(FlattenSeq(lists)) : \E i \in DOMAIN timers : f \in ToSet(lists[i])
    BY <1>2, <1>3, <1>5, FlattenFacts
<1>7. \A i \in DOMAIN timers : timers[i] \in ToSet(timers)
    BY DEF ToSet
<1>8. \A f \in ToSet(FlattenSeq(lists)) : \E t \in ToSet(timers) : Of(f, t)
    BY <1>2, <1>3, <1>6, <1>7
<1> QED BY <1>4, <1>6, <1>8 DEF Of

(* The files of a project are in its directory.                            *)
LEMMA SoftwareFilesFacts ==
    ASSUME NEW s, Projects(s.items)
    PROVE  /\ IsList(SoftwareFiles(s))
           /\ \A f \in ToSet(SoftwareFiles(s)) : \E x \in ToSet(s.items) :
                /\ x.include
                /\ \/ f.path = x.path
                   \/ \E j \in DOMAIN x.files : f.path = InDir(x.path, <<x.files[j].name>>)
<1> DEFINE kept == Kept(s.items)
           files(x) == [j \in DOMAIN x.files |->
                            File(InDir(x.path, <<x.files[j].name>>), x.files[j].text)]
           part(x) == IF x.files # <<>> THEN files(x)
                      ELSE IF x.content # NoText THEN <<File(x.path, x.content)>> ELSE <<>>
           lists == [i \in DOMAIN kept |-> part(kept[i])]
           Of(f, x) == \/ f.path = x.path
                       \/ \E j \in DOMAIN x.files : f.path = InDir(x.path, <<x.files[j].name>>)
<1>1. IsList(kept) /\ \A x \in ToSet(kept) : x \in ToSet(s.items) /\ x.include /\ IsList(x.files)
    BY KeptFacts DEF Projects, Records
<1>2. ASSUME NEW x, IsList(x.files) PROVE IsList(files(x)) /\ \A f \in ToSet(files(x)) : Of(f, x)
    <2> DEFINE l == files(x)
    <2>1. l = [j \in DOMAIN x.files |-> l[j]]
          /\ \A j \in DOMAIN x.files : l[j].path = InDir(x.path, <<x.files[j].name>>)
        BY DEF File
    <2> HIDE DEF l
    <2>2. IsList(l) /\ DOMAIN l = DOMAIN x.files
        BY <1>2, <2>1, MapFacts
    <2>3. \A f \in ToSet(l) : Of(f, x)
        BY <2>1, <2>2 DEF ToSet
    <2> QED BY <2>2, <2>3 DEF l
<1>3. ASSUME NEW x, IsList(x.files) PROVE IsList(part(x)) /\ \A f \in ToSet(part(x)) : Of(f, x)
    <2> DEFINE one == File(x.path, x.content)
    <2>1. one.path = x.path
        BY DEF File
    <2> HIDE DEF one, files
    <2>2. part(x) = IF x.files # <<>> THEN files(x)
                    ELSE IF x.content # NoText THEN <<one>> ELSE <<>>
        BY DEF one
    <2> HIDE DEF part
    <2>3. IsList(files(x)) /\ \A f \in ToSet(files(x)) : Of(f, x)
        BY <1>2, <1>3
    <2>4. IsList(<<one>>) /\ \A f \in ToSet(<<one>>) : Of(f, x)
        BY <2>1, OneElement
    <2> HIDE DEF Of
    <2> QED BY <2>2, <2>3, <2>4, EmptyList
<1>4. lists = [i \in DOMAIN kept |-> lists[i]] /\ \A i \in DOMAIN kept : lists[i] = part(kept[i])
    OBVIOUS
<1>5. SoftwareFiles(s) = FlattenSeq(lists)
    BY DEF SoftwareFiles
<1> HIDE DEF lists, part, Of, kept
<1>6. IsList(lists) /\ DOMAIN lists = DOMAIN kept
    BY <1>1, <1>4, MapFacts
<1>7. \A i \in DOMAIN kept : kept[i] \in ToSet(kept)
    BY DEF ToSet
<1>8. /\ IsList(FlattenSeq(lists))
      /\ \A f \in ToSet(FlattenSeq(lists)) : \E i \in DOMAIN kept : f \in ToSet(lists[i])
    BY <1>1, <1>3, <1>4, <1>6, <1>7, FlattenFacts
<1>9. \A f \in ToSet(FlattenSeq(lists)) : \E x \in ToSet(s.items) : x.include /\ Of(f, x)
    BY <1>1, <1>3, <1>4, <1>7, <1>8
<1> QED BY <1>5, <1>8, <1>9 DEF Of

LEMMA GeneratedFacts ==
    ASSUME NEW path, NEW word, NEW lines
    PROVE  /\ IsList(Generated(path, word, lines))
           /\ \A f \in ToSet(Generated(path, word, lines)) : f.path = path /\ f.text.holds = {}
<1> DEFINE one == File(path, Text(<<word>> \o lines, {}))
<1>1. one.path = path /\ one.text.holds = {}
    BY DEF File, Text
<1>2. Generated(path, word, lines) = IF lines = <<>> THEN <<>> ELSE <<one>>
    BY DEF Generated
<1> HIDE DEF one
<1> QED BY <1>1, <1>2, EmptyList, OneElement
-----------------------------------------------------------------------------
(* The rendering                                                           *)

(* What was last rendered is the rendering of the snapshot, after a pass,  *)
(* as long as the page is as it was loaded and while the image is built.   *)
InStep ==
    Drawn =>
        /\ Passed(snap)
        /\ tree = [config |-> WriteConfigTree(snap), quadlet |-> WriteQuadlets(snap)]
        /\ program = Render(snap, tree.config)

MigrationInv ==
    /\ host \in Hosts /\ IsSnapshot(snap)
    /\ Jobs(snap.generated_timer_units) /\ Projects(snap.items)
    /\ InStep

LEMMA MigrationInvInit == ASSUME MigrationInit PROVE MigrationInv
<1> DEFINE packages == [i \in DOMAIN host.packages |-> [name |-> host.packages[i], include |-> TRUE]]
<1>1. host \in Hosts /\ phase = "config" /\ snap = [EmptySnapshot EXCEPT !.packages = packages]
    BY DEF MigrationInit
<1>2. Records(packages, {"name", "include"})
    <2>1. IsList(host.packages)
        BY <1>1, ListsOfHost
    <2>2. packages = [i \in DOMAIN host.packages |-> packages[i]]
          /\ \A i \in DOMAIN host.packages : {"name", "include"} \subseteq DOMAIN packages[i]
        OBVIOUS
    <2> HIDE DEF packages
    <2> QED BY <2>1, <2>2, MapRecords
<1> HIDE DEF packages
<1>3. snap = [d \in Parts |-> snap[d]]
      /\ \A d \in Lists : snap[d] = EmptySnapshot[d] \/ Records(snap[d], Fields(d))
    BY <1>1, <1>2, EmptyIsSnapshot, FieldsAre DEF IsSnapshot, Parts, Lists
<1>4. IsSnapshot(snap)
    BY <1>3, EmptyIsSnapshot, SnapshotWith
<1>5. Jobs(snap.generated_timer_units) /\ Projects(snap.items)
    <2>1. snap.generated_timer_units = <<>> /\ snap.items = <<>>
        BY <1>1 DEF EmptySnapshot
    <2> QED BY <2>1, EmptyJobs, EmptyRecords, EmptyList DEF Projects
<1> QED BY <1>1, <1>4, <1>5 DEF MigrationInv, InStep, Drawn

LEMMA MigrationInvStep ==
    ASSUME MigrationInv, [MigrationNext]_migrationVars
    PROVE  MigrationInv'
<1>1. /\ host \in Hosts /\ IsSnapshot(snap)
      /\ Jobs(snap.generated_timer_units) /\ Projects(snap.items) /\ InStep
    BY DEF MigrationInv
<1>2. host' = host
    BY DEF MigrationNext, migrationVars, Inspector, InspectConfig, InspectServices, InspectNetwork,
           InspectScheduled, InspectContainers, InspectSoftware, InspectKernel, InspectUsers,
           RenderFrom, RenderFirst, Rerender, Edit, Toggle, SetStrategy, StartBuild, BuildStep, Boot
<1>3. SUFFICES /\ IsSnapshot(snap') /\ Jobs(snap'.generated_timer_units)
               /\ Projects(snap'.items) /\ InStep'
    BY <1>1, <1>2 DEF MigrationInv
<1>4. CASE InspectConfig
    <2>1. PICK owned, undiffed : snap' = RunRepos(RunConfig(snap, host, owned, undiffed), host)
        BY <1>4 DEF InspectConfig, Inspector
    <2>2. /\ IsSnapshot(snap') /\ snap'.items = snap.items
          /\ snap'.generated_timer_units = snap.generated_timer_units
        <3>1. IsSnapshot(RunConfig(snap, host, owned, undiffed))
            BY <1>1, ConfigSnapshot
        <3>2. IsSnapshot(snap')
            BY <1>1, <2>1, <3>1, ReposSnapshot
        <3>3. \A d \in {"generated_timer_units", "items"} :
                RunRepos(RunConfig(snap, host, owned, undiffed), host)[d] = snap[d]
            BY <1>1, LeftAlone
        <3> QED BY <2>1, <3>2, <3>3
    <2> QED BY <1>1, <1>4, <2>2 DEF InspectConfig, Inspector, InStep, Drawn
<1>5. CASE InspectServices
    <2>1. /\ IsSnapshot(snap') /\ snap'.items = snap.items
          /\ snap'.generated_timer_units = snap.generated_timer_units
        BY <1>1, <1>5, ServicesSnapshot, LeftAlone DEF InspectServices, Inspector
    <2> QED BY <1>1, <1>5, <2>1 DEF InspectServices, Inspector, InStep, Drawn
<1>6. CASE InspectNetwork
    <2>1. /\ IsSnapshot(snap') /\ snap'.items = snap.items
          /\ snap'.generated_timer_units = snap.generated_timer_units
        BY <1>1, <1>6, NetworkSnapshot, LeftAlone DEF InspectNetwork, Inspector
    <2> QED BY <1>1, <1>6, <2>1 DEF InspectNetwork, Inspector, InStep, Drawn
<1>7. CASE InspectScheduled
    <2>1. IsSnapshot(snap') /\ Jobs(snap'.generated_timer_units) /\ snap'.items = snap.items
        <3>1. PICK owned : snap' = RunScheduled(snap, host, owned)
            BY <1>7 DEF InspectScheduled, Inspector
        <3>2. RunScheduled(snap, host, owned).items = snap.items
            BY <1>1, LeftAlone
        <3> QED BY <1>1, <3>1, <3>2, ScheduledSnapshot
    <2> QED BY <1>1, <1>7, <2>1 DEF InspectScheduled, Inspector, InStep, Drawn
<1>8. CASE InspectContainers
    <2>1. /\ IsSnapshot(snap') /\ snap'.items = snap.items
          /\ snap'.generated_timer_units = snap.generated_timer_units
        BY <1>1, <1>8, ContainersSnapshot, LeftAlone DEF InspectContainers, Inspector
    <2> QED BY <1>1, <1>8, <2>1 DEF InspectContainers, Inspector, InStep, Drawn
<1>9. CASE InspectSoftware
    <2>1. /\ IsSnapshot(snap') /\ Projects(snap'.items)
          /\ snap'.generated_timer_units = snap.generated_timer_units
        BY <1>1, <1>9, SoftwareSnapshot, LeftAlone DEF InspectSoftware, Inspector
    <2> QED BY <1>1, <1>9, <2>1 DEF InspectSoftware, Inspector, InStep, Drawn
<1>10. CASE InspectKernel
    <2>1. /\ IsSnapshot(snap') /\ snap'.items = snap.items
          /\ snap'.generated_timer_units = snap.generated_timer_units
        BY <1>1, <1>10, KernelSnapshot, LeftAlone DEF InspectKernel, Inspector
    <2> QED BY <1>1, <1>10, <2>1 DEF InspectKernel, Inspector, InStep, Drawn
<1>11. CASE InspectUsers
    <2>1. /\ IsSnapshot(snap') /\ snap'.items = snap.items
          /\ snap'.generated_timer_units = snap.generated_timer_units
        BY <1>1, <1>11, UsersSnapshot, LeftAlone DEF InspectUsers, Inspector
    <2> QED BY <1>1, <1>11, <2>1 DEF InspectUsers, Inspector, InStep, Drawn
<1>12. CASE RenderFirst \/ Rerender
    <2> DEFINE redacted == RedactSnapshot(snap)
    <2>1. /\ snap' = redacted
          /\ tree' = [config |-> WriteConfigTree(redacted), quadlet |-> WriteQuadlets(redacted)]
          /\ program' = Render(redacted, WriteConfigTree(redacted))
        BY <1>12 DEF RenderFirst, Rerender, RenderFrom
    <2>2. IsSnapshot(redacted) /\ Passed(redacted)
        BY <1>1, PassOver
    <2>3. tree'.config = WriteConfigTree(redacted)
        BY <2>1
    <2>4. Jobs(redacted.generated_timer_units) /\ Projects(redacted.items)
        <3>1. /\ redacted.generated_timer_units = Each(RedactGenerated, snap.generated_timer_units)
              /\ redacted.items = snap.items
            <4>1. "items" \in Parts \ (Redacted \cup {"redactions"})
                BY DEF Parts, Lists, Redacted
            <4>2. \A d \in Parts \ (Redacted \cup {"redactions"}) : redacted[d] = snap[d]
                BY <1>1, RedactedSections
            <4>3. redacted.generated_timer_units = Each(RedactGenerated, snap.generated_timer_units)
                BY <1>1, RedactedSections
            <4> HIDE DEF redacted
            <4> QED BY <4>1, <4>2, <4>3
        <3> QED BY <1>1, <3>1, RedactedJobs
    <2> HIDE DEF redacted
    <2> QED BY <2>1, <2>2, <2>3, <2>4 DEF InStep, Drawn
<1>13. CASE Toggle
    <2>1. PICK section \in Checkboxes : \E i \in DOMAIN snap[section] :
                /\ Edit(<<section, i>>)
                /\ snap' = [snap EXCEPT ![section][i].include = ~@]
        BY <1>13 DEF Toggle
    <2>2. PICK i \in DOMAIN snap[section] :
                /\ Edit(<<section, i>>)
                /\ snap' = [snap EXCEPT ![section][i].include = ~@]
        BY <2>1
    <2> DEFINE value == ~snap[section][i].include
    <2>3. snap' = [snap EXCEPT ![section] = [snap[section] EXCEPT ![i] =
                                                [snap[section][i] EXCEPT !["include"] = value]]]
        BY <2>2
    <2> HIDE DEF value
    <2>6. Jobs(snap'.generated_timer_units)
        <3>1. CASE section = "generated_timer_units"
            <4>1. snap'.generated_timer_units = [snap.generated_timer_units EXCEPT ![i] =
                            [snap.generated_timer_units[i] EXCEPT !["include"] = value]]
                BY <1>1, <2>3, <3>1 DEF IsSnapshot, Parts, Lists
            <4>2. i \in DOMAIN snap.generated_timer_units
                BY <2>2, <3>1
            <4> QED BY <1>1, <4>1, <4>2, EditedJobs
        <3>2. CASE section # "generated_timer_units"
            BY <1>1, <2>3, <3>2
        <3> QED BY <3>1, <3>2
    <2>7. Projects(snap'.items)
        <3>1. CASE section = "items"
            <4>1. snap'.items = [snap.items EXCEPT ![i] = [snap.items[i] EXCEPT !["include"] = value]]
                BY <1>1, <2>3, <3>1 DEF IsSnapshot, Parts, Lists
            <4>2. i \in DOMAIN snap.items
                BY <2>2, <3>1
            <4> QED BY <1>1, <4>1, <4>2, EditedProjects
        <3>2. CASE section # "items"
            BY <1>1, <2>3, <3>2
        <3> QED BY <3>1, <3>2
    <2>4. section \in Lists
        BY DEF Checkboxes, Lists
    <2>5. IsSnapshot(snap')
        BY <1>1, <2>3, <2>4, EditedSnapshot
    <2> QED BY <2>2, <2>5, <2>6, <2>7 DEF Edit, InStep, Drawn
<1>14. CASE SetStrategy
    <2>1. PICK list \in {"users", "groups"}, value \in Strategies : \E i \in DOMAIN snap[list] :
                /\ Edit(<<"strategy", list, i>>)
                /\ snap' = [snap EXCEPT ![list][i].strategy = value]
        BY <1>14 DEF SetStrategy
    <2>2. PICK i \in DOMAIN snap[list] :
                /\ Edit(<<"strategy", list, i>>)
                /\ snap' = [snap EXCEPT ![list][i].strategy = value]
        BY <2>1
    <2>3. snap' = [snap EXCEPT ![list] = [snap[list] EXCEPT ![i] =
                                                [snap[list][i] EXCEPT !["strategy"] = value]]]
        BY <2>2
    <2>6. Jobs(snap'.generated_timer_units)
        <3>1. CASE list = "generated_timer_units"
            <4>1. snap'.generated_timer_units = [snap.generated_timer_units EXCEPT ![i] =
                            [snap.generated_timer_units[i] EXCEPT !["strategy"] = value]]
                BY <1>1, <2>3, <3>1 DEF IsSnapshot, Parts, Lists
            <4>2. i \in DOMAIN snap.generated_timer_units
                BY <2>2, <3>1
            <4> QED BY <1>1, <4>1, <4>2, EditedJobs
        <3>2. CASE list # "generated_timer_units"
            BY <1>1, <2>3, <3>2
        <3> QED BY <3>1, <3>2
    <2>7. Projects(snap'.items)
        <3>1. CASE list = "items"
            <4>1. snap'.items = [snap.items EXCEPT ![i] = [snap.items[i] EXCEPT !["strategy"] = value]]
                BY <1>1, <2>3, <3>1 DEF IsSnapshot, Parts, Lists
            <4>2. i \in DOMAIN snap.items
                BY <2>2, <3>1
            <4> QED BY <1>1, <4>1, <4>2, EditedProjects
        <3>2. CASE list # "items"
            BY <1>1, <2>3, <3>2
        <3> QED BY <3>1, <3>2
    <2>4. list \in Lists
        BY DEF Lists
    <2>5. IsSnapshot(snap')
        BY <1>1, <2>3, <2>4, EditedSnapshot
    <2> QED BY <2>2, <2>5, <2>6, <2>7 DEF Edit, InStep, Drawn
<1>15. CASE StartBuild
    BY <1>1, <1>15 DEF StartBuild, InStep, Drawn, rendering
<1>16. CASE BuildStep
    BY <1>1, <1>16 DEF BuildStep, InStep, Drawn, rendering
<1>17. CASE Boot
    BY <1>1, <1>17 DEF Boot, InStep, Drawn, rendering
<1>18. CASE UNCHANGED migrationVars
    BY <1>1, <1>18 DEF MigrationInv, migrationVars, InStep, Drawn
<1> QED BY <1>4, <1>5, <1>6, <1>7, <1>8, <1>9, <1>10, <1>11, <1>12, <1>13, <1>14, <1>15, <1>16,
           <1>17, <1>18 DEF MigrationNext

\* All through a migration the snapshot is made of lists whose items have the
\* fields the renderers read, and a page that was not edited shows the rendering
\* of it, redacted (run_pipeline(), and a re-render of yoinkc-refine).
THEOREM MigrationInvariant == MigrationSpec => []MigrationInv
<1>1. MigrationInit => MigrationInv
    BY MigrationInvInit
<1>2. MigrationInv /\ [MigrationNext]_migrationVars => MigrationInv'
    BY MigrationInvStep
<1> QED BY <1>1, <1>2, PTL DEF MigrationSpec

\* Whatever the host, the sections and their texts: of what an earlier rendering redacted
\* a rendering matches the marks after one keyword more only, each with a keyword less
\* than before; and one that matches nothing changes nothing (redact_snapshot()).
THEOREM RenderingsSettle == MigrationSpec => RerenderSettles
<1> DEFINE settles ==
            /\ Unsettled(snap') \subseteq {Mark(match) : match \in Unsettled(snap)}
            /\ Unsettled(snap) = {} => UNCHANGED <<snap, tree, program>>
<1>1. ASSUME MigrationInv, Rerender, phase = "page" PROVE settles
    <2>1. /\ snap' = RedactSnapshot(snap)
          /\ tree' = [config |-> WriteConfigTree(snap'), quadlet |-> WriteQuadlets(snap')]
          /\ program' = Render(snap', WriteConfigTree(snap'))
        BY <1>1 DEF Rerender, RenderFrom
    <2>2. /\ IsSnapshot(snap) /\ Passed(snap)
          /\ tree = [config |-> WriteConfigTree(snap), quadlet |-> WriteQuadlets(snap)]
          /\ program = Render(snap, tree.config)
        BY <1>1 DEF MigrationInv, InStep, Drawn
    <2>3. Unsettled(snap') \subseteq {Mark(match) : match \in Unsettled(snap)}
        BY <2>1, <2>2, PassOver
    <2>4. ASSUME Unsettled(snap) = {} PROVE UNCHANGED <<snap, tree, program>>
        <3>1. snap' = snap
            BY <2>1, <2>2, <2>4, PassAgain
        <3>2. tree.config = WriteConfigTree(snap)
            BY <2>2
        <3> QED BY <2>1, <2>2, <3>1, <3>2
    <2> QED BY <2>3, <2>4
<1>2. MigrationInv /\ [MigrationNext]_migrationVars
        => [Rerender /\ phase = "page" => settles]_migrationVars
    BY <1>1
<1> QED BY <1>2, MigrationInvariant, PTL DEF MigrationSpec, RerenderSettles
-----------------------------------------------------------------------------
(* What is written is redacted                                             *)

(* Files without secrets, but for those at free paths.                     *)
Harmless(list, free) == IsList(list) /\ \A f \in ToSet(list) : f.path \in free \/ Plain(f.text)

LEMMA HarmlessConcat ==
    ASSUME NEW free, NEW s, NEW t, Harmless(s, free), Harmless(t, free)
    PROVE  Harmless(s \o t, free)
BY Concatenation DEF Harmless

LEMMA HarmlessFiles ==
    ASSUME NEW free, NEW items, IsList(items),
           \A x \in ToSet(items) : x.path \in free \/ Plain(x.text)
    PROVE  Harmless(Files(items), free)
BY FilesFacts DEF Harmless

LEMMA HarmlessGenerated ==
    ASSUME NEW free, NEW path, NEW word, NEW lines
    PROVE  Harmless(Generated(path, word, lines), free)
BY GeneratedFacts DEF Harmless, Plain

LEMMA HarmlessOne ==
    ASSUME NEW free, NEW path, NEW of
    PROVE  Harmless(<<File(path, Text(of, {}))>>, free)
<1> DEFINE one == File(path, Text(of, {}))
<1>1. one.path = path /\ Plain(one.text)
    BY DEF File, Text, Plain
<1> HIDE DEF one
<1> QED BY <1>1, OneElement DEF Harmless, one

LEMMA HarmlessProfiles ==
    ASSUME NEW free, NEW s, IsSnapshot(s), NEW before
    PROVE  LET profiles == SetToSeq(MissingProfiles(s, before))
           IN  Harmless([i \in DOMAIN profiles |-> File(profiles[i], NoText)], free)
<1> DEFINE c == s.connections
           paths == [i \in DOMAIN c |-> c[i].path]
           profiles == SetToSeq(MissingProfiles(s, before))
           t == [i \in DOMAIN profiles |-> File(profiles[i], NoText)]
<1>1. IsList(c)
    BY DEF IsSnapshot, Lists, Records
<1>2. IsFiniteSet({paths[i] : i \in DOMAIN c})
    <2>1. IsFiniteSet(DOMAIN c)
        BY <1>1, ListFacts
    <2> DEFINE f == [i \in DOMAIN c |-> paths[i]]
               P == {paths[i] : i \in DOMAIN c}
    <2>2. f \in Surjection(DOMAIN c, P)
        BY DEF Surjection
    <2> HIDE DEF paths, f, P
    <2> QED BY <2>1, <2>2, FS_Surjection DEF P
<1>3. MissingProfiles(s, before) \in SUBSET {paths[i] : i \in DOMAIN c}
    BY DEF MissingProfiles, StaticPaths, ToSet
<1>4. IsFiniteSet(MissingProfiles(s, before))
    BY <1>2, <1>3, FS_Subset
<1>5. IsList(profiles)
    BY <1>4, SetToSeqFacts
<1>6. t = [i \in DOMAIN profiles |-> t[i]] /\ \A i \in DOMAIN profiles : Plain(t[i].text)
    BY DEF File, NoText, Text, Plain
<1> HIDE DEF t, profiles
<1>7. IsList(t) /\ DOMAIN t = DOMAIN profiles
    BY <1>5, <1>6, MapFacts
<1>8. Harmless(t, free)
    BY <1>6, <1>7 DEF Harmless, ToSet
<1> QED BY <1>8 DEF t, profiles

(* The paths the redaction does not read the files of, of a snapshot.      *)
UnreadSections(s) ==
    UNION {Paths(s[d]) : d \in {"repo_files", "gpg_keys", "drop_ins", "tuned_profiles", "items"}}
InProjects(s) ==
    UNION {{InDir(i.path, <<i.files[j].name>>) : j \in DOMAIN i.files} : i \in ToSet(s.items)}
TimerPaths(s) == {UnitPath(Append(t.name, "timer")) : t \in ToSet(s.systemd_timers)}
Unread(s) == UnreadSections(s) \cup InProjects(s) \cup TimerPaths(s)

LEMMA HarmlessTree ==
    ASSUME NEW s, IsSnapshot(s), Jobs(s.generated_timer_units), Projects(s.items),
           Passed(s)
    PROVE  /\ IsList(s.quadlet_units)
           /\ \A p \in DOMAIN WriteConfigTree(s) \ Unread(s) : Plain(WriteConfigTree(s)[p])
<1> DEFINE free == Unread(s)
<1>1. \A d \in Lists : IsList(s[d])
    BY DEF IsSnapshot, Records
<1>2. /\ IsList(s.config) /\ IsList(s.repo_files) /\ IsList(s.gpg_keys) /\ IsList(s.firewall_zones)
      /\ IsList(s.tuned_profiles) /\ IsList(s.drop_ins) /\ IsList(s.generated_timer_units)
      /\ IsList(s.systemd_timers) /\ IsList(s.env_files) /\ IsList(s.snippets)
      /\ IsList(s.quadlet_units) /\ IsList(s.items)
    BY <1>1 DEF Lists
<1>3. /\ \A x \in ToSet(s.config) : Plain(x.text)
      /\ \A x \in ToSet(s.firewall_zones) : Plain(x.text)
      /\ \A x \in ToSet(s.snippets) : Plain(x.text)
      /\ \A x \in ToSet(s.env_files) : Plain(x.text)
      /\ \A x \in ToSet(s.generated_timer_units) : Plain(x.service_content)
      /\ \A x \in ToSet(s.systemd_timers) : Plain(x.service_content)
    BY DEF Passed, OfTexts
<1> DEFINE file(x, j) == InDir(x.path, <<x.files[j].name>>)
<1>4. /\ \A x \in ToSet(s.repo_files) : x.path \in free
      /\ \A x \in ToSet(s.gpg_keys) : x.path \in free
      /\ \A x \in ToSet(s.drop_ins) : x.path \in free
      /\ \A x \in ToSet(s.tuned_profiles) : x.path \in free
      /\ \A x \in ToSet(s.items) : x.path \in free /\ \A j \in DOMAIN x.files : file(x, j) \in free
      /\ \A x \in ToSet(s.systemd_timers) : UnitPath(Append(x.name, "timer")) \in free
    <2>1. \A d \in {"repo_files", "gpg_keys", "drop_ins", "tuned_profiles", "items"} :
            \A x \in ToSet(s[d]) : x.path \in UnreadSections(s)
        BY DEF UnreadSections, Paths
    <2>2. \A x \in ToSet(s.items) : \A j \in DOMAIN x.files : file(x, j) \in InProjects(s)
        BY DEF InProjects
    <2>3. \A x \in ToSet(s.systemd_timers) : UnitPath(Append(x.name, "timer")) \in TimerPaths(s)
        BY DEF TimerPaths
    <2> HIDE DEF file
    <2> QED BY <2>1, <2>2, <2>3 DEF Unread
<1>software. /\ IsList(SoftwareFiles(s))
             /\ \A f \in ToSet(SoftwareFiles(s)) : \E x \in ToSet(s.items) :
                    f.path = x.path \/ \E j \in DOMAIN x.files : f.path = file(x, j)
    BY SoftwareFilesFacts
<1> HIDE DEF free, file
<1>5. Harmless(ConfigFiles(s), free)
    <2>1. \A places \in SUBSET DOMAIN s.config :
            /\ IsList(Picked(s.config, places))
            /\ \A x \in ToSet(Picked(s.config, places)) : Plain(x.text)
        <3> TAKE places \in SUBSET DOMAIN s.config
        <3>1. IsList(Picked(s.config, places))
              /\ ToSet(Picked(s.config, places)) = {s.config[n] : n \in places}
            BY <1>2, PickedFacts
        <3> QED BY <1>3, <3>1 DEF ToSet
    <2>2. PICK places \in SUBSET DOMAIN s.config : ConfigFiles(s) = Files(Picked(s.config, places))
        BY DEF ConfigFiles, Select
    <2> QED BY <2>1, <2>2, HarmlessFiles
<1>6. /\ Harmless(Files(s.repo_files), free) /\ Harmless(Files(s.gpg_keys), free)
      /\ Harmless(Files(s.firewall_zones), free) /\ Harmless(Files(s.tuned_profiles), free)
      /\ Harmless(Files(s.drop_ins), free) /\ Harmless(Files(s.env_files), free)
      /\ Harmless(Files(s.snippets), free)
    BY <1>2, <1>3, <1>4, HarmlessFiles
<1>7. Harmless(<<>>, free)
    BY EmptyList DEF Harmless
<1>8. Harmless(DirectXml(s), free)
    <2>1. DirectXml(s) = <<>> \/ \E path, of : DirectXml(s) = <<File(path, Text(of, {}))>>
        BY DEF DirectXml
    <2> QED BY <1>7, <2>1, HarmlessOne
<1>9. Harmless(TimerFiles(Kept(s.generated_timer_units)), free)
    <2>1. IsList(Kept(s.generated_timer_units))
          /\ \A t \in ToSet(Kept(s.generated_timer_units)) :
                Plain(t.timer_content) /\ Plain(t.service_content)
        BY <1>2, <1>3, KeptFacts DEF Jobs, Plain
    <2> QED BY <2>1, TimerFilesFacts DEF Harmless
<1>10. Harmless(TimerFiles(s.systemd_timers), free)
    BY <1>2, <1>3, <1>4, TimerFilesFacts DEF Harmless
<1>11. Harmless(SoftwareFiles(s), free)
    BY <1>4, <1>software DEF Harmless
<1>12. Harmless(SysusersFiles(s), free)
    BY HarmlessGenerated, HarmlessConcat DEF SysusersFiles
<1>13. Harmless(SysctlConf(s), free) /\ Harmless(Kargs(s), free)
    BY HarmlessGenerated DEF SysctlConf, Kargs
<1>14. Harmless(VarTmpfiles(s), free)
    <2>1. \E path, of : VarTmpfiles(s) = <<File(path, Text(of, {}))>>
        BY DEF VarTmpfiles
    <2> QED BY <2>1, HarmlessOne
<1> DEFINE before == ConfigFiles(s) \o Files(s.repo_files) \o Files(s.gpg_keys)
                     \o Files(s.firewall_zones) \o DirectXml(s)
           profiles == SetToSeq(MissingProfiles(s, before))
           empty == [i \in DOMAIN profiles |-> File(profiles[i], NoText)]
           a == before \o empty \o Files(s.tuned_profiles) \o Files(s.drop_ins)
           b == a \o TimerFiles(Kept(s.generated_timer_units)) \o TimerFiles(s.systemd_timers)
                  \o Files(s.env_files) \o SoftwareFiles(s)
           c == b \o SysusersFiles(s) \o Files(s.snippets) \o SysctlConf(s)
                  \o Kargs(s) \o VarTmpfiles(s)
<1>15. WriteConfigTree(s) = Written(c)
    BY DEF WriteConfigTree
<1>16. Harmless(before, free)
    BY <1>5, <1>6, <1>8, HarmlessConcat
<1> HIDE DEF before
<1>17. Harmless(empty, free)
    BY HarmlessProfiles
<1> HIDE DEF empty
<1>18. Harmless(a, free)
    BY <1>6, <1>16, <1>17, HarmlessConcat
<1> HIDE DEF a
<1>19. Harmless(b, free)
    BY <1>6, <1>9, <1>10, <1>11, <1>18, HarmlessConcat
<1> HIDE DEF b
<1>20. Harmless(c, free)
    BY <1>6, <1>12, <1>13, <1>14, <1>19, HarmlessConcat
<1> HIDE DEF c
<1>21. ASSUME NEW p \in DOMAIN Written(c), p \notin free PROVE Plain(Written(c)[p])
    <2>1. PICK f \in ToSet(c) : f.path = p /\ Written(c)[p] = f.text
        BY <1>20, WrittenFacts DEF Harmless
    <2> QED BY <1>20, <1>21, <2>1 DEF Harmless
<1> QED BY <1>2, <1>15, <1>21 DEF free

LEMMA HarmlessQuadlets ==
    ASSUME NEW s, IsSnapshot(s), Passed(s)
    PROVE  \A p \in DOMAIN WriteQuadlets(s) : Plain(WriteQuadlets(s)[p])
<1> DEFINE kept == Kept(s.quadlet_units)
           places == {n \in DOMAIN kept : kept[n].text # NoText}
           units == Picked(kept, places)
           t == [i \in DOMAIN units |-> File(Path("etc", QuadletDir, units[i].path.name), units[i].text)]
<1>1. IsList(s.quadlet_units) /\ \A x \in ToSet(s.quadlet_units) : Plain(x.text)
    BY DEF Passed, OfTexts, IsSnapshot, Lists, Records
<1>2. IsList(kept) /\ \A x \in ToSet(kept) : Plain(x.text)
    BY <1>1, KeptFacts
<1>3. IsList(units) /\ \A x \in ToSet(units) : Plain(x.text)
    <2>1. IsList(units) /\ ToSet(units) = {kept[n] : n \in places}
        <3> HIDE DEF kept
        <3> QED BY <1>2, PickedFacts
    <2> QED BY <1>2, <2>1 DEF ToSet
<1>4. t = [i \in DOMAIN units |-> t[i]] /\ \A i \in DOMAIN units : t[i].text = units[i].text
    BY DEF File
<1>5. WriteQuadlets(s) = Written(t)
    BY DEF WriteQuadlets, Select
<1> HIDE DEF t, units
<1>6. IsList(t) /\ \A f \in ToSet(t) : Plain(f.text)
    <2>1. IsList(t) /\ DOMAIN t = DOMAIN units
        BY <1>3, <1>4, MapFacts
    <2> QED BY <1>3, <1>4, <2>1 DEF ToSet
<1>7. \A p \in DOMAIN Written(t) : \E f \in ToSet(t) : Written(t)[p] = f.text
    BY <1>6, WrittenFacts
<1>8. \A p \in DOMAIN Written(t) : Plain(Written(t)[p])
    BY <1>6, <1>7
<1> QED BY <1>5, <1>8

\* Whatever host is migrated, the files of a rendering whose section is redacted
\* have no secret that the scan before a push (scan_directory_for_secrets())
\* would object to: each file of config/ and quadlet/ comes from a section that
\* was redacted, from the tool itself, or from one of those named.
THEOREM NoSecretLeft == MigrationSpec => []ScanAgreesWithRedaction
<1>1. MigrationInv => ScanAgreesWithRedaction
    <2>1. SUFFICES ASSUME MigrationInv, Drawn
                   PROVE  /\ \A p \in DOMAIN tree.config \ NotRedacted : Plain(tree.config[p])
                          /\ \A p \in DOMAIN tree.quadlet : Plain(tree.quadlet[p])
        <3>1. ASSUME NEW text, Plain(text)
              PROVE  \A match \in Objections(text) : match[1] # "secret"
            BY <3>1 DEF Objections, Matching, Plain
        <3> QED BY <3>1 DEF ScanAgreesWithRedaction
    <2>2. /\ IsSnapshot(snap) /\ Jobs(snap.generated_timer_units) /\ Projects(snap.items)
          /\ Passed(snap)
          /\ tree = [config |-> WriteConfigTree(snap), quadlet |-> WriteQuadlets(snap)]
        BY <2>1 DEF MigrationInv, InStep
    <2>3. tree.config = WriteConfigTree(snap) /\ tree.quadlet = WriteQuadlets(snap)
        BY <2>2
    <2>4. NotRedacted = Unread(snap)
        BY DEF NotRedacted, Unread, UnreadSections, InProjects, TimerPaths
    <2> QED BY <2>2, <2>3, <2>4, HarmlessTree, HarmlessQuadlets
<1> QED BY <1>1, MigrationInvariant, PTL
-----------------------------------------------------------------------------
(* The Containerfile                                                       *)

LEMMA ConcatAssoc ==
    ASSUME NEW s, NEW t, NEW u, IsList(s), IsList(t), IsList(u)
    PROVE  (s \o t) \o u = s \o (t \o u)
<1> DEFINE S == ToSet(s) \cup ToSet(t) \cup ToSet(u)
<1>1. s \in Seq(ToSet(s)) /\ t \in Seq(ToSet(t)) /\ u \in Seq(ToSet(u))
    BY ListsAreSequences
<1>2. s \in Seq(S) /\ t \in Seq(S) /\ u \in Seq(S)
    <2>1. ToSet(s) \subseteq S /\ ToSet(t) \subseteq S /\ ToSet(u) \subseteq S
        OBVIOUS
    <2> HIDE DEF S
    <2> QED BY <1>1, <2>1, SeqMonotonic
<1> HIDE DEF S
<1> QED BY <1>2, ConcatAssociative

(* What comes in a list before a place.                                    *)
Before(c, n) == {c[i] : i \in 1..(n - 1)}

(* A list of the elements of n sections in their order: what is before an element of *)
(* a section are all earlier sections, and no later one.                   *)
InOrder(c, sections, n) ==
    /\ IsList(c) /\ ToSet(c) = UNION {sections[k] : k \in 1..n}
    /\ \A i \in DOMAIN c : \E k \in 1..n :
        /\ c[i] \in sections[k]
        /\ \A l \in 1..(k - 1) : sections[l] \subseteq Before(c, i)
        /\ Before(c, i) \subseteq UNION {sections[l] : l \in 1..k}

LEMMA InOrderNext ==
    ASSUME NEW c, NEW sections, NEW n \in Nat, InOrder(c, sections, n),
           NEW s, IsList(s), sections[n + 1] = ToSet(s)
    PROVE  InOrder(c \o s, sections, n + 1)
<1> DEFINE d == c \o s
           Upto(k) == UNION {sections[l] : l \in 1..k}
<1>1. /\ IsList(c) /\ Len(c) \in Nat /\ DOMAIN c = 1..Len(c)
      /\ Len(s) \in Nat /\ DOMAIN s = 1..Len(s)
    BY ListFacts DEF InOrder
<1>2. /\ IsList(d) /\ Len(d) = Len(c) + Len(s) /\ ToSet(d) = ToSet(c) \cup ToSet(s)
      /\ \A i \in 1..Len(c) : d[i] = c[i]
      /\ \A i \in 1..Len(s) : d[Len(c) + i] = s[i]
    BY <1>1, Concatenation
<1> HIDE DEF d
<1>3. DOMAIN d = 1..(Len(c) + Len(s))
    BY <1>2, ListFacts
<1>4. \A k : k \in 1..(n + 1) <=> k \in 1..n \/ k = n + 1
    OBVIOUS
<1>5. ToSet(d) = Upto(n + 1)
    BY <1>2, <1>4 DEF InOrder
<1>6. ASSUME NEW i \in 1..Len(c)
      PROVE  \E k \in 1..(n + 1) :
                /\ d[i] \in sections[k]
                /\ \A l \in 1..(k - 1) : sections[l] \subseteq Before(d, i)
                /\ Before(d, i) \subseteq Upto(k)
    <2>1. Before(d, i) = Before(c, i)
        BY <1>1, <1>2 DEF Before
    <2>2. PICK k \in 1..n :
            /\ c[i] \in sections[k]
            /\ \A l \in 1..(k - 1) : sections[l] \subseteq Before(c, i)
            /\ Before(c, i) \subseteq Upto(k)
        BY <1>1 DEF InOrder
    <2> HIDE DEF Upto
    <2> QED BY <1>2, <1>4, <2>1, <2>2
<1>7. ASSUME NEW i \in 1..Len(s)
      PROVE  \E k \in 1..(n + 1) :
                /\ d[Len(c) + i] \in sections[k]
                /\ \A l \in 1..(k - 1) : sections[l] \subseteq Before(d, Len(c) + i)
                /\ Before(d, Len(c) + i) \subseteq Upto(k)
    <2>1. d[Len(c) + i] \in ToSet(s)
        BY <1>1, <1>2 DEF ToSet
    <2>2. ToSet(c) \subseteq Before(d, Len(c) + i)
        <3>1. \A j \in 1..Len(c) : j \in 1..(Len(c) + i - 1) /\ d[j] = c[j]
            BY <1>1, <1>2
        <3> QED BY <1>1, <3>1 DEF ToSet, Before
    <2>3. Before(d, Len(c) + i) \subseteq ToSet(d)
        <3>1. \A j \in 1..(Len(c) + i - 1) : j \in DOMAIN d
            BY <1>1, <1>3
        <3> QED BY <3>1 DEF ToSet, Before
    <2>4. \A l \in 1..((n + 1) - 1) : l \in 1..n
        OBVIOUS
    <2>5. \A l \in 1..n : sections[l] \subseteq ToSet(c)
        BY DEF InOrder
    <2> HIDE DEF Upto
    <2> QED BY <1>4, <1>5, <2>1, <2>2, <2>3, <2>4, <2>5
<1>8. \A i \in DOMAIN d : i \in 1..Len(c) \/ \E j \in 1..Len(s) : i = Len(c) + j
    <2>1. \A i \in 1..(Len(c) + Len(s)) : i \in 1..Len(c) \/ (i - Len(c) \in 1..Len(s) /\ i = Len(c) + (i - Len(c)))
        BY <1>1
    <2> QED BY <1>3, <2>1
<1>9. \A i \in DOMAIN d : \E k \in 1..(n + 1) :
                /\ d[i] \in sections[k]
                /\ \A l \in 1..(k - 1) : sections[l] \subseteq Before(d, i)
                /\ Before(d, i) \subseteq Upto(k)
    <2> HIDE DEF Upto
    <2> QED BY <1>6, <1>7, <1>8
<1> QED BY <1>2, <1>5, <1>9 DEF InOrder, d

LEMMA InOrderNone == ASSUME NEW sections PROVE InOrder(<<>>, sections, 0)
<1>1. 1..0 = {} /\ DOMAIN <<>> = {}
    OBVIOUS
<1> QED BY <1>1, EmptyList DEF InOrder

LEMMA InOrderThen ==
    ASSUME NEW c, NEW sets, NEW n \in Nat, NEW m, m = n + 1, InOrder(c, sets, n),
           NEW s, IsList(s), sets[m] = ToSet(s)
    PROVE  IsList(c \o s) /\ InOrder(c \o s, sets, m)
<1>1. InOrder(c \o s, sets, n + 1)
    <2>1. sets[n + 1] = ToSet(s)
        OBVIOUS
    <2> QED BY <2>1, InOrderNext
<1> QED BY <1>1 DEF InOrder

LEMMA FourteenSections ==
    ASSUME NEW sets, NEW s1, NEW s2, NEW s3, NEW s4, NEW s5, NEW s6, NEW s7, NEW s8, NEW s9,
           NEW s10, NEW s11, NEW s12, NEW s13, NEW s14,
           IsList(s1), IsList(s2), IsList(s3), IsList(s4), IsList(s5), IsList(s6), IsList(s7),
           IsList(s8), IsList(s9), IsList(s10), IsList(s11), IsList(s12), IsList(s13), IsList(s14),
           sets[1] = ToSet(s1), sets[2] = ToSet(s2), sets[3] = ToSet(s3), sets[4] = ToSet(s4),
           sets[5] = ToSet(s5), sets[6] = ToSet(s6), sets[7] = ToSet(s7), sets[8] = ToSet(s8),
           sets[9] = ToSet(s9), sets[10] = ToSet(s10), sets[11] = ToSet(s11),
           sets[12] = ToSet(s12), sets[13] = ToSet(s13), sets[14] = ToSet(s14)
    PROVE  InOrder(s1 \o s2 \o (s3 \o s4) \o (s5 \o s6) \o s7 \o (s8 \o s9) \o s10
                   \o (s11 \o s12 \o s13) \o s14, sets, 14)
<1>1. <<>> \o s1 = s1
    BY ConcatEmpty
<1>2. InOrder(<<>> \o s1, sets, 1)
    <2>1. InOrder(<<>>, sets, 0) /\ 1 = 0 + 1
        BY InOrderNone
    <2> QED BY ONLY <2>1, InOrderThen, IsList(s1), sets[1] = ToSet(s1)
<1>3. PICK c1 : c1 = s1 /\ InOrder(c1, sets, 1)
    BY <1>1, <1>2
<1>4. PICK c2 : c2 = c1 \o s2 /\ InOrder(c2, sets, 2)
    <2>1. IsList(c1 \o s2) /\ InOrder(c1 \o s2, sets, 2)
        BY <1>3, InOrderThen
    <2> QED BY <2>1
<1>5. PICK c3 : c3 = c2 \o s3 /\ InOrder(c3, sets, 3)
    <2>1. IsList(c2 \o s3) /\ InOrder(c2 \o s3, sets, 3)
        BY <1>4, InOrderThen
    <2> QED BY <2>1
<1>6. PICK c4 : c4 = c3 \o s4 /\ InOrder(c4, sets, 4)
    <2>1. IsList(c3 \o s4) /\ InOrder(c3 \o s4, sets, 4)
        BY <1>5, InOrderThen
    <2> QED BY <2>1
<1>7. PICK c5 : c5 = c4 \o s5 /\ InOrder(c5, sets, 5)
    <2>1. IsList(c4 \o s5) /\ InOrder(c4 \o s5, sets, 5)
        BY <1>6, InOrderThen
    <2> QED BY <2>1
<1>8. PICK c6 : c6 = c5 \o s6 /\ InOrder(c6, sets, 6)
    <2>1. IsList(c5 \o s6) /\ InOrder(c5 \o s6, sets, 6)
        BY <1>7, InOrderThen
    <2> QED BY <2>1
<1>9. PICK c7 : c7 = c6 \o s7 /\ InOrder(c7, sets, 7)
    <2>1. IsList(c6 \o s7) /\ InOrder(c6 \o s7, sets, 7)
        BY <1>8, InOrderThen
    <2> QED BY <2>1
<1>10. PICK c8 : c8 = c7 \o s8 /\ InOrder(c8, sets, 8)
    <2>1. IsList(c7 \o s8) /\ InOrder(c7 \o s8, sets, 8)
        BY <1>9, InOrderThen
    <2> QED BY <2>1
<1>11. PICK c9 : c9 = c8 \o s9 /\ InOrder(c9, sets, 9)
    <2>1. IsList(c8 \o s9) /\ InOrder(c8 \o s9, sets, 9)
        BY <1>10, InOrderThen
    <2> QED BY <2>1
<1>12. PICK c10 : c10 = c9 \o s10 /\ InOrder(c10, sets, 10)
    <2>1. IsList(c9 \o s10) /\ InOrder(c9 \o s10, sets, 10)
        BY <1>11, InOrderThen
    <2> QED BY <2>1
<1>13. PICK c11 : c11 = c10 \o s11 /\ InOrder(c11, sets, 11)
    <2>1. IsList(c10 \o s11) /\ InOrder(c10 \o s11, sets, 11)
        BY <1>12, InOrderThen
    <2> QED BY <2>1
<1>14. PICK c12 : c12 = c11 \o s12 /\ InOrder(c12, sets, 12)
    <2>1. IsList(c11 \o s12) /\ InOrder(c11 \o s12, sets, 12)
        BY <1>13, InOrderThen
    <2> QED BY <2>1
<1>15. PICK c13 : c13 = c12 \o s13 /\ InOrder(c13, sets, 13)
    <2>1. IsList(c12 \o s13) /\ InOrder(c12 \o s13, sets, 13)
        BY <1>14, InOrderThen
    <2> QED BY <2>1
<1>16. PICK c14 : c14 = c13 \o s14 /\ InOrder(c14, sets, 14)
    <2>1. IsList(c13 \o s14) /\ InOrder(c13 \o s14, sets, 14)
        BY <1>15, InOrderThen
    <2> QED BY <2>1
<1>17. IsList(c2) /\ IsList(c4) /\ IsList(c7) /\ IsList(c10)
    BY <1>4, <1>6, <1>9, <1>12 DEF InOrder
<1>19. c4 = c2 \o (s3 \o s4)
    <2>1. (c2 \o s3) \o s4 = c2 \o (s3 \o s4)
        BY ONLY <1>17, ConcatAssoc, IsList(s3), IsList(s4), SMTT(30)
    <2> QED BY <2>1, <1>5, <1>6
<1>20. c6 = c4 \o (s5 \o s6)
    <2>1. (c4 \o s5) \o s6 = c4 \o (s5 \o s6)
        BY ONLY <1>17, ConcatAssoc, IsList(s5), IsList(s6), SMTT(30)
    <2> QED BY <2>1, <1>7, <1>8
<1>21. c9 = c7 \o (s8 \o s9)
    <2>1. (c7 \o s8) \o s9 = c7 \o (s8 \o s9)
        BY ONLY <1>17, ConcatAssoc, IsList(s8), IsList(s9), SMTT(30)
    <2> QED BY <2>1, <1>10, <1>11
<1>22. c12 = c10 \o (s11 \o s12)
    <2>1. (c10 \o s11) \o s12 = c10 \o (s11 \o s12)
        BY ONLY <1>17, ConcatAssoc, IsList(s11), IsList(s12), SMTT(30)
    <2> QED BY <2>1, <1>13, <1>14
<1>23. c13 = c10 \o (s11 \o s12 \o s13)
    <2>1. IsList(s11 \o s12)
        BY Concatenation
    <2>2. (c10 \o (s11 \o s12)) \o s13 = c10 \o ((s11 \o s12) \o s13)
        BY ONLY <1>17, <2>1, ConcatAssoc, IsList(s13), SMTT(30)
    <2> QED BY <2>2, <1>15, <1>22
<1> QED BY <1>3, <1>4, <1>9, <1>12, <1>16, <1>19, <1>20, <1>21, <1>23

(* The instructions of a Containerfile, section after section.             *)
Step(what, args) == [do |-> what, args |-> args]

TimerNames(s) == {t.name : t \in ToSet(s.systemd_timers)}
                 \cup {u.name : u \in ToSet(Kept(s.generated_timer_units))}

Built9(s) == {i \in ToSet(Kept(s.items)) : Tool(i.method) # None}

(* Section 9: venvs with packages, projects, and the system's Python.      *)
Venvs9(s) == {i \in ToSet(Kept(s.items)) : i.method = "python venv" /\ i.pip}

Rebuilding(s) ==
    {Step("copy_project", i.path) : i \in Built9(s)}
    \cup {Step("rebuild", Tool(i.method)) : i \in Built9(s)}
    \cup {x \in {Step("rebuild", "python3")} : Venvs9(s) # {}}
    \cup {x \in {Step("rebuild", "python3-pip")} : OfDists(s) # {}}

Instructions(s, t) ==
    [k \in 1..14 |->
        CASE k = 1 -> {x \in {Step("copy", CopyDirs(s.gpg_keys)), Step("copy", CopyDirs(s.repo_files))} :
                            /\ x.args # {}
                            /\ x = Step("copy", CopyDirs(s.repo_files))
                                \/ CopyDirs(s.repo_files) # {} \/ s.repo_files = <<>>}
          [] k = 2 -> {x \in {Step("install", Installed(s))} : Installed(s) # {}}
          [] k = 3 -> {x \in {Step("enable", EnabledEarly(s))} : EnabledEarly(s) # {}}
          [] k = 4 -> {x \in {Step("disable", DisabledEarly(s))} : DisabledEarly(s) # {}}
          [] k = 5 -> {x \in {Step("copy", {[top |-> "etc", dir |-> UnitDir]})} : TimerNames(s) # {}}
          [] k = 6 -> {x \in {Step("enable", {Append(n, "timer") : n \in TimerNames(s)})} : TimerNames(s) # {}}
          [] k = 7 -> {Step("copy_roots", ConfigCopyRoots(t))}
          [] k = 8 -> {x \in {Step("install", Needed(s))} : Needed(s) # {}}
          [] k = 9 -> Rebuilding(s)
          [] k = 10 -> {x \in {Step("copy_quadlets", {})} : Kept(s.quadlet_units) # <<>>}
          [] k = 11 -> {x \in {Step("copy", {[top |-> SysusersConf.top, dir |-> SysusersConf.dir]})} :
                            By("sysusers", s.users) # <<>>}
          [] k = 12 -> {Step("groupadd", g) : g \in ToSet(UseraddGroups(s))}
          [] k = 13 -> {Step("useradd", u) : u \in ToSet(By("useradd", s.users))}
          [] OTHER -> {x \in {Step("copy", {[top |-> KargsToml.top, dir |-> KargsToml.dir]})} :
                            OperatorKargs(s.cmdline) # <<>>}]

LEMMA DoFacts ==
    ASSUME NEW what, NEW args
    PROVE  IsList(Do(what, args)) /\ ToSet(Do(what, args)) = {Step(what, args)}
BY OneElement DEF Do, Step

LEMMA DoEachFacts ==
    ASSUME NEW what, NEW list, IsList(list)
    PROVE  /\ IsList(DoEach(what, list))
           /\ ToSet(DoEach(what, list)) = {Step(what, x) : x \in ToSet(list)}
<1> DEFINE t == DoEach(what, list)
<1>1. t = [i \in DOMAIN list |-> t[i]] /\ \A i \in DOMAIN list : t[i] = Step(what, list[i])
    BY DEF DoEach, Step
<1> HIDE DEF t
<1>2. IsList(t) /\ DOMAIN t = DOMAIN list
    BY <1>1, MapFacts
<1>3. ToSet(t) = {Step(what, x) : x \in ToSet(list)}
    BY <1>1, <1>2 DEF ToSet
<1> QED BY <1>2, <1>3 DEF t

LEMMA EmptyWhenNone ==
    ASSUME NEW s, IsList(s)
    PROVE  s = <<>> <=> ToSet(s) = {}
<1>1. Len(s) \in Nat /\ DOMAIN s = 1..Len(s) /\ (s # <<>> <=> Len(s) # 0)
    BY ListFacts
<1>2. ASSUME s # <<>>
      PROVE  ToSet(s) # {}
    <2>1. 1 \in DOMAIN s
        BY <1>1, <1>2
    <2> QED BY <2>1 DEF ToSet
<1> QED BY <1>2, EmptyList

LEMMA ByFacts ==
    ASSUME NEW accounts, IsList(accounts), NEW strategy
    PROVE  /\ IsList(By(strategy, accounts))
           /\ ToSet(By(strategy, accounts)) =
                {x \in ToSet(accounts) : x.include /\ x.strategy = strategy}
           /\ By(strategy, accounts) = <<>> <=> ToSet(By(strategy, accounts)) = {}
<1> DEFINE places == {n \in DOMAIN accounts : accounts[n].include /\ accounts[n].strategy = strategy}
           b == By(strategy, accounts)
<1>1. b = Picked(accounts, places) /\ places \in SUBSET DOMAIN accounts
    BY DEF By, Select
<1>2. /\ IsList(Picked(accounts, places))
      /\ ToSet(Picked(accounts, places)) = {accounts[n] : n \in places}
    BY <1>1, PickedFacts
<1>3. IsList(b) /\ ToSet(b) = {accounts[n] : n \in places}
    BY <1>1, <1>2
<1>4. {accounts[n] : n \in places} = {x \in ToSet(accounts) : x.include /\ x.strategy = strategy}
    BY DEF ToSet
<1> HIDE DEF b
<1>5. b = <<>> <=> ToSet(b) = {}
    BY <1>3, EmptyWhenNone
<1> QED BY <1>3, <1>4, <1>5 DEF b

(* What is rebuilt, and how: instructions of section 9.                    *)
LEMMA RebuildFacts ==
    ASSUME NEW s, IsList(s.items)
    PROVE  LET kept == Kept(s.items)
               a == FlattenSeq([i \in DOMAIN kept |-> Rebuilt(kept[i])])
               b == When(OfDists(s) # {}, Do("rebuild", "python3-pip"))
           IN  /\ IsList(a) /\ IsList(b) /\ IsList(a \o b)
               /\ ToSet(a \o b) = Rebuilding(s)
<1> DEFINE kept == Kept(s.items)
           lists == [i \in DOMAIN kept |-> Rebuilt(kept[i])]
           steps(i) == {x \in {Step("copy_project", i.path), Step("rebuild", Tool(i.method))} :
                            Tool(i.method) # None}
                       \cup {x \in {Step("rebuild", "python3")} : i.method = "python venv" /\ i.pip}
           dists == When(OfDists(s) # {}, Do("rebuild", "python3-pip"))
<1>1. IsList(kept)
    BY KeptFacts
<1>2. ASSUME NEW i PROVE IsList(Rebuilt(i)) /\ ToSet(Rebuilt(i)) = steps(i)
    <2>1. CASE i.method = "python venv"
        <3>1. Rebuilt(i) = When(i.pip, Do("rebuild", "python3")) /\ Tool(i.method) = None
            BY <2>1 DEF Rebuilt, Tool
        <3>2. CASE i.pip
            BY <2>1, <3>1, <3>2, DoFacts DEF When
        <3>3. CASE ~i.pip
            BY <2>1, <3>1, <3>3, EmptyList DEF When
        <3> QED BY <3>2, <3>3
    <2>2. CASE i.method # "python venv"
        <3>1. Rebuilt(i) = When(Tool(i.method) # None,
                                Do("copy_project", i.path) \o Do("rebuild", Tool(i.method)))
            BY <2>2 DEF Rebuilt
        <3>2. CASE Tool(i.method) # None
            <4>1. PICK a : a = Do("copy_project", i.path)
                OBVIOUS
            <4>2. PICK b : b = Do("rebuild", Tool(i.method))
                OBVIOUS
            <4>3. IsList(a) /\ ToSet(a) = {Step("copy_project", i.path)}
                BY <4>1, DoFacts
            <4>4. IsList(b) /\ ToSet(b) = {Step("rebuild", Tool(i.method))}
                BY <4>2, DoFacts
            <4>5. IsList(a \o b) /\ ToSet(a \o b) = ToSet(a) \cup ToSet(b)
                BY <4>3, <4>4, Concatenation
            <4>6. Rebuilt(i) = a \o b
                BY <3>1, <3>2, <4>1, <4>2 DEF When
            <4> QED BY <2>2, <3>2, <4>3, <4>4, <4>5, <4>6
        <3>3. CASE Tool(i.method) = None
            BY <2>2, <3>1, <3>3, EmptyList DEF When
        <3> QED BY <3>2, <3>3
    <2> QED BY <2>1, <2>2
<1>3. lists = [i \in DOMAIN kept |-> lists[i]] /\ \A i \in DOMAIN kept : lists[i] = Rebuilt(kept[i])
    OBVIOUS
<1>4. IsList(dists) /\ ToSet(dists) = {x \in {Step("rebuild", "python3-pip")} : OfDists(s) # {}}
    BY DoFacts, EmptyList DEF When
<1>5. /\ Built9(s) = {i \in ToSet(kept) : Tool(i.method) # None}
      /\ Venvs9(s) = {i \in ToSet(kept) : i.method = "python venv" /\ i.pip}
    BY DEF Built9, Venvs9
<1> HIDE DEF kept, lists, dists
<1>6. IsList(lists) /\ DOMAIN lists = DOMAIN kept /\ \A i \in DOMAIN lists : IsList(lists[i])
    BY <1>1, <1>2, <1>3, MapFacts
<1>7. /\ IsList(FlattenSeq(lists))
      /\ ToSet(FlattenSeq(lists)) = UNION {ToSet(lists[i]) : i \in DOMAIN lists}
    BY <1>6, FlattenFacts
<1>8. ToSet(FlattenSeq(lists)) = UNION {steps(i) : i \in ToSet(kept)}
    <2>1. {ToSet(lists[i]) : i \in DOMAIN lists} = {steps(kept[i]) : i \in DOMAIN kept}
        <3>1. \A i \in DOMAIN kept : ToSet(lists[i]) = steps(kept[i])
            <4> HIDE DEF steps
            <4> QED BY <1>2, <1>3
        <3> HIDE DEF steps
        <3> QED BY <1>6, <3>1
    <2>2. {steps(kept[i]) : i \in DOMAIN kept} = {steps(i) : i \in ToSet(kept)}
        <3> HIDE DEF steps
        <3> QED BY DEF ToSet
    <2> QED BY <1>7, <2>1, <2>2
<1>9. UNION {steps(i) : i \in ToSet(kept)}
        = {Step("copy_project", i.path) : i \in Built9(s)}
          \cup {Step("rebuild", Tool(i.method)) : i \in Built9(s)}
          \cup {x \in {Step("rebuild", "python3")} : Venvs9(s) # {}}
    <2> DEFINE all == {Step("copy_project", i.path) : i \in Built9(s)}
                      \cup {Step("rebuild", Tool(i.method)) : i \in Built9(s)}
                      \cup {x \in {Step("rebuild", "python3")} : Venvs9(s) # {}}
    <2>1. ASSUME NEW i \in ToSet(kept), NEW x \in steps(i) PROVE x \in all
        <3>1. CASE x \in {Step("copy_project", i.path), Step("rebuild", Tool(i.method))} /\ Tool(i.method) # None
            <4>1. i \in Built9(s)
                BY <1>5, <3>1
            <4> QED BY <3>1, <4>1
        <3>2. CASE x = Step("rebuild", "python3") /\ i.method = "python venv" /\ i.pip
            <4>1. i \in Venvs9(s)
                BY <1>5, <3>2
            <4> QED BY <3>2, <4>1
        <3> QED BY <3>1, <3>2
    <2>2. ASSUME NEW x \in all PROVE \E i \in ToSet(kept) : x \in steps(i)
        <3>1. CASE \E i \in Built9(s) : x = Step("copy_project", i.path) \/ x = Step("rebuild", Tool(i.method))
            BY <1>5, <3>1
        <3>2. CASE x = Step("rebuild", "python3") /\ Venvs9(s) # {}
            BY <1>5, <3>2
        <3> QED BY <3>1, <3>2
    <2> HIDE DEF all, steps
    <2>3. UNION {steps(i) : i \in ToSet(kept)} = all
        BY <2>1, <2>2
    <2> QED BY <2>3 DEF all
<1>10. /\ IsList(FlattenSeq(lists) \o dists)
       /\ ToSet(FlattenSeq(lists) \o dists) = ToSet(FlattenSeq(lists)) \cup ToSet(dists)
    BY <1>4, <1>7, Concatenation
<1>11. ToSet(FlattenSeq(lists) \o dists) = Rebuilding(s)
    BY <1>4, <1>8, <1>9, <1>10 DEF Rebuilding
<1> QED BY <1>4, <1>7, <1>10, <1>11 DEF lists, kept, dists

LEMMA RenderInOrder ==
    ASSUME NEW s, NEW t, IsSnapshot(s)
    PROVE  InOrder(Render(s, t), Instructions(s, t), 14)
<1> DEFINE sets == Instructions(s, t)
           repos == CopyDirs(s.repo_files)
           keys == CopyDirs(s.gpg_keys)
           wanted == keys # {} /\ (repos # {} \/ s.repo_files = <<>>)
           names == TimerNames(s)
           units == {Append(n, "timer") : n \in names}
           dir == {[top |-> "etc", dir |-> UnitDir]}
           sysdir == {[top |-> SysusersConf.top, dir |-> SysusersConf.dir]}
           kargdir == {[top |-> KargsToml.top, dir |-> KargsToml.dir]}
<1>1. /\ IsList(s.items) /\ IsList(s.users) /\ IsList(s.groups) /\ IsList(s.cmdline)
      /\ IsList(s.quadlet_units)
    BY DEF IsSnapshot, Records, Lists
<1>2. \A what, args :
        IsList(Do(what, args)) /\ ToSet(Do(what, args)) = {Step(what, args)}
    BY DoFacts
<1>3. PICK s1 : s1 = RepositoryConfiguration(s)
    OBVIOUS
<1>4. IsList(s1) /\ sets[1] = ToSet(s1)
    <2>1. PICK a : a = When(wanted, Do("copy", keys))
        OBVIOUS
    <2>2. PICK b : b = When(repos # {}, Do("copy", repos))
        OBVIOUS
    <2>3. s1 = a \o b
        BY <1>3, <2>1, <2>2 DEF RepositoryConfiguration
    <2>4. IsList(a) /\ ToSet(a) = {x \in {Step("copy", keys)} : wanted}
        BY <1>2, EmptyList, <2>1 DEF When
    <2>5. IsList(b) /\ ToSet(b) = {x \in {Step("copy", repos)} : repos # {}}
        BY <1>2, EmptyList, <2>2 DEF When
    <2>6. IsList(s1) /\ ToSet(s1) = ToSet(a) \cup ToSet(b)
        BY <2>3, <2>4, <2>5, Concatenation
    <2>7. sets[1] = {x \in {Step("copy", keys), Step("copy", repos)} :
                        x.args # {} /\ (x = Step("copy", repos) \/ repos # {} \/ s.repo_files = <<>>)}
        BY DEF Instructions
    <2>8. \A p, q : Step(p, q).args = q
        BY DEF Step
    <2> QED BY <2>4, <2>5, <2>6, <2>7, <2>8
<1>5. PICK s2 : s2 = PackageInstallation(s)
    OBVIOUS
<1>6. IsList(s2) /\ sets[2] = ToSet(s2)
    BY <1>2, EmptyList, <1>5 DEF When, PackageInstallation, Instructions
<1>7. PICK s3 : s3 = When(EnabledEarly(s) # {}, Do("enable", EnabledEarly(s)))
    OBVIOUS
<1>8. IsList(s3) /\ sets[3] = ToSet(s3)
    BY <1>2, EmptyList, <1>7 DEF When, Instructions
<1>9. PICK s4 : s4 = When(DisabledEarly(s) # {}, Do("disable", DisabledEarly(s)))
    OBVIOUS
<1>10. IsList(s4) /\ sets[4] = ToSet(s4)
    BY <1>2, EmptyList, <1>9 DEF When, Instructions
<1>11. ServiceEnablement(s) = s3 \o s4
    BY <1>7, <1>9 DEF ServiceEnablement
<1>12. PICK s5 : s5 = When(names # {}, Do("copy", dir))
    OBVIOUS
<1>13. IsList(s5) /\ sets[5] = ToSet(s5)
    BY <1>2, EmptyList, <1>12 DEF When, Instructions
<1>14. PICK s6 : s6 = When(names # {}, Do("enable", units))
    OBVIOUS
<1>15. IsList(s6) /\ sets[6] = ToSet(s6)
    BY <1>2, EmptyList, <1>14 DEF When, Instructions
<1>16. ScheduledTasksSection(s) = s5 \o s6
    <2>1. ScheduledTasksSection(s) = When(names # {}, Do("copy", dir) \o Do("enable", units))
        BY DEF ScheduledTasksSection, TimerNames
    <2>2. CASE names # {}
        BY <1>12, <1>14, <2>1, <2>2 DEF When
    <2>3. CASE names = {}
        BY <1>12, <1>14, <2>1, <2>3, EmptyList, ConcatEmpty DEF When
    <2> QED BY <2>2, <2>3
<1>17. PICK s7 : s7 = Do("copy_roots", ConfigCopyRoots(t))
    OBVIOUS
<1>18. IsList(s7) /\ sets[7] = ToSet(s7)
    BY DoFacts, <1>17 DEF Instructions
<1>19. PICK s8 : s8 = When(Needed(s) # {}, Do("install", Needed(s)))
    OBVIOUS
<1>20. IsList(s8) /\ sets[8] = ToSet(s8)
    BY <1>2, EmptyList, <1>19 DEF When, Instructions
<1>21. PICK s9 : /\ NonRpmSoftware(s) = s8 \o s9
                 /\ IsList(s9) /\ sets[9] = ToSet(s9)
    <2> DEFINE kept == Kept(s.items)
    <2>1. PICK a : a = FlattenSeq([i \in DOMAIN kept |-> Rebuilt(kept[i])])
        OBVIOUS
    <2>2. PICK b : b = When(OfDists(s) # {}, Do("rebuild", "python3-pip"))
        OBVIOUS
    <2>3. /\ IsList(a) /\ IsList(b) /\ IsList(a \o b)
          /\ ToSet(a \o b) = Rebuilding(s)
        BY <1>1, <2>1, <2>2, RebuildFacts
    <2>4. NonRpmSoftware(s) = s8 \o a \o b
        BY <1>19, <2>1, <2>2 DEF NonRpmSoftware
    <2>5. NonRpmSoftware(s) = s8 \o (a \o b)
        BY <1>20, <2>3, <2>4, ConcatAssoc
    <2>6. sets[9] = Rebuilding(s)
        BY DEF Instructions
    <2> QED BY <2>3, <2>5, <2>6
<1>22. PICK s10 : s10 = ContainerWorkloads(s)
    OBVIOUS
<1>23. IsList(s10) /\ sets[10] = ToSet(s10)
    BY <1>2, EmptyList, <1>22 DEF When, ContainerWorkloads, Instructions
<1>24. PICK s11 : s11 = When(By("sysusers", s.users) # <<>>, Do("copy", sysdir))
    OBVIOUS
<1>25. IsList(s11) /\ sets[11] = ToSet(s11)
    BY <1>2, EmptyList, <1>24 DEF When, Instructions
<1>26. PICK s12 : s12 = DoEach("groupadd", UseraddGroups(s))
    OBVIOUS
<1>27. IsList(s12) /\ sets[12] = ToSet(s12)
    <2>1. IsList(UseraddGroups(s))
        BY <1>1, ByFacts, EmptyList DEF UseraddGroups
    <2> QED BY <1>26, <2>1, DoEachFacts DEF Instructions
<1>28. PICK s13 : s13 = DoEach("useradd", By("useradd", s.users))
    OBVIOUS
<1>29. IsList(s13) /\ sets[13] = ToSet(s13)
    <2>1. IsList(By("useradd", s.users))
        BY <1>1, ByFacts
    <2> QED BY <1>28, <2>1, DoEachFacts DEF Instructions
<1>30. UsersAndGroups(s) = s11 \o s12 \o s13
    BY <1>24, <1>26, <1>28 DEF UsersAndGroups
<1>31. PICK s14 : s14 = KernelConfiguration(s)
    OBVIOUS
<1>32. IsList(s14) /\ sets[14] = ToSet(s14)
    BY <1>2, EmptyList, <1>31 DEF When, KernelConfiguration, Instructions
<1>33. Render(s, t) = s1 \o s2 \o (s3 \o s4) \o (s5 \o s6) \o s7 \o (s8 \o s9) \o s10
                   \o (s11 \o s12 \o s13) \o s14
    BY <1>3, <1>5, <1>11, <1>16, <1>17, <1>21, <1>22, <1>30, <1>31 DEF Render
<1> HIDE DEF sets
<1>34. InOrder(s1 \o s2 \o (s3 \o s4) \o (s5 \o s6) \o s7 \o (s8 \o s9) \o s10
                   \o (s11 \o s12 \o s13) \o s14, sets, 14)
    BY <1>4, <1>6, <1>8, <1>10, <1>13, <1>15, <1>18, <1>20, <1>21, <1>23, <1>25, <1>27, <1>29, <1>32,
       FourteenSections
<1> QED BY <1>33, <1>34 DEF sets

TimerUnits(s) == {Append(n, "timer") : n \in TimerNames(s)}

(* What an instruction of a section is.                                    *)
LEMMA InstructionKinds ==
    ASSUME NEW s, NEW t, NEW k \in 1..14, NEW x \in Instructions(s, t)[k]
    PROVE  /\ x.do = "install" => \/ k = 2 /\ x.args = Installed(s)
                                  \/ k = 8 /\ x.args = Needed(s)
           /\ x.do = "enable" => \/ k = 3 /\ x.args = EnabledEarly(s)
                                 \/ k = 6 /\ x.args = TimerUnits(s)
           /\ x.do = "disable" => k = 4 /\ x.args = DisabledEarly(s)
           /\ x.do = "copy" =>
                \/ x.args = CopyDirs(s.gpg_keys) /\ x.args # {}
                \/ x.args = CopyDirs(s.repo_files) /\ x.args # {}
                \/ x.args = {[top |-> "etc", dir |-> UnitDir]} /\ TimerNames(s) # {}
                \/ /\ x.args = {[top |-> SysusersConf.top, dir |-> SysusersConf.dir]}
                   /\ By("sysusers", s.users) # <<>>
                \/ /\ x.args = {[top |-> KargsToml.top, dir |-> KargsToml.dir]}
                   /\ OperatorKargs(s.cmdline) # <<>>
           /\ x.do = "copy_roots" => k = 7 /\ x.args = ConfigCopyRoots(t)
           /\ x.do = "copy_project" => k = 9 /\ \E i \in Built9(s) : x.args = i.path
           /\ x.do = "rebuild" => /\ k = 9
                                  /\ \/ \E i \in Built9(s) : x.args = Tool(i.method)
                                     \/ x.args = "python3" /\ Venvs9(s) # {}
                                     \/ x.args = "python3-pip" /\ OfDists(s) # {}
           /\ x.do = "copy_quadlets" => k = 10 /\ Kept(s.quadlet_units) # <<>>
           /\ x.do = "groupadd" => k = 12 /\ x.args \in ToSet(UseraddGroups(s))
           /\ x.do = "useradd" => k = 13 /\ x.args \in ToSet(By("useradd", s.users))
           /\ x.do \in {"install", "enable", "disable", "copy", "copy_roots", "copy_project", "rebuild",
                        "copy_quadlets", "groupadd", "useradd"}
<1>1. \A what, args : Step(what, args).do = what /\ Step(what, args).args = args
    BY DEF Step
<1>2. \/ k = 1 \/ k = 2 \/ k = 3 \/ k = 4 \/ k = 5 \/ k = 6 \/ k = 7 \/ k = 8 \/ k = 9 \/ k = 10
      \/ k = 11 \/ k = 12 \/ k = 13 \/ k = 14
    OBVIOUS
<1>3. CASE k = 1
    <2>1. \/ x = Step("copy", CopyDirs(s.gpg_keys))
          \/ x = Step("copy", CopyDirs(s.repo_files))
        BY <1>3 DEF Instructions
    <2>2. x.args # {}
        BY <1>3 DEF Instructions
    <2> QED BY <1>1, <1>3, <2>1, <2>2
<1>4. CASE k = 9
    <2>1. \/ \E i \in Built9(s) : x = Step("copy_project", i.path)
          \/ \E i \in Built9(s) : x = Step("rebuild", Tool(i.method))
          \/ x = Step("rebuild", "python3") /\ Venvs9(s) # {}
          \/ x = Step("rebuild", "python3-pip") /\ OfDists(s) # {}
        BY <1>4 DEF Instructions, Rebuilding
    <2> QED BY <1>1, <1>4, <2>1
<1>5. CASE k = 2
    BY <1>1, <1>5 DEF Instructions
<1>6. CASE k = 3
    BY <1>1, <1>6 DEF Instructions
<1>7. CASE k = 4
    BY <1>1, <1>7 DEF Instructions
<1>8. CASE k = 5
    <2>1. x = Step("copy", {[top |-> "etc", dir |-> UnitDir]}) /\ TimerNames(s) # {}
        BY <1>8 DEF Instructions
    <2> QED BY <1>1, <1>8, <2>1
<1>9. CASE k = 6
    <2>1. x = Step("enable", {Append(n, "timer") : n \in TimerNames(s)})
        BY <1>9 DEF Instructions
    <2> QED BY <1>1, <1>9, <2>1 DEF TimerUnits
<1>10. CASE k = 7
    BY <1>1, <1>10 DEF Instructions
<1>11. CASE k = 8
    BY <1>1, <1>11 DEF Instructions
<1>12. CASE k = 10
    BY <1>1, <1>12 DEF Instructions
<1>13. CASE k = 11
    <2>1. /\ x = Step("copy", {[top |-> SysusersConf.top, dir |-> SysusersConf.dir]})
          /\ By("sysusers", s.users) # <<>>
        BY <1>13 DEF Instructions
    <2> QED BY <1>1, <1>13, <2>1
<1>14. CASE k = 12
    BY <1>1, <1>14 DEF Instructions
<1>15. CASE k = 13
    BY <1>1, <1>15 DEF Instructions
<1>16. CASE k = 14
    <2>1. /\ x = Step("copy", {[top |-> KargsToml.top, dir |-> KargsToml.dir]})
          /\ OperatorKargs(s.cmdline) # <<>>
        BY <1>16 DEF Instructions
    <2> QED BY <1>1, <1>16, <2>1
<1> QED BY <1>2, <1>3, <1>4, <1>5, <1>6, <1>7, <1>8, <1>9, <1>10, <1>11, <1>12, <1>13, <1>14, <1>15, <1>16

-----------------------------------------------------------------------------
(* The build                                                               *)

Building == phase \in {"build", "failed", "booted"}
Done     == Before(program, pc)

Of(what, steps)   == {x \in steps : x.do = what}
Args(what, steps) == UNION {x.args : x \in Of(what, steps)}

Doings == {"install", "enable", "disable", "copy", "copy_roots", "copy_project", "rebuild",
           "copy_quadlets", "groupadd", "useradd"}

(* The files a step brings.                                                *)
Brought(x) == IF x.do = "copy_quadlets" THEN DOMAIN tree.quadlet ELSE Sources(x)

(* An image has its four parts.                                            *)
IsImage(i) ==
    /\ i = [packages |-> i.packages, enabled |-> i.enabled, files |-> i.files, accounts |-> i.accounts]
    /\ i.accounts = [gids |-> i.accounts.gids, names |-> i.accounts.names]

LEMMA NoImageIsImage == IsImage(NoImage)
BY DEF IsImage, NoImage

LEMMA SourcesFacts ==
    ASSUME NEW x
    PROVE  /\ Sources(x) \subseteq DOMAIN tree.config
           /\ x.do \notin {"copy", "copy_roots", "copy_project"} => Sources(x) = {}
BY DEF Sources

(* What a step makes of each part of the image.                            *)
LEMMA AfterFacts ==
    ASSUME NEW x, x.do \in Doings, IsImage(image)
    PROVE  LET y == After(x)
           IN  /\ IsImage(y)
               /\ y.packages = IF x.do = "install" THEN image.packages \cup x.args ELSE image.packages
               /\ y.enabled = CASE x.do = "install" -> image.enabled \cup PresetUnits(x.args \ image.packages)
                                [] x.do = "enable"  -> image.enabled \cup x.args
                                [] x.do = "disable" -> image.enabled \ x.args
                                [] OTHER -> image.enabled
               /\ DOMAIN y.files = Brought(x) \cup DOMAIN image.files \/ (Brought(x) = {} /\ y.files = image.files)
               /\ \A p \in DOMAIN y.files :
                    \/ p \in DOMAIN image.files /\ y.files[p] = image.files[p]
                    \/ p \in DOMAIN tree.quadlet /\ y.files[p] = tree.quadlet[p]
                    \/ p \in DOMAIN tree.config /\ y.files[p] = tree.config[p]
               /\ y.accounts.gids = IF x.do = "groupadd" THEN image.accounts.gids \cup {x.args.gid}
                                    ELSE image.accounts.gids
               /\ y.accounts.names = IF x.do = "useradd" THEN image.accounts.names \cup {x.args.name}
                                     ELSE image.accounts.names
<1> DEFINE y == After(x)
<1>1. CASE x.do = "install"
    <2>1. y = [image EXCEPT !.packages = image.packages \cup x.args,
                            !.enabled = image.enabled \cup PresetUnits(x.args \ image.packages)]
        BY <1>1 DEF After
    <2>2. Brought(x) = {}
        BY <1>1, SourcesFacts DEF Brought
    <2> QED BY <1>1, <2>1, <2>2 DEF IsImage
<1>2. CASE x.do = "enable"
    <2>1. y = [image EXCEPT !.enabled = image.enabled \cup x.args]
        BY <1>2 DEF After
    <2>2. Brought(x) = {}
        BY <1>2, SourcesFacts DEF Brought
    <2> QED BY <1>2, <2>1, <2>2 DEF IsImage
<1>3. CASE x.do = "disable"
    <2>1. y = [image EXCEPT !.enabled = image.enabled \ x.args]
        BY <1>3 DEF After
    <2>2. Brought(x) = {}
        BY <1>3, SourcesFacts DEF Brought
    <2> QED BY <1>3, <2>1, <2>2 DEF IsImage
<1>4. ASSUME NEW files, y = [image EXCEPT !.files = Over(files, image.files)],
             x.do \in {"copy", "copy_roots", "copy_project", "copy_quadlets"},
             DOMAIN files = Brought(x),
             \/ DOMAIN files \subseteq DOMAIN tree.quadlet /\ \A p \in DOMAIN files : files[p] = tree.quadlet[p]
             \/ DOMAIN files \subseteq DOMAIN tree.config /\ \A p \in DOMAIN files : files[p] = tree.config[p]
      PROVE  /\ IsImage(y) /\ y.packages = image.packages /\ y.enabled = image.enabled
             /\ y.accounts = image.accounts
             /\ DOMAIN y.files = Brought(x) \cup DOMAIN image.files
             /\ \A p \in DOMAIN y.files :
                    \/ p \in DOMAIN image.files /\ y.files[p] = image.files[p]
                    \/ p \in DOMAIN tree.quadlet /\ y.files[p] = tree.quadlet[p]
                    \/ p \in DOMAIN tree.config /\ y.files[p] = tree.config[p]
    <2> HIDE DEF y
    <2>1. PICK all : all = Over(files, image.files)
        OBVIOUS
    <2>2. DOMAIN all = DOMAIN files \cup DOMAIN image.files
          /\ \A p \in DOMAIN all : all[p] = IF p \in DOMAIN files THEN files[p] ELSE image.files[p]
        BY <2>1 DEF Over
    <2>3. /\ y.packages = image.packages /\ y.enabled = image.enabled /\ y.accounts = image.accounts
          /\ y.files = all /\ IsImage(y)
        BY <1>4, <2>1 DEF IsImage
    <2> QED BY <1>4, <2>2, <2>3
<1>5. CASE x.do \in {"copy", "copy_roots", "copy_project"}
    <2>1. PICK files : files = [p \in Sources(x) |-> tree.config[p]]
        OBVIOUS
    <2>2. y = [image EXCEPT !.files = Over(files, image.files)]
        BY <1>5, <2>1 DEF After, Copied
    <2>3. Brought(x) = Sources(x)
        BY <1>5 DEF Brought
    <2>4. DOMAIN files = Brought(x) /\ DOMAIN files \subseteq DOMAIN tree.config
          /\ \A p \in DOMAIN files : files[p] = tree.config[p]
        BY <2>1, <2>3, SourcesFacts
    <2> HIDE DEF y
    <2>5. /\ IsImage(y) /\ y.packages = image.packages /\ y.enabled = image.enabled
          /\ y.accounts = image.accounts
          /\ DOMAIN y.files = Brought(x) \cup DOMAIN image.files
          /\ \A p \in DOMAIN y.files :
                    \/ p \in DOMAIN image.files /\ y.files[p] = image.files[p]
                    \/ p \in DOMAIN tree.quadlet /\ y.files[p] = tree.quadlet[p]
                    \/ p \in DOMAIN tree.config /\ y.files[p] = tree.config[p]
        BY <1>4, <1>5, <2>2, <2>4
    <2> QED BY <1>5, <2>5 DEF y
<1>6. CASE x.do = "copy_quadlets"
    <2>1. PICK files : files = tree.quadlet
        OBVIOUS
    <2>2. y = [image EXCEPT !.files = Over(files, image.files)]
        BY <1>6, <2>1 DEF After, Copied
    <2>3. DOMAIN files = Brought(x)
        BY <1>6, <2>1 DEF Brought
    <2> HIDE DEF y
    <2>4. DOMAIN files \subseteq DOMAIN tree.quadlet /\ \A p \in DOMAIN files : files[p] = tree.quadlet[p]
        BY <2>1
    <2>5. /\ IsImage(y) /\ y.packages = image.packages /\ y.enabled = image.enabled
          /\ y.accounts = image.accounts
          /\ DOMAIN y.files = Brought(x) \cup DOMAIN image.files
          /\ \A p \in DOMAIN y.files :
                    \/ p \in DOMAIN image.files /\ y.files[p] = image.files[p]
                    \/ p \in DOMAIN tree.quadlet /\ y.files[p] = tree.quadlet[p]
                    \/ p \in DOMAIN tree.config /\ y.files[p] = tree.config[p]
        BY <1>4, <1>6, <2>2, <2>3, <2>4
    <2> QED BY <1>6, <2>5 DEF y
<1>7. CASE x.do = "groupadd"
    <2>1. y = [image EXCEPT !.accounts = [image.accounts EXCEPT !.gids = image.accounts.gids \cup {x.args.gid}]]
        BY <1>7 DEF After
    <2>2. Brought(x) = {}
        BY <1>7, SourcesFacts DEF Brought
    <2> QED BY <1>7, <2>1, <2>2 DEF IsImage
<1>8. CASE x.do = "useradd"
    <2>1. y = [image EXCEPT !.accounts = [image.accounts EXCEPT !.names = image.accounts.names \cup {x.args.name}]]
        BY <1>8 DEF After
    <2>2. Brought(x) = {}
        BY <1>8, SourcesFacts DEF Brought
    <2> QED BY <1>8, <2>1, <2>2 DEF IsImage
<1>9. CASE x.do = "rebuild"
    <2>1. y = image
        BY <1>9 DEF After
    <2>2. Brought(x) = {}
        BY <1>9, SourcesFacts DEF Brought
    <2> QED BY <1>9, <2>1, <2>2 DEF IsImage
<1> HIDE DEF y
<1>10. QED BY <1>1, <1>2, <1>3, <1>5, <1>6, <1>7, <1>8, <1>9 DEF Doings

(* Where the build is in its Containerfile.                                *)
PlaceInv ==
    /\ phase \in Phases /\ IsList(program)
    /\ ~Building => pc = 1 /\ image = NoImage
    /\ pc \in 1..(Len(program) + 1)
    /\ phase = "booted" => pc = Len(program) + 1
    /\ phase = "failed" => pc <= Len(program) /\ ~Succeeds(program[pc])

(* What the steps done have made of packages, files and accounts.          *)
Added == [gids  |-> host.base_gids \cup {x.args.gid : x \in Of("groupadd", Done)},
          names |-> {x.args.name : x \in Of("useradd", Done)}]

ContentInv ==
    /\ IsImage(image)
    /\ Building =>
        /\ image.packages = host.base \cup Args("install", Done)
        /\ DOMAIN image.files = UNION {Brought(x) : x \in Done}
        /\ \A p \in DOMAIN image.files :
            \/ p \in DOMAIN tree.quadlet /\ image.files[p] = tree.quadlet[p]
            \/ p \in DOMAIN tree.config /\ image.files[p] = tree.config[p]
        /\ phase # "booted" => image.accounts = Added
        /\ phase = "booted" => image.accounts = Deploy(Added, snap, SysusersConf \in DOMAIN image.files)

(* What was enabled is, unless it was disabled later; what was disabled is *)
(* not, unless it was enabled later or came with a package.                *)
StaysEnabled ==
    \A i \in 1..(pc - 1) : program[i].do = "enable" => \A u \in program[i].args :
        \/ u \in image.enabled
        \/ \E j \in (i + 1)..(pc - 1) : program[j].do = "disable" /\ u \in program[j].args

PackagesBefore(j) == host.base \cup Args("install", Before(program, j))

StaysDisabled ==
    \A i \in 1..(pc - 1) : program[i].do = "disable" => \A u \in program[i].args \cap image.enabled :
        \E j \in (i + 1)..(pc - 1) :
            \/ program[j].do = "enable" /\ u \in program[j].args
            \/ /\ program[j].do = "install" /\ u \in DOMAIN host.units
               /\ host.units[u].owner \notin PackagesBefore(j)

PresetsApplied ==
    \A u \in PresetUnits(image.packages) :
        u \in image.enabled \/ \E x \in Of("disable", Done) : u \in x.args

OnlyEnabled ==
    \A u \in image.enabled :
        u \in PresetUnits(image.packages) \/ \E x \in Of("enable", Done) : u \in x.args

UnitsInv == Building => StaysEnabled /\ StaysDisabled /\ PresetsApplied /\ OnlyEnabled

LEMMA DoneNext ==
    ASSUME NEW c, NEW n \in Nat \ {0}
    PROVE  Before(c, n + 1) = Before(c, n) \cup {c[n]}
<1>1. \A i : i \in 1..((n + 1) - 1) <=> i \in 1..(n - 1) \/ i = n
    OBVIOUS
<1> QED BY <1>1 DEF Before

LEMMA DoneNone == ASSUME NEW c PROVE Before(c, 1) = {}
<1>1. 1..(1 - 1) = {}
    OBVIOUS
<1> QED BY <1>1 DEF Before

(* The steps of a Containerfile that is built.                             *)
LEMMA BuiltSteps ==
    ASSUME MigrationInv, Drawn, NEW sets, sets = Instructions(snap, tree.config)
    PROVE  /\ IsList(program) /\ Len(program) \in Nat /\ DOMAIN program = 1..Len(program)
           /\ ToSet(program) = UNION {sets[k] : k \in 1..14}
           /\ \A i \in DOMAIN program : \E k \in 1..14 :
                /\ program[i] \in sets[k]
                /\ \A l \in 1..(k - 1) : sets[l] \subseteq Before(program, i)
                /\ Before(program, i) \subseteq UNION {sets[l] : l \in 1..k}
           /\ \A i \in DOMAIN program : program[i].do \in Doings
<1>1. IsSnapshot(snap) /\ program = Render(snap, tree.config)
    BY DEF MigrationInv, InStep
<1>2. PICK t : t = tree.config
    OBVIOUS
<1>3. program = Render(snap, t) /\ sets = Instructions(snap, t)
    BY <1>1, <1>2
<1>4. /\ IsList(program) /\ Len(program) \in Nat /\ DOMAIN program = 1..Len(program)
      /\ ToSet(program) = UNION {sets[k] : k \in 1..14}
      /\ \A i \in DOMAIN program : \E k \in 1..14 :
                /\ program[i] \in sets[k]
                /\ \A l \in 1..(k - 1) : sets[l] \subseteq Before(program, i)
                /\ Before(program, i) \subseteq UNION {sets[l] : l \in 1..k}
    <2>1. InOrder(Render(snap, t), Instructions(snap, t), 14)
        BY <1>1, RenderInOrder
    <2>2. InOrder(program, sets, 14)
        BY <1>3, <2>1
    <2>3. IsList(program)
        BY <2>2 DEF InOrder
    <2>4. Len(program) \in Nat /\ DOMAIN program = 1..Len(program)
        BY <2>3, ListFacts
    <2> QED BY <2>2, <2>3, <2>4 DEF InOrder
<1>5. \A k \in 1..14 : \A x \in sets[k] : x.do \in Doings
    BY <1>3, InstructionKinds DEF Doings
<1>6. \A i \in DOMAIN program : program[i].do \in Doings
    BY <1>4, <1>5
<1> QED BY <1>4, <1>6

(* Before a build nothing of it changes.                                   *)
LEMMA BuildCases ==
    ASSUME MigrationInv, MigrationNext
    PROVE  \/ /\ ~Building /\ ~Building' /\ phase' \in Phases
              /\ UNCHANGED <<host, pc, image>>
              /\ program' = program \/ \E s, t : IsSnapshot(s) /\ program' = Render(s, t)
           \/ StartBuild \/ BuildStep \/ Boot
<1>1. CASE InspectConfig \/ InspectServices \/ InspectNetwork \/ InspectScheduled
           \/ InspectContainers \/ InspectSoftware \/ InspectKernel \/ InspectUsers
    BY <1>1 DEF Building, Phases, Inspector, InspectConfig, InspectServices, InspectNetwork,
           InspectScheduled, InspectContainers, InspectSoftware, InspectKernel, InspectUsers,
           rendering, building
<1>2. CASE RenderFirst \/ Rerender
    <2>1. program' = Render(RedactSnapshot(snap), WriteConfigTree(RedactSnapshot(snap)))
        BY <1>2 DEF RenderFirst, Rerender, RenderFrom
    <2>2. IsSnapshot(RedactSnapshot(snap))
        BY PassOver DEF MigrationInv
    <2> QED BY <1>2, <2>1, <2>2 DEF RenderFirst, Rerender, RenderFrom, Building, Phases, building
<1>3. CASE Toggle \/ SetStrategy
    BY <1>3 DEF Toggle, SetStrategy, Edit, Building, Phases, rendering, building
<1> QED BY <1>1, <1>2, <1>3 DEF MigrationNext

LEMMA PlaceInit == ASSUME MigrationInit PROVE PlaceInv /\ ContentInv /\ UnitsInv
<1>1. phase = "config" /\ program = <<>> /\ pc = 1 /\ image = NoImage
    BY DEF MigrationInit
<1>2. IsList(program) /\ Len(program) = 0
    BY <1>1, EmptyList
<1> QED BY <1>1, <1>2, NoImageIsImage DEF PlaceInv, ContentInv, UnitsInv, Building, Phases

LEMMA PlaceStep ==
    ASSUME MigrationInv, PlaceInv, MigrationNext
    PROVE  PlaceInv'
<1>1. CASE /\ ~Building /\ ~Building' /\ phase' \in Phases
           /\ UNCHANGED <<host, pc, image>>
           /\ program' = program \/ \E s, t : IsSnapshot(s) /\ program' = Render(s, t)
    <2>1. IsList(program')
        BY <1>1, RenderInOrder DEF InOrder, PlaceInv
    <2>2. Len(program') \in Nat
        BY <2>1, ListFacts
    <2> QED BY <1>1, <2>1, <2>2 DEF PlaceInv, Building
<1>2. CASE StartBuild
    BY <1>2 DEF StartBuild, PlaceInv, Building, Phases, rendering
<1>3. CASE BuildStep
    <2>1. Len(program) \in Nat
        BY ListFacts DEF PlaceInv
    <2>2. CASE Succeeds(program[pc])
        BY <1>3, <2>1, <2>2 DEF BuildStep, PlaceInv, Building, Phases, rendering
    <2>3. CASE ~Succeeds(program[pc])
        <3>1. /\ phase' = "failed" /\ UNCHANGED <<host, snap, tree, program, pc, image>>
              /\ pc <= Len(program)
            BY <1>3, <2>3 DEF BuildStep, rendering, building
        <3>2. Succeeds(program[pc])' <=> Succeeds(program[pc])
            BY <3>1 DEF Succeeds, HasUnit, Sources
        <3> QED BY <2>1, <2>3, <3>1, <3>2 DEF PlaceInv, Building, Phases
    <2> QED BY <2>2, <2>3
<1>4. CASE Boot
    <2>1. Len(program) \in Nat
        BY ListFacts DEF PlaceInv
    <2> QED BY <1>4, <2>1 DEF Boot, PlaceInv, Building, Phases, rendering
<1> QED BY <1>1, <1>2, <1>3, <1>4, BuildCases

(* A step of the build that succeeds.                                      *)
LEMMA BuildStepFacts ==
    ASSUME MigrationInv, PlaceInv, BuildStep, Succeeds(program[pc])
    PROVE  /\ phase = "build" /\ phase' = "build" /\ Building /\ Building' /\ Drawn
           /\ UNCHANGED <<host, answered, snap, edits, tree, program>>
           /\ pc \in Nat \ {0} /\ pc' = pc + 1 /\ pc \in DOMAIN program
           /\ image' = After(program[pc]) /\ program[pc].do \in Doings
           /\ Done' = Done \cup {program[pc]}
<1>1. /\ phase = "build" /\ phase' = "build" /\ Building /\ Building' /\ Drawn
      /\ UNCHANGED <<host, answered, snap, edits, tree, program>>
      /\ pc' = pc + 1 /\ pc <= Len(program) /\ image' = After(program[pc])
    BY DEF BuildStep, Building, Drawn, rendering
<1>2. PICK sets : sets = Instructions(snap, tree.config)
    OBVIOUS
<1>3. Len(program) \in Nat /\ DOMAIN program = 1..Len(program)
      /\ \A i \in DOMAIN program : program[i].do \in Doings
    BY <1>1, <1>2, BuiltSteps
<1>4. pc \in Nat \ {0} /\ pc \in DOMAIN program
    BY <1>1, <1>3 DEF PlaceInv
<1>5. Before(program, pc + 1) = Before(program, pc) \cup {program[pc]}
    BY <1>4, DoneNext
<1>6. Done' = Before(program, pc + 1)
    BY <1>1 DEF Done
<1> QED BY <1>1, <1>3, <1>4, <1>5, <1>6 DEF Done

LEMMA OfNext ==
    ASSUME NEW steps, NEW x, NEW what
    PROVE  /\ x.do = what => Of(what, steps \cup {x}) = Of(what, steps) \cup {x}
           /\ x.do # what => Of(what, steps \cup {x}) = Of(what, steps)
BY DEF Of

LEMMA ArgsNext ==
    ASSUME NEW steps, NEW x, NEW what
    PROVE  /\ x.do = what => Args(what, steps \cup {x}) = Args(what, steps) \cup x.args
           /\ x.do # what => Args(what, steps \cup {x}) = Args(what, steps)
<1>1. CASE x.do = what
    <2>1. Of(what, steps \cup {x}) = Of(what, steps) \cup {x}
        BY <1>1, OfNext, ZenonT(40)
    <2> QED BY <1>1, <2>1 DEF Args
<1>2. CASE x.do # what
    <2>1. Of(what, steps \cup {x}) = Of(what, steps)
        BY <1>2, OfNext
    <2> QED BY <1>2, <2>1 DEF Args
<1> QED BY <1>1, <1>2

LEMMA ContentStep ==
    ASSUME MigrationInv, PlaceInv, ContentInv, MigrationNext
    PROVE  ContentInv'
<1>1. CASE /\ ~Building /\ ~Building' /\ phase' \in Phases
           /\ UNCHANGED <<host, pc, image>>
    BY <1>1 DEF ContentInv, IsImage
<1>2. CASE StartBuild
    <2>1. /\ image' = [packages |-> host.base, enabled |-> PresetUnits(host.base),
                 files |-> [p \in {} |-> NoText],
                 accounts |-> [gids |-> host.base_gids, names |-> {}]]
          /\ phase = "page" /\ phase' = "build" /\ pc' = pc
          /\ UNCHANGED <<host, answered, snap, edits, tree, program>>
        BY <1>2 DEF StartBuild, rendering
    <2>2. pc = 1
        BY <2>1 DEF PlaceInv, Building
    <2>3. Done' = {}
        BY <2>1, <2>2, DoneNone DEF Done
    <2>4. IsImage(image)'
        BY <2>1 DEF IsImage
    <2>5. \A what : Of(what, {}) = {} /\ Args(what, {}) = {}
        BY DEF Of, Args
    <2>6. Added' = [gids |-> host.base_gids, names |-> {}]
        BY <2>1, <2>3, <2>5 DEF Added
    <2>7. /\ image'.packages = host.base /\ DOMAIN image'.files = {}
          /\ image'.accounts = [gids |-> host.base_gids, names |-> {}]
        BY <2>1
    <2> QED BY <2>1, <2>3, <2>4, <2>5, <2>6, <2>7 DEF ContentInv
<1>3. CASE BuildStep
    <2>1. CASE Succeeds(program[pc])
        <3> DEFINE x == program[pc]
        <3>1. /\ phase = "build" /\ phase' = "build" /\ Building /\ Drawn
              /\ UNCHANGED <<host, answered, snap, edits, tree, program>>
              /\ image' = After(x) /\ x.do \in Doings
              /\ Done' = Done \cup {x}
            BY <1>3, <2>1, BuildStepFacts
        <3>2. PICK y : y = After(x)
            OBVIOUS
        <3>3. /\ IsImage(y)
              /\ y.packages = IF x.do = "install" THEN image.packages \cup x.args ELSE image.packages
              /\ DOMAIN y.files = Brought(x) \cup DOMAIN image.files \/ (Brought(x) = {} /\ y.files = image.files)
              /\ \A p \in DOMAIN y.files :
                    \/ p \in DOMAIN image.files /\ y.files[p] = image.files[p]
                    \/ p \in DOMAIN tree.quadlet /\ y.files[p] = tree.quadlet[p]
                    \/ p \in DOMAIN tree.config /\ y.files[p] = tree.config[p]
              /\ y.accounts.gids = IF x.do = "groupadd" THEN image.accounts.gids \cup {x.args.gid}
                                   ELSE image.accounts.gids
              /\ y.accounts.names = IF x.do = "useradd" THEN image.accounts.names \cup {x.args.name}
                                    ELSE image.accounts.names
            BY <3>1, <3>2, AfterFacts DEF ContentInv
        <3>4. /\ image.packages = host.base \cup Args("install", Done)
              /\ DOMAIN image.files = UNION {Brought(z) : z \in Done}
              /\ \A p \in DOMAIN image.files :
                    \/ p \in DOMAIN tree.quadlet /\ image.files[p] = tree.quadlet[p]
                    \/ p \in DOMAIN tree.config /\ image.files[p] = tree.config[p]
              /\ image.accounts = Added
            BY <3>1 DEF ContentInv
        <3> HIDE DEF x
        <3>5. y.packages = host.base \cup Args("install", Done \cup {x})
            <4>1. /\ x.do = "install" => Args("install", Done \cup {x}) = Args("install", Done) \cup x.args
                  /\ x.do # "install" => Args("install", Done \cup {x}) = Args("install", Done)
                BY ONLY ArgsNext
            <4> QED BY <3>3, <3>4, <4>1
        <3>6. DOMAIN y.files = UNION {Brought(z) : z \in Done \cup {x}}
            <4>1. DOMAIN y.files = Brought(x) \cup DOMAIN image.files
                BY <3>3
            <4>2. (UNION {Brought(z) : z \in Done \cup {x}}) = (UNION {Brought(z) : z \in Done}) \cup Brought(x)
                OBVIOUS
            <4> QED BY <3>4, <4>1, <4>2
        <3>7. \A p \in DOMAIN y.files :
                    \/ p \in DOMAIN tree.quadlet /\ y.files[p] = tree.quadlet[p]
                    \/ p \in DOMAIN tree.config /\ y.files[p] = tree.config[p]
            BY <3>3, <3>4
        <3>8. y.accounts.gids = host.base_gids \cup {z.args.gid : z \in Of("groupadd", Done \cup {x})}
            <4>1. image.accounts.gids = host.base_gids \cup {z.args.gid : z \in Of("groupadd", Done)}
                BY <3>4 DEF Added
            <4>2. /\ x.do = "groupadd" => Of("groupadd", Done \cup {x}) = Of("groupadd", Done) \cup {x}
                  /\ x.do # "groupadd" => Of("groupadd", Done \cup {x}) = Of("groupadd", Done)
                BY ONLY OfNext
            <4> QED BY <3>3, <4>1, <4>2
        <3>9. y.accounts.names = {z.args.name : z \in Of("useradd", Done \cup {x})}
            <4>1. image.accounts.names = {z.args.name : z \in Of("useradd", Done)}
                BY <3>4 DEF Added
            <4>2. /\ x.do = "useradd" => Of("useradd", Done \cup {x}) = Of("useradd", Done) \cup {x}
                  /\ x.do # "useradd" => Of("useradd", Done \cup {x}) = Of("useradd", Done)
                BY ONLY OfNext
            <4> QED BY <3>3, <4>1, <4>2
        <3>10. y.accounts = Added'
            <4>1. Added' = [gids  |-> host.base_gids \cup {z.args.gid : z \in Of("groupadd", Done \cup {x})},
                            names |-> {z.args.name : z \in Of("useradd", Done \cup {x})}]
                BY <3>1 DEF Added
            <4>2. y.accounts = [gids |-> y.accounts.gids, names |-> y.accounts.names]
                BY <3>3 DEF IsImage
            <4> QED BY <3>8, <3>9, <4>1, <4>2
        <3>11. \A z : Brought(z)' = Brought(z)
            BY <3>1 DEF Brought, Sources
        <3>12. image' = y /\ phase' # "booted" /\ tree' = tree /\ host' = host /\ Done' = Done \cup {x}
            BY <3>1, <3>2
        <3>13. (DOMAIN image.files = UNION {Brought(z) : z \in Done})'
            BY <3>6, <3>11, <3>12
        <3>14. (image.packages = host.base \cup Args("install", Done))'
            BY <3>5, <3>12
        <3> QED BY <3>3, <3>7, <3>10, <3>12, <3>13, <3>14 DEF ContentInv
    <2>2. CASE ~Succeeds(program[pc])
        <3>1. /\ phase = "build" /\ phase' = "failed"
              /\ UNCHANGED <<host, snap, tree, program, pc, image>>
            BY <1>3, <2>2 DEF BuildStep, rendering, building
        <3>2. \A z : Brought(z)' = Brought(z)
            BY <3>1 DEF Brought, Sources
        <3>3. Done' = Done /\ Added' = Added
            BY <3>1 DEF Done, Added
        <3> QED BY <3>1, <3>2, <3>3 DEF ContentInv, Building, IsImage
    <2> QED BY <2>1, <2>2
<1>4. CASE Boot
    <2>1. /\ phase = "build" /\ phase' = "booted"
          /\ UNCHANGED <<host, snap, tree, program, pc>>
          /\ image' = [image EXCEPT !.accounts = Deploy(image.accounts, snap, SysusersConf \in DOMAIN image.files)]
        BY <1>4 DEF Boot, rendering
    <2>2. PICK a : a = Deploy(image.accounts, snap, SysusersConf \in DOMAIN image.files)
        OBVIOUS
    <2>3. a = [gids |-> a.gids, names |-> a.names]
        BY <2>2 DEF Deploy
    <2>4. \A z : Brought(z)' = Brought(z)
        BY <2>1 DEF Brought, Sources
    <2>5. Done' = Done /\ Added' = Added
        BY <2>1 DEF Done, Added
    <2>6. /\ IsImage(image') /\ image'.packages = image.packages /\ image'.files = image.files
          /\ image'.accounts = a
        BY <2>1, <2>2, <2>3 DEF ContentInv, IsImage
    <2>7. image.accounts = Added
        BY <2>1 DEF ContentInv, Building
    <2>8. a = Deploy(Added', snap', SysusersConf \in DOMAIN image'.files)
        BY <2>1, <2>2, <2>5, <2>6, <2>7
    <2> QED BY <2>1, <2>4, <2>5, <2>6, <2>8 DEF ContentInv, Building
<1> QED BY <1>1, <1>2, <1>3, <1>4, BuildCases

LEMMA PresetsOf ==
    ASSUME NEW P, NEW Q
    PROVE  /\ PresetUnits(P \cup Q) = PresetUnits(P) \cup PresetUnits(Q \ P)
           /\ \A u \in PresetUnits(Q \ P) :
                u \in DOMAIN host.units /\ host.units[u].owner \notin P
BY DEF PresetUnits

LEMMA UnitsStep ==
    ASSUME MigrationInv, PlaceInv, ContentInv, UnitsInv, MigrationNext
    PROVE  UnitsInv'
<1>1. CASE /\ ~Building /\ ~Building' /\ phase' \in Phases
           /\ UNCHANGED <<host, pc, image>>
    BY <1>1 DEF UnitsInv
<1>2. CASE StartBuild
    <2>1. /\ image'.enabled = PresetUnits(host.base) /\ image'.packages = host.base
          /\ phase = "page" /\ phase' = "build" /\ pc' = pc
          /\ UNCHANGED <<host, program>>
        BY <1>2 DEF StartBuild, rendering
    <2>2. pc = 1
        BY <2>1 DEF PlaceInv, Building
    <2>3. PresetUnits(host.base)' = PresetUnits(host.base)
        BY <2>1 DEF PresetUnits, StateOf
    <2>4. PresetUnits(image.packages)' = image'.enabled
        BY <2>1, <2>3 DEF PresetUnits, StateOf
    <2>5. 1..(pc' - 1) = {}
        BY <2>1, <2>2
    <2> QED BY <2>4, <2>5 DEF UnitsInv, StaysEnabled, StaysDisabled, PresetsApplied, OnlyEnabled
<1>3. ASSUME BuildStep, Succeeds(program[pc])
      PROVE  UnitsInv'
    <2> DEFINE x == program[pc]
    <2>1. /\ Building
          /\ UNCHANGED <<host, program>> /\ pc \in Nat \ {0} /\ pc' = pc + 1
          /\ image' = After(x) /\ x.do \in Doings
          /\ Done' = Done \cup {x}
        BY <1>3, BuildStepFacts
    <2>2. PICK y : y = After(x)
        OBVIOUS
    <2>3. /\ y.packages = IF x.do = "install" THEN image.packages \cup x.args ELSE image.packages
          /\ y.enabled = CASE x.do = "install" -> image.enabled \cup PresetUnits(x.args \ image.packages)
                                [] x.do = "enable"  -> image.enabled \cup x.args
                                [] x.do = "disable" -> image.enabled \ x.args
                                [] OTHER -> image.enabled
        BY <2>1, <2>2, AfterFacts DEF ContentInv
    <2>4. image.packages = PackagesBefore(pc)
        BY <2>1 DEF ContentInv, PackagesBefore, Done
    <2>5. StaysEnabled /\ StaysDisabled /\ PresetsApplied /\ OnlyEnabled
        BY <2>1 DEF UnitsInv
    <2>6. \A P : PresetUnits(P)' = PresetUnits(P')
        BY <2>1 DEF PresetUnits, StateOf
    <2>7. /\ \A i : i \in 1..(pc' - 1) <=> i \in 1..(pc - 1) \/ i = pc
          /\ \A i \in 1..(pc - 1) : \A j : j \in (i + 1)..(pc' - 1) <=> j \in (i + 1)..(pc - 1) \/ j = pc
        BY <2>1
    <2> DEFINE presets == PresetUnits(image.packages)
               added == PresetUnits(x.args \ image.packages)
    <2>8. /\ \A u \in added : u \in DOMAIN host.units /\ host.units[u].owner \notin image.packages
          /\ PresetUnits(image.packages \cup x.args) = presets \cup added
        BY PresetsOf
    <2>9. PresetUnits(y.packages) = IF x.do = "install" THEN presets \cup added ELSE presets
        BY <2>3, <2>8
    <2> HIDE DEF x, presets, added
    <2>10. /\ x.do = "install" => y.enabled = image.enabled \cup added
           /\ x.do = "enable" => y.enabled = image.enabled \cup x.args
           /\ x.do = "disable" => y.enabled = image.enabled \ x.args
           /\ x.do \notin {"install", "enable", "disable"} => y.enabled = image.enabled
        BY <2>3 DEF added
    <2>21. \A u \in y.enabled : \/ u \in image.enabled
                                \/ x.do = "enable" /\ u \in x.args
                                \/ x.do = "install" /\ u \in added
        <3>1. CASE x.do = "install"
            BY <2>10, <3>1
        <3>2. CASE x.do = "enable"
            BY <2>10, <3>2
        <3>3. CASE x.do = "disable"
            BY <2>10, <3>3
        <3>4. CASE x.do \notin {"install", "enable", "disable"}
            BY <2>10, <3>4
        <3> QED BY <3>1, <3>2, <3>3, <3>4
    <2>11. \A i \in 1..pc : program[i].do = "enable" => \A u \in program[i].args :
                \/ u \in y.enabled
                \/ \E j \in (i + 1)..pc : program[j].do = "disable" /\ u \in program[j].args
        <3> TAKE i \in 1..pc
        <3> SUFFICES ASSUME program[i].do = "enable", NEW u \in program[i].args
                     PROVE  \/ u \in y.enabled
                            \/ \E j \in (i + 1)..pc : program[j].do = "disable" /\ u \in program[j].args
            OBVIOUS
        <3>1. CASE i = pc
            BY <2>10, <3>1 DEF x
        <3>2. CASE i \in 1..(pc - 1) /\ u \in image.enabled
            <4>1. CASE x.do = "disable" /\ u \in x.args
                <5>1. pc \in (i + 1)..pc
                    BY <2>1, <3>2
                <5> QED BY <4>1, <5>1 DEF x
            <4>2. CASE ~(x.do = "disable" /\ u \in x.args)
                BY <2>10, <3>2, <4>2
            <4> QED BY <4>1, <4>2
        <3>3. CASE i \in 1..(pc - 1) /\ u \notin image.enabled
            <4>1. PICK j \in (i + 1)..(pc - 1) : program[j].do = "disable" /\ u \in program[j].args
                BY <2>5, <3>3 DEF StaysEnabled
            <4>2. j \in (i + 1)..pc
                BY <2>1, <4>1
            <4> QED BY <4>1, <4>2
        <3> QED BY <2>1, <3>1, <3>2, <3>3
    <2>12. \A i \in 1..pc : program[i].do = "disable" => \A u \in program[i].args \cap y.enabled :
                \E j \in (i + 1)..pc :
                    \/ program[j].do = "enable" /\ u \in program[j].args
                    \/ /\ program[j].do = "install" /\ u \in DOMAIN host.units
                       /\ host.units[u].owner \notin PackagesBefore(j)
        <3> TAKE i \in 1..pc
        <3> SUFFICES ASSUME program[i].do = "disable", NEW u \in program[i].args, u \in y.enabled
                     PROVE  \E j \in (i + 1)..pc :
                                \/ program[j].do = "enable" /\ u \in program[j].args
                                \/ /\ program[j].do = "install" /\ u \in DOMAIN host.units
                                   /\ host.units[u].owner \notin PackagesBefore(j)
            OBVIOUS
        <3>1. i # pc
            BY <2>10 DEF x
        <3>2. CASE u \in image.enabled
            <4>1. i \in 1..(pc - 1)
                BY <2>1, <3>1
            <4>2. PICK j \in (i + 1)..(pc - 1) :
                                \/ program[j].do = "enable" /\ u \in program[j].args
                                \/ /\ program[j].do = "install" /\ u \in DOMAIN host.units
                                   /\ host.units[u].owner \notin PackagesBefore(j)
                BY <2>5, <3>2, <4>1 DEF StaysDisabled
            <4>3. j \in (i + 1)..pc
                BY <2>1, <4>1, <4>2
            <4> QED BY <4>2, <4>3
        <3>3. CASE u \notin image.enabled
            <4>1. (x.do = "enable" /\ u \in x.args) \/ (x.do = "install" /\ u \in added)
                BY <2>21, <3>3
            <4>2. pc \in (i + 1)..pc
                BY <2>1, <3>1
            <4> QED BY <2>4, <2>8, <4>1, <4>2 DEF x
        <3> QED BY <3>2, <3>3
    <2>13. \A u \in PresetUnits(y.packages) :
                u \in y.enabled \/ \E z \in Of("disable", Done \cup {x}) : u \in z.args
        <3> TAKE u \in PresetUnits(y.packages)
        <3>1. CASE x.do = "disable" /\ u \in x.args
            BY <3>1 DEF Of
        <3>2. CASE ~(x.do = "disable" /\ u \in x.args)
            <4>1. u \in image.enabled => u \in y.enabled
                BY <2>10, <3>2
            <4>2. CASE u \in presets
                <5>1. u \in image.enabled \/ \E z \in Of("disable", Done) : u \in z.args
                    BY <2>5, <4>2 DEF PresetsApplied, presets
                <5> QED BY <4>1, <5>1 DEF Of
            <4>3. CASE u \notin presets
                BY <2>9, <2>10, <4>3
            <4> QED BY <4>2, <4>3
        <3> QED BY <3>1, <3>2
    <2>14. \A u \in y.enabled :
                u \in PresetUnits(y.packages) \/ \E z \in Of("enable", Done \cup {x}) : u \in z.args
        <3> TAKE u \in y.enabled
        <3>1. CASE u \in image.enabled
            <4>1. u \in presets \/ \E z \in Of("enable", Done) : u \in z.args
                BY <2>5, <3>1 DEF OnlyEnabled, presets
            <4> QED BY <2>9, <4>1 DEF Of
        <3>2. CASE u \notin image.enabled
            <4>1. (x.do = "enable" /\ u \in x.args) \/ (x.do = "install" /\ u \in added)
                BY <2>21, <3>2
            <4> QED BY <2>9, <4>1 DEF Of
        <3> QED BY <3>1, <3>2
    <2>15. image' = y /\ PresetUnits(image.packages)' = PresetUnits(y.packages)
           /\ \A j : PackagesBefore(j)' = PackagesBefore(j)
        BY <2>1, <2>2, <2>6 DEF PackagesBefore
    <2>16. pc' - 1 = pc
        BY <2>1
    <2>17. StaysEnabled'
        BY <2>1, <2>11, <2>15, <2>16 DEF StaysEnabled
    <2>18. StaysDisabled'
        BY <2>1, <2>12, <2>15, <2>16 DEF StaysDisabled
    <2>19. PresetsApplied'
        BY <2>1, <2>13, <2>15 DEF PresetsApplied, x
    <2>20. OnlyEnabled'
        BY <2>1, <2>14, <2>15 DEF OnlyEnabled, x
    <2> QED BY <2>17, <2>18, <2>19, <2>20 DEF UnitsInv
<1>4. ASSUME UNCHANGED <<host, program, pc>>, image'.packages = image.packages,
             image'.enabled = image.enabled, Building
      PROVE  UnitsInv'
    <2>1. /\ PresetUnits(image.packages)' = PresetUnits(image.packages) /\ Done' = Done
          /\ \A j : PackagesBefore(j)' = PackagesBefore(j)
        BY <1>4 DEF PresetUnits, StateOf, Done, PackagesBefore
    <2> QED BY <1>4, <2>1 DEF UnitsInv, StaysEnabled, StaysDisabled, PresetsApplied, OnlyEnabled
<1>5. CASE BuildStep /\ ~Succeeds(program[pc])
    <2>1. UNCHANGED <<host, program, pc, image>> /\ Building
        BY <1>5 DEF BuildStep, rendering, building, Building
    <2> QED BY <1>4, <2>1
<1>6. CASE Boot
    <2>1. UNCHANGED <<host, program, pc>> /\ Building
          /\ image' = [image EXCEPT !.accounts = Deploy(image.accounts, snap, SysusersConf \in DOMAIN image.files)]
        BY <1>6 DEF Boot, rendering, Building
    <2>2. image'.packages = image.packages /\ image'.enabled = image.enabled
        BY <2>1 DEF ContentInv, IsImage
    <2> QED BY <1>4, <2>1, <2>2
<1> QED BY <1>1, <1>2, <1>3, <1>5, <1>6, BuildCases
-----------------------------------------------------------------------------
(* What the inspectors find: the snapshot before each of them and, last,   *)
(* before the first rendering.                                             *)
Found0(h) == [EmptySnapshot EXCEPT
                !.packages = [i \in DOMAIN h.packages |-> [name |-> h.packages[i], include |-> TRUE]]]
Found1(h, a, u) == RunRepos(RunConfig(Found0(h), h, "paths" \in a, u), h)
Found2(h, a, u) == RunServices(Found1(h, a, u), h, IF "presets" \in a THEN h.base_presets ELSE None,
                              "systemctl" \in a, "owners" \in a)
Found3(h, a, u) == RunNetwork(Found2(h, a, u), h)
Found4(h, a, u) == RunScheduled(Found3(h, a, u), h, "paths" \in a)
Found5(h, a, u) == RunContainers(Found4(h, a, u), h)
Found6(h, a, u) == RunSoftware(Found5(h, a, u), h)
Found7(h, a, u) == RunKernel(Found6(h, a, u), h)
Found(h, a, u, o) == RunUsers(Found7(h, a, u), h, o)

LEMMA Found0IsSnapshot ==
    ASSUME NEW h \in Hosts
    PROVE  /\ IsSnapshot(Found0(h))
           /\ Found0(h).packages = [i \in DOMAIN h.packages |-> [name |-> h.packages[i], include |-> TRUE]]
           /\ \A d \in Parts \ {"packages"} : Found0(h)[d] = EmptySnapshot[d]
<1> DEFINE packages == [i \in DOMAIN h.packages |-> [name |-> h.packages[i], include |-> TRUE]]
           s == Found0(h)
<1>1. s = [EmptySnapshot EXCEPT !.packages = packages]
    BY DEF Found0
<1>2. Records(packages, {"name", "include"})
    <2>1. IsList(h.packages)
        BY ListsOfHost
    <2>2. packages = [i \in DOMAIN h.packages |-> packages[i]]
          /\ \A i \in DOMAIN h.packages : {"name", "include"} \subseteq DOMAIN packages[i]
        OBVIOUS
    <2> HIDE DEF packages
    <2> QED BY <2>1, <2>2, MapRecords
<1>3. s.packages = packages /\ \A d \in Parts \ {"packages"} : s[d] = EmptySnapshot[d]
    BY <1>1, EmptyIsSnapshot DEF IsSnapshot, Parts, Lists
<1> HIDE DEF packages, s
<1>4. s = [d \in Parts |-> s[d]]
      /\ \A d \in Lists : s[d] = EmptySnapshot[d] \/ Records(s[d], Fields(d))
    BY <1>1, <1>2, <1>3, EmptyIsSnapshot, FieldsAre DEF IsSnapshot, Parts, Lists
<1>5. IsSnapshot(s)
    BY <1>4, EmptyIsSnapshot, SnapshotWith
<1> QED BY <1>3, <1>5 DEF s, packages

(* Every inspector leaves the sections of the others alone.                *)
LEMMA OwnSections ==
    ASSUME NEW s, IsSnapshot(s), NEW h, NEW a, NEW b, NEW c
    PROVE  /\ \A d \in Parts \ {"config", "repo_files", "gpg_keys"} :
                RunRepos(RunConfig(s, h, a, b), h)[d] = s[d]
           /\ \A d \in Parts \ {"state_changes", "enabled_units", "disabled_units", "drop_ins"} :
                RunServices(s, h, a, b, c)[d] = s[d]
           /\ \A d \in Parts \ {"connections", "firewall_zones", "direct_rules"} :
                RunNetwork(s, h)[d] = s[d]
           /\ \A d \in Parts \ {"generated_timer_units", "systemd_timers"} :
                RunScheduled(s, h, a)[d] = s[d]
           /\ \A d \in Parts \ {"quadlet_units"} : RunContainers(s, h)[d] = s[d]
           /\ \A d \in Parts \ {"items", "env_files"} : RunSoftware(s, h)[d] = s[d]
           /\ \A d \in Parts \ {"cmdline", "sysctl_overrides", "snippets", "tuned_profiles"} :
                RunKernel(s, h)[d] = s[d]
           /\ \A d \in Parts \ {"users", "groups", "shadow_entries"} : RunUsers(s, h, a)[d] = s[d]
<1>1. DOMAIN s = Parts
    BY DEF IsSnapshot
<1>2. \A d \in Parts \ {"config", "repo_files", "gpg_keys"} :
                RunRepos(RunConfig(s, h, a, b), h)[d] = s[d]
    <2>1. PICK r : r = RunConfig(s, h, a, b)
        OBVIOUS
    <2>2. DOMAIN r = Parts /\ \A d \in Parts \ {"config"} : r[d] = s[d]
        BY <1>1, <2>1 DEF RunConfig, Parts, Lists
    <2>3. \A d \in Parts \ {"repo_files", "gpg_keys"} : RunRepos(r, h)[d] = r[d]
        BY <2>2 DEF RunRepos, Parts, Lists
    <2> QED BY <2>1, <2>2, <2>3
<1>3. \A d \in Parts \ {"state_changes", "enabled_units", "disabled_units", "drop_ins"} :
                RunServices(s, h, a, b, c)[d] = s[d]
    <2>1. \/ RunServices(s, h, a, b, c) = s
          \/ \E w, x, y, z : RunServices(s, h, a, b, c) =
                [s EXCEPT !.state_changes = w, !.enabled_units = x, !.disabled_units = y, !.drop_ins = z]
        BY DEF RunServices
    <2> QED BY <1>1, <2>1 DEF Parts, Lists
<1>4. \A d \in Parts \ {"connections", "firewall_zones", "direct_rules"} : RunNetwork(s, h)[d] = s[d]
    <2>1. \E x, y, z : RunNetwork(s, h) =
                [s EXCEPT !.connections = x, !.firewall_zones = y, !.direct_rules = z]
        BY DEF RunNetwork
    <2> QED BY <1>1, <2>1 DEF Parts, Lists
<1>5. \A d \in Parts \ {"generated_timer_units", "systemd_timers"} : RunScheduled(s, h, a)[d] = s[d]
    <2>1. \E x, y : RunScheduled(s, h, a) =
                [s EXCEPT !.generated_timer_units = x, !.systemd_timers = y]
        BY DEF RunScheduled
    <2> QED BY <1>1, <2>1 DEF Parts, Lists
<1>6. \A d \in Parts \ {"quadlet_units"} : RunContainers(s, h)[d] = s[d]
    <2>1. \E x : RunContainers(s, h) = [s EXCEPT !.quadlet_units = x]
        BY DEF RunContainers
    <2> QED BY <1>1, <2>1 DEF Parts, Lists
<1>7. \A d \in Parts \ {"items", "env_files"} : RunSoftware(s, h)[d] = s[d]
    <2>1. \E x, y : RunSoftware(s, h) = [s EXCEPT !.items = x, !.env_files = y]
        BY DEF RunSoftware
    <2> QED BY <1>1, <2>1 DEF Parts, Lists
<1>8. \A d \in Parts \ {"cmdline", "sysctl_overrides", "snippets", "tuned_profiles"} :
                RunKernel(s, h)[d] = s[d]
    <2>1. \E w, x, y, z : RunKernel(s, h) =
                [s EXCEPT !.cmdline = w, !.sysctl_overrides = x, !.snippets = y, !.tuned_profiles = z]
        BY DEF RunKernel
    <2> QED BY <1>1, <2>1 DEF Parts, Lists
<1>9. \A d \in Parts \ {"users", "groups", "shadow_entries"} : RunUsers(s, h, a)[d] = s[d]
    <2>1. \E x, y, z : RunUsers(s, h, a) = [s EXCEPT !.users = x, !.groups = y, !.shadow_entries = z]
        BY DEF RunUsers
    <2> QED BY <1>1, <2>1 DEF Parts, Lists
<1> QED BY <1>2, <1>3, <1>4, <1>5, <1>6, <1>7, <1>8, <1>9

LEMMA FoundSnapshots ==
    ASSUME NEW h \in Hosts, NEW a, NEW u, NEW o
    PROVE  /\ IsSnapshot(Found0(h)) /\ IsSnapshot(Found1(h, a, u)) /\ IsSnapshot(Found2(h, a, u))
           /\ IsSnapshot(Found3(h, a, u)) /\ IsSnapshot(Found4(h, a, u)) /\ IsSnapshot(Found5(h, a, u))
           /\ IsSnapshot(Found6(h, a, u)) /\ IsSnapshot(Found7(h, a, u)) /\ IsSnapshot(Found(h, a, u, o))
<1>1. IsSnapshot(Found0(h))
    BY Found0IsSnapshot
<1>2. IsSnapshot(Found1(h, a, u))
    <2>1. PICK owned : owned = ("paths" \in a)
        OBVIOUS
    <2>2. IsSnapshot(RunConfig(Found0(h), h, owned, u))
        BY <1>1, ConfigSnapshot
    <2> QED BY <2>1, <2>2, ReposSnapshot DEF Found1
<1>3. IsSnapshot(Found2(h, a, u))
    <2>1. PICK base, lists, answers : base = (IF "presets" \in a THEN h.base_presets ELSE None)
                /\ lists = ("systemctl" \in a) /\ answers = ("owners" \in a)
        OBVIOUS
    <2> QED BY <1>2, <2>1, ServicesSnapshot DEF Found2
<1>4. IsSnapshot(Found3(h, a, u))
    BY <1>3, NetworkSnapshot DEF Found3
<1>5. IsSnapshot(Found4(h, a, u))
    <2>1. PICK owned : owned = ("paths" \in a)
        OBVIOUS
    <2> QED BY <1>4, <2>1, ScheduledSnapshot DEF Found4
<1>6. IsSnapshot(Found5(h, a, u))
    BY <1>5, ContainersSnapshot DEF Found5
<1>7. IsSnapshot(Found6(h, a, u))
    BY <1>6, SoftwareSnapshot DEF Found6
<1>8. IsSnapshot(Found7(h, a, u))
    BY <1>7, KernelSnapshot DEF Found7
<1>9. IsSnapshot(Found(h, a, u, o))
    BY <1>8, UsersSnapshot DEF Found
<1> QED BY <1>1, <1>2, <1>3, <1>4, <1>5, <1>6, <1>7, <1>8, <1>9

LEMMA OwnConfig ==
    ASSUME NEW s, IsSnapshot(s), NEW h, NEW a, NEW b
    PROVE  \A d \in Parts \ {"config", "repo_files", "gpg_keys"} :
                RunRepos(RunConfig(s, h, a, b), h)[d] = s[d]
<1>1. DOMAIN s = Parts
    BY DEF IsSnapshot
<1>2. PICK r : r = RunConfig(s, h, a, b)
    OBVIOUS
<1>3. DOMAIN r = Parts /\ \A d \in Parts \ {"config"} : r[d] = s[d]
    BY <1>1, <1>2 DEF RunConfig, Parts, Lists
<1>4. \A d \in Parts \ {"repo_files", "gpg_keys"} : RunRepos(r, h)[d] = r[d]
    BY <1>3 DEF RunRepos, Parts, Lists
<1> QED BY <1>2, <1>3, <1>4

LEMMA OwnScheduled ==
    ASSUME NEW s, IsSnapshot(s), NEW h, NEW a
    PROVE  \A d \in Parts \ {"generated_timer_units", "systemd_timers"} :
                RunScheduled(s, h, a)[d] = s[d]
<1>1. DOMAIN s = Parts
    BY DEF IsSnapshot
<1>2. \E x, y : RunScheduled(s, h, a) = [s EXCEPT !.generated_timer_units = x, !.systemd_timers = y]
    BY DEF RunScheduled
<1> QED BY <1>1, <1>2 DEF Parts, Lists

LEMMA OwnUsers ==
    ASSUME NEW s, IsSnapshot(s), NEW h, NEW o
    PROVE  \A d \in Parts \ {"users", "groups", "shadow_entries"} : RunUsers(s, h, o)[d] = s[d]
<1>1. DOMAIN s = Parts
    BY DEF IsSnapshot
<1>2. \E x, y, z : RunUsers(s, h, o) = [s EXCEPT !.users = x, !.groups = y, !.shadow_entries = z]
    BY DEF RunUsers
<1> QED BY <1>1, <1>2 DEF Parts, Lists

LEMMA OwnKernel ==
    ASSUME NEW s, IsSnapshot(s), NEW h
    PROVE  \A d \in Parts \ {"cmdline", "sysctl_overrides", "snippets", "tuned_profiles"} :
                RunKernel(s, h)[d] = s[d]
BY OwnSections

(* The inspector each section of the whole snapshot comes from.            *)
LEMMA FoundSections ==
    ASSUME NEW h \in Hosts, NEW a, NEW u, NEW o
    PROVE  /\ \A d \in {"packages"} : Found(h, a, u, o)[d] = Found0(h)[d]
           /\ \A d \in {"config", "repo_files", "gpg_keys"} : Found(h, a, u, o)[d] = Found1(h, a, u)[d]
           /\ \A d \in {"state_changes", "enabled_units", "disabled_units", "drop_ins"} :
                Found(h, a, u, o)[d] = Found2(h, a, u)[d]
           /\ \A d \in {"connections", "firewall_zones", "direct_rules"} :
                Found(h, a, u, o)[d] = Found3(h, a, u)[d]
           /\ \A d \in {"generated_timer_units", "systemd_timers"} :
                Found(h, a, u, o)[d] = Found4(h, a, u)[d]
           /\ \A d \in {"quadlet_units"} : Found(h, a, u, o)[d] = Found5(h, a, u)[d]
           /\ \A d \in {"items", "env_files"} : Found(h, a, u, o)[d] = Found6(h, a, u)[d]
           /\ \A d \in {"cmdline", "sysctl_overrides", "snippets", "tuned_profiles"} :
                Found(h, a, u, o)[d] = Found7(h, a, u)[d]
<1> DEFINE s0 == Found0(h)
           s1 == Found1(h, a, u)
           s2 == Found2(h, a, u)
           s3 == Found3(h, a, u)
           s4 == Found4(h, a, u)
           s5 == Found5(h, a, u)
           s6 == Found6(h, a, u)
           s7 == Found7(h, a, u)
           s8 == Found(h, a, u, o)
<1>1. /\ IsSnapshot(s0) /\ IsSnapshot(s1) /\ IsSnapshot(s2) /\ IsSnapshot(s3) /\ IsSnapshot(s4)
      /\ IsSnapshot(s5) /\ IsSnapshot(s6) /\ IsSnapshot(s7)
    BY FoundSnapshots
<1>2. \A d \in Parts \ {"config", "repo_files", "gpg_keys"} : s1[d] = s0[d]
    <2>1. PICK owned : owned = ("paths" \in a)
        OBVIOUS
    <2>2. s1 = RunRepos(RunConfig(s0, h, owned, u), h)
        BY <2>1 DEF Found1
    <2> HIDE DEF s0, s1
    <2>3. \A d \in Parts \ {"config", "repo_files", "gpg_keys"} :
            RunRepos(RunConfig(s0, h, owned, u), h)[d] = s0[d]
        BY <1>1, OwnConfig
    <2> QED BY <2>2, <2>3
<1>3. \A d \in Parts \ {"state_changes", "enabled_units", "disabled_units", "drop_ins"} : s2[d] = s1[d]
    <2>1. PICK base, lists, answers : base = (IF "presets" \in a THEN h.base_presets ELSE None)
                /\ lists = ("systemctl" \in a) /\ answers = ("owners" \in a)
        OBVIOUS
    <2>2. s2 = RunServices(s1, h, base, lists, answers)
        BY <2>1 DEF Found2
    <2> HIDE DEF s1, s2
    <2> QED BY <1>1, <2>2, OwnSections
<1>4. \A d \in Parts \ {"connections", "firewall_zones", "direct_rules"} : s3[d] = s2[d]
    BY <1>1, OwnSections DEF Found3
<1>5. \A d \in Parts \ {"generated_timer_units", "systemd_timers"} : s4[d] = s3[d]
    <2>1. PICK owned : owned = ("paths" \in a)
        OBVIOUS
    <2>2. s4 = RunScheduled(s3, h, owned)
        BY <2>1 DEF Found4
    <2> HIDE DEF s3, s4
    <2>3. \A d \in Parts \ {"generated_timer_units", "systemd_timers"} :
            RunScheduled(s3, h, owned)[d] = s3[d]
        BY <1>1, OwnScheduled
    <2> QED BY <2>2, <2>3
<1>6. \A d \in Parts \ {"quadlet_units"} : s5[d] = s4[d]
    BY <1>1, OwnSections DEF Found5
<1>7. \A d \in Parts \ {"items", "env_files"} : s6[d] = s5[d]
    BY <1>1, OwnSections DEF Found6
<1>8. \A d \in Parts \ {"cmdline", "sysctl_overrides", "snippets", "tuned_profiles"} : s7[d] = s6[d]
    <2>1. s7 = RunKernel(s6, h)
        BY DEF Found7
    <2> HIDE DEF s6, s7
    <2>2. \A d \in Parts \ {"cmdline", "sysctl_overrides", "snippets", "tuned_profiles"} :
            RunKernel(s6, h)[d] = s6[d]
        BY <1>1, OwnKernel
    <2> QED BY <2>1, <2>2
<1>9. \A d \in Parts \ {"users", "groups", "shadow_entries"} : s8[d] = s7[d]
    <2>1. s8 = RunUsers(s7, h, o)
        BY DEF Found
    <2> HIDE DEF s7, s8
    <2>2. \A d \in Parts \ {"users", "groups", "shadow_entries"} : RunUsers(s7, h, o)[d] = s7[d]
        BY <1>1, OwnUsers
    <2> QED BY <2>1, <2>2
<1>10. {"packages", "config", "repo_files", "gpg_keys", "state_changes", "enabled_units", "disabled_units",
        "drop_ins", "connections", "firewall_zones", "direct_rules", "generated_timer_units",
        "systemd_timers", "quadlet_units", "items", "env_files", "cmdline", "sysctl_overrides",
        "snippets", "tuned_profiles"} \subseteq Parts
    BY DEF Parts, Lists
<1> HIDE DEF s0, s1, s2, s3, s4, s5, s6, s7, s8, Parts
<1>11. \A d \in Parts \ {"users", "groups", "shadow_entries", "cmdline", "sysctl_overrides", "snippets",
                        "tuned_profiles"} : s8[d] = s6[d]
    BY <1>8, <1>9
<1>12. \A d \in Parts \ {"users", "groups", "shadow_entries", "cmdline", "sysctl_overrides", "snippets",
                        "tuned_profiles", "items", "env_files"} : s8[d] = s5[d]
    BY <1>7, <1>11
<1>13. \A d \in Parts \ {"users", "groups", "shadow_entries", "cmdline", "sysctl_overrides", "snippets",
                        "tuned_profiles", "items", "env_files", "quadlet_units"} : s8[d] = s4[d]
    BY <1>6, <1>12
<1>14. \A d \in {"packages", "config", "repo_files", "gpg_keys", "state_changes", "enabled_units",
                 "disabled_units", "drop_ins", "connections", "firewall_zones", "direct_rules"} :
            s8[d] = s3[d]
    BY <1>5, <1>10, <1>13
<1>15. \A d \in {"packages", "config", "repo_files", "gpg_keys", "state_changes", "enabled_units",
                 "disabled_units", "drop_ins"} : s8[d] = s2[d]
    BY <1>4, <1>10, <1>14
<1>16. \A d \in {"packages", "config", "repo_files", "gpg_keys"} : s8[d] = s1[d]
    BY <1>3, <1>10, <1>15
<1>17. \A d \in {"packages"} : s8[d] = s0[d]
    BY <1>2, <1>10, <1>16
<1>18. /\ \A d \in {"config", "repo_files", "gpg_keys"} : s8[d] = s1[d]
       /\ \A d \in {"state_changes", "enabled_units", "disabled_units", "drop_ins"} : s8[d] = s2[d]
       /\ \A d \in {"connections", "firewall_zones", "direct_rules"} : s8[d] = s3[d]
       /\ \A d \in {"generated_timer_units", "systemd_timers"} : s8[d] = s4[d]
    BY <1>10, <1>13, <1>14, <1>15, <1>16
<1>19. /\ \A d \in {"quadlet_units"} : s8[d] = s5[d]
       /\ \A d \in {"items", "env_files"} : s8[d] = s6[d]
       /\ \A d \in {"cmdline", "sysctl_overrides", "snippets", "tuned_profiles"} : s8[d] = s7[d]
    BY <1>9, <1>10, <1>11, <1>12
<1> QED BY <1>17, <1>18, <1>19 DEF s0, s1, s2, s3, s4, s5, s6, s7, s8
-----------------------------------------------------------------------------
(* What the report and the redaction leave of what was found.              *)

Marked == {"include", "strategy", "text", "service_content", "command", "hash"}

(* x is y but for its checkbox, its strategy and what was redacted.        *)
Like(x, y) ==
    /\ DOMAIN x = DOMAIN y
    /\ \A f \in DOMAIN y \ Marked : x[f] = y[f]
    /\ "text" \in DOMAIN y => \/ x.text.of = y.text.of
                              \/ IsExcludedPath(y.path) /\ x.text = ExcludedPlaceholder
    /\ "service_content" \in DOMAIN y => x.service_content.of = y.service_content.of

LikeAll(list, found) ==
    DOMAIN list = DOMAIN found /\ \A i \in DOMAIN found : Like(list[i], found[i])

Alike(s, t) ==
    /\ \A d \in (Parts \ Lists) \cup {"cmdline"} : s[d] = t[d]
    /\ \A d \in Lists \ {"redactions", "cmdline"} : LikeAll(s[d], t[d])

(* Checkboxes of groups and strategies are those found, but for the edits. *)
Untouched(s, t, e) ==
    /\ \A i \in DOMAIN s.groups : s.groups[i].include <=> <<"groups", i>> \notin e
    /\ \A d \in {"users", "groups"} : \A i \in DOMAIN s[d] :
           /\ s[d][i].strategy \in Strategies
           /\ <<"strategy", d, i>> \notin e => s[d][i].strategy = t[d][i].strategy

LEMMA LikeSelf == ASSUME NEW s PROVE Alike(s, s)
BY DEF Alike, LikeAll, Like

LEMMA RedactedText ==
    ASSUME NEW text
    PROVE  /\ RedactText(text).of = text.of
           /\ RedactText(ExcludedPlaceholder) = ExcludedPlaceholder
<1>1. Matching(ExcludedPlaceholder) = {}
    BY DEF Matching, ExcludedPlaceholder, Text
<1>2. RedactText(ExcludedPlaceholder) = ExcludedPlaceholder
    BY <1>1 DEF RedactText
<1>3. RedactText(text).of = text.of
    BY DEF RedactText, Text
<1> QED BY <1>2, <1>3

LEMMA LikeRedacted ==
    ASSUME NEW x, NEW y, Like(x, y)
    PROVE  /\ {"path", "text"} \subseteq DOMAIN x => Like(RedactItem(x), y) /\ Like(RedactFile(x), y)
           /\ {"service_content", "command"} \subseteq DOMAIN x => Like(RedactGenerated(x), y)
           /\ "service_content" \in DOMAIN x => Like(RedactTimer(x), y)
           /\ "hash" \in DOMAIN x => Like(RedactShadow(x), y)
<1>1. ASSUME {"path", "text"} \subseteq DOMAIN x PROVE Like(RedactItem(x), y)
    <2>1. PICK text : text = RedactText(x.text)
        OBVIOUS
    <2>2. text.of = y.text.of \/ (IsExcludedPath(y.path) /\ text = ExcludedPlaceholder)
        BY <1>1, <2>1, RedactedText DEF Like
    <2>3. RedactItem(x) = [x EXCEPT !.text = text]
        BY <2>1 DEF RedactItem
    <2> QED BY <2>2, <2>3 DEF Like, Marked
<1>2. ASSUME {"path", "text"} \subseteq DOMAIN x PROVE Like(RedactFile(x), y)
    <2>1. PICK text : text = IF IsExcludedPath(x.path) THEN ExcludedPlaceholder ELSE RedactText(x.text)
        OBVIOUS
    <2>2. x.path = y.path
        BY <1>2 DEF Like, Marked
    <2>3. text.of = y.text.of \/ (IsExcludedPath(y.path) /\ text = ExcludedPlaceholder)
        BY <1>2, <2>1, <2>2, RedactedText DEF Like
    <2>4. RedactFile(x) = [x EXCEPT !.text = text]
        BY <2>1 DEF RedactFile
    <2> QED BY <2>3, <2>4 DEF Like, Marked
<1>3. ASSUME {"service_content", "command"} \subseteq DOMAIN x PROVE Like(RedactGenerated(x), y)
    <2>1. PICK service, command : service = RedactText(x.service_content) /\ command = RedactText(x.command)
        OBVIOUS
    <2>2. service.of = y.service_content.of
        BY <1>3, <2>1, RedactedText DEF Like
    <2>3. RedactGenerated(x) = [x EXCEPT !.service_content = service, !.command = command]
        BY <2>1 DEF RedactGenerated
    <2> QED BY <2>2, <2>3 DEF Like, Marked
<1>4. ASSUME "service_content" \in DOMAIN x PROVE Like(RedactTimer(x), y)
    <2>1. PICK service : service = RedactText(x.service_content)
        OBVIOUS
    <2>2. service.of = y.service_content.of
        BY <1>4, <2>1, RedactedText DEF Like
    <2>3. RedactTimer(x) = [x EXCEPT !.service_content = service]
        BY <2>1 DEF RedactTimer
    <2> QED BY <2>2, <2>3 DEF Like, Marked
<1>5. ASSUME "hash" \in DOMAIN x PROVE Like(RedactShadow(x), y)
    BY DEF RedactShadow, Like, Marked
<1> QED BY <1>1, <1>2, <1>3, <1>4, <1>5

LEMMA LikeEdited ==
    ASSUME NEW list, NEW found, LikeAll(list, found), NEW i \in DOMAIN list,
           NEW field \in {"include", "strategy"}, NEW value
    PROVE  LikeAll([list EXCEPT ![i] = [list[i] EXCEPT ![field] = value]], found)
<1>1. PICK x : x = [list[i] EXCEPT ![field] = value]
    OBVIOUS
<1>2. Like(x, found[i])
    BY <1>1 DEF LikeAll, Like, Marked
<1> QED BY <1>1, <1>2 DEF LikeAll

LEMMA AlikeRedacted ==
    ASSUME NEW s, IsSnapshot(s), NEW t, Alike(s, t)
    PROVE  Alike(RedactSnapshot(s), t)
<1> DEFINE r == RedactSnapshot(s)
<1>1. \A d \in Parts \ (Redacted \cup {"redactions"}) : r[d] = s[d]
    BY RedactedSections
<1>2. /\ r.config = Each(RedactFile, s.config)
      /\ r.firewall_zones = RedactItems(s.firewall_zones)
      /\ r.quadlet_units = RedactItems(s.quadlet_units)
      /\ r.generated_timer_units = Each(RedactGenerated, s.generated_timer_units)
      /\ r.systemd_timers = Each(RedactTimer, s.systemd_timers)
      /\ r.snippets = RedactItems(s.snippets)
      /\ r.env_files = RedactItems(s.env_files)
      /\ r.shadow_entries = Each(RedactShadow, s.shadow_entries)
    BY RedactedSections
<1>3. \A d \in Lists \ {"redactions", "cmdline"} :
        LikeAll(s[d], t[d]) /\ \A i \in DOMAIN s[d] : Fields(d) \subseteq DOMAIN s[d][i]
    BY DEF Alike, IsSnapshot, Records, ToSet
<1> HIDE DEF r
<1>4. ASSUME NEW d \in {"firewall_zones", "quadlet_units", "snippets", "env_files"},
             r[d] = RedactItems(s[d])
      PROVE  LikeAll(r[d], t[d])
    <2>1. d \in Lists \ {"redactions", "cmdline"} /\ Fields(d) = {"path", "text", "include"}
        BY FieldsAre DEF Lists
    <2>2. r[d] = [i \in DOMAIN s[d] |-> RedactItem(s[d][i])]
        BY <1>4 DEF RedactItems, RedactItem
    <2>3. \A i \in DOMAIN s[d] : {"path", "text"} \subseteq DOMAIN s[d][i]
        BY <1>3, <2>1
    <2>4. LikeAll(s[d], t[d])
        BY <1>3, <2>1
    <2> QED BY <2>2, <2>3, <2>4, LikeRedacted DEF LikeAll
<1>5. LikeAll(r.config, t.config)
    <2>1. \A i \in DOMAIN s.config : {"path", "text"} \subseteq DOMAIN s.config[i]
        BY <1>3, FieldsAre DEF Lists
    <2>2. LikeAll(s.config, t.config)
        BY <1>3 DEF Lists
    <2> QED BY <1>2, <2>1, <2>2, LikeRedacted DEF LikeAll, Each
<1>6. LikeAll(r.generated_timer_units, t.generated_timer_units)
    <2>1. \A i \in DOMAIN s.generated_timer_units :
                {"service_content", "command"} \subseteq DOMAIN s.generated_timer_units[i]
        BY <1>3, FieldsAre DEF Lists
    <2>2. LikeAll(s.generated_timer_units, t.generated_timer_units)
        BY <1>3 DEF Lists
    <2> QED BY <1>2, <2>1, <2>2, LikeRedacted DEF LikeAll, Each
<1>7. LikeAll(r.systemd_timers, t.systemd_timers)
    <2>1. \A i \in DOMAIN s.systemd_timers : "service_content" \in DOMAIN s.systemd_timers[i]
        BY <1>3, FieldsAre DEF Lists
    <2>2. LikeAll(s.systemd_timers, t.systemd_timers)
        BY <1>3 DEF Lists
    <2> QED BY <1>2, <2>1, <2>2, LikeRedacted DEF LikeAll, Each
<1>8. LikeAll(r.shadow_entries, t.shadow_entries)
    <2>1. \A i \in DOMAIN s.shadow_entries : "hash" \in DOMAIN s.shadow_entries[i]
        BY <1>3, FieldsAre DEF Lists
    <2>2. LikeAll(s.shadow_entries, t.shadow_entries)
        BY <1>3 DEF Lists
    <2> QED BY <1>2, <2>1, <2>2, LikeRedacted DEF LikeAll, Each
<1>9. /\ LikeAll(r.firewall_zones, t.firewall_zones) /\ LikeAll(r.quadlet_units, t.quadlet_units)
      /\ LikeAll(r.snippets, t.snippets) /\ LikeAll(r.env_files, t.env_files)
    BY <1>2, <1>4
<1>10. \A d \in Redacted : LikeAll(r[d], t[d])
    BY <1>5, <1>6, <1>7, <1>8, <1>9 DEF Redacted
<1>11. \A d \in Lists \ {"redactions", "cmdline"} : LikeAll(r[d], t[d])
    BY <1>1, <1>3, <1>10 DEF Parts
<1>12. \A d \in (Parts \ Lists) \cup {"cmdline"} : r[d] = t[d]
    <2>1. \A d \in (Parts \ Lists) \cup {"cmdline"} : d \in Parts \ (Redacted \cup {"redactions"})
        BY DEF Parts, Lists, Redacted
    <2> QED BY <1>1, <2>1 DEF Alike
<1> QED BY <1>11, <1>12 DEF Alike, r

LEMMA AlikeEdited ==
    ASSUME NEW s, IsSnapshot(s), NEW t, Alike(s, t), NEW d \in Lists \ {"redactions", "cmdline"},
           NEW i \in DOMAIN s[d], NEW field \in {"include", "strategy"}, NEW value
    PROVE  Alike([s EXCEPT ![d] = [s[d] EXCEPT ![i] = [s[d][i] EXCEPT ![field] = value]]], t)
<1>1. PICK list : list = [s[d] EXCEPT ![i] = [s[d][i] EXCEPT ![field] = value]]
    OBVIOUS
<1>2. LikeAll(s[d], t[d])
    BY DEF Alike
<1>3. LikeAll(list, t[d])
    BY <1>1, <1>2, LikeEdited
<1>4. DOMAIN s = Parts
    BY DEF IsSnapshot
<1>5. PICK r : r = [s EXCEPT ![d] = list]
    OBVIOUS
<1>6. \A e \in Parts : r[e] = IF e = d THEN list ELSE s[e]
    BY <1>4, <1>5
<1>7. Alike(r, t)
    BY <1>3, <1>6 DEF Alike, Parts, Lists
<1> QED BY <1>1, <1>5, <1>7

(* The accounts found.                                                     *)
OwnAccounts(accounts, id) ==
    Picked(accounts, {n \in DOMAIN accounts : OwnId(accounts[n][id])})

LEMMA OwnAccountsFacts ==
    ASSUME NEW accounts, IsList(accounts), NEW id
    PROVE  LET own == OwnAccounts(accounts, id)
           IN  IsList(own) /\ ToSet(own) = {x \in ToSet(accounts) : OwnId(x[id])}
<1> DEFINE places == {n \in DOMAIN accounts : OwnId(accounts[n][id])}
<1>1. /\ IsList(Picked(accounts, places))
      /\ ToSet(Picked(accounts, places)) = {accounts[n] : n \in places}
    BY PickedFacts
<1>2. {accounts[n] : n \in places} = {x \in ToSet(accounts) : OwnId(x[id])}
    BY DEF ToSet
<1> QED BY <1>1, <1>2 DEF OwnAccounts

LEMMA UsersFacts ==
    ASSUME NEW h \in Hosts, NEW o \in Overrides
    PROVE  LET users == Users(h, o)
               own   == OwnAccounts(h.users, "uid")
           IN  /\ IsList(users) /\ DOMAIN users = DOMAIN own
               /\ \A i \in DOMAIN own :
                    /\ users[i].name = own[i].name /\ users[i].gid = own[i].gid
                    /\ users[i].strategy \in Strategies /\ users[i].include
<1> DEFINE users == Users(h, o)
           own   == OwnAccounts(h.users, "uid")
<1>1. IsList(own)
    BY ListsOfHost, OwnAccountsFacts
<1>2. users = [i \in DOMAIN own |->
                [name |-> own[i].name, uid |-> own[i].uid, gid |-> own[i].gid,
                 home |-> own[i].home, strategy |-> Strategy(own[i], o), include |-> TRUE]]
    BY DEF Users, Select, OwnAccounts
<1>3. \A x : Strategy(x, o) \in Strategies
    <2> SUFFICES ASSUME NEW x PROVE Strategy(x, o) \in Strategies
        OBVIOUS
    <2>1. Classify(x) \in {"service", "ambiguous", "human"}
        BY DEF Classify
    <2>2. Default(Classify(x)) \in Strategies
        BY <2>1 DEF Default, Strategies
    <2> QED BY <2>2, HostAssumption DEF Strategy
<1> HIDE DEF own, users
<1>4. users = [i \in DOMAIN own |-> users[i]]
    BY <1>2
<1>5. IsList(users) /\ DOMAIN users = DOMAIN own
    BY <1>1, <1>4, MapFacts
<1> QED BY <1>2, <1>3, <1>5 DEF own, users

LEMMA WithGidFacts ==
    ASSUME NEW users, IsList(users), NEW gid
    PROVE  /\ IsList(WithGid(users, gid))
           /\ ToSet(WithGid(users, gid)) = {x \in ToSet(users) : x.gid = gid}
           /\ WithGid(users, gid) # <<>> => WithGid(users, gid)[1] \in ToSet(WithGid(users, gid))
           /\ WithGid(users, gid) = <<>> <=> \A x \in ToSet(users) : x.gid # gid
<1> DEFINE places == {n \in DOMAIN users : users[n].gid = gid}
           w == Picked(users, places)
<1>1. w = WithGid(users, gid)
    BY DEF WithGid, Select
<1>2. IsList(w) /\ ToSet(w) = {users[n] : n \in places} /\ (w = <<>> <=> places = {})
    BY PickedFacts
<1>3. {users[n] : n \in places} = {x \in ToSet(users) : x.gid = gid}
    BY DEF ToSet
<1>4. places = {} <=> \A x \in ToSet(users) : x.gid # gid
    BY DEF ToSet
<1> HIDE DEF places, w
<1>5. w # <<>> => w[1] \in ToSet(w)
    <2>1. w # <<>> => 1 \in DOMAIN w
        BY <1>2, ListFacts
    <2> QED BY <2>1 DEF ToSet
<1> QED BY <1>1, <1>2, <1>3, <1>4, <1>5

LEMMA GroupsFacts ==
    ASSUME NEW h \in Hosts, NEW o \in Overrides, NEW users, IsList(users),
           \A x \in ToSet(users) : x.strategy \in Strategies
    PROVE  LET groups == Groups(h, users, o)
               own    == OwnAccounts(h.groups, "gid")
           IN  /\ IsList(groups) /\ DOMAIN groups = DOMAIN own
               /\ \A i \in DOMAIN own :
                    /\ groups[i].name = own[i].name /\ groups[i].gid = own[i].gid
                    /\ groups[i].strategy = GroupStrategy(own[i], users, o)
                    /\ groups[i].strategy \in Strategies /\ groups[i].include
<1> DEFINE groups == Groups(h, users, o)
           own    == OwnAccounts(h.groups, "gid")
<1>1. IsList(own)
    BY ListsOfHost, OwnAccountsFacts
<1>2. groups = [i \in DOMAIN own |->
                [name |-> own[i].name, gid |-> own[i].gid,
                 strategy |-> GroupStrategy(own[i], users, o), include |-> TRUE]]
    BY DEF Groups, Select, OwnAccounts
<1>3. \A x : GroupStrategy(x, users, o) \in Strategies
    <2> SUFFICES ASSUME NEW x PROVE GroupStrategy(x, users, o) \in Strategies
        OBVIOUS
    <2>1. WithGid(users, x.gid) # <<>> => WithGid(users, x.gid)[1].strategy \in Strategies
        BY WithGidFacts
    <2>2. "sysusers" \in Strategies /\ (o # None => o \in Strategies)
        BY HostAssumption DEF Strategies
    <2> QED BY <2>1, <2>2 DEF GroupStrategy
<1> HIDE DEF own, groups
<1>4. groups = [i \in DOMAIN own |-> groups[i]]
    BY <1>2
<1>5. IsList(groups) /\ DOMAIN groups = DOMAIN own
    BY <1>1, <1>4, MapFacts
<1> QED BY <1>2, <1>3, <1>5 DEF own, groups

LEMMA FoundAccounts ==
    ASSUME NEW h \in Hosts, NEW a, NEW u, NEW o \in Overrides
    PROVE  LET f == Found(h, a, u, o)
           IN  f.users = Users(h, o) /\ f.groups = Groups(h, f.users, o)
<1>1. IsSnapshot(Found7(h, a, u))
    BY FoundSnapshots
<1>2. PICK s : s = Found7(h, a, u)
    OBVIOUS
<1>3. "users" \in DOMAIN s /\ "groups" \in DOMAIN s
    BY <1>1, <1>2 DEF IsSnapshot, Parts, Lists
<1>4. Found(h, a, u, o) = RunUsers(s, h, o)
    BY <1>2 DEF Found
<1> QED BY <1>3, <1>4 DEF RunUsers

LEMMA UntouchedFound ==
    ASSUME NEW h \in Hosts, NEW a, NEW u, NEW o \in Overrides
    PROVE  Untouched(Found(h, a, u, o), Found(h, a, u, o), {})
<1> DEFINE f == Found(h, a, u, o)
<1>1. f.users = Users(h, o) /\ f.groups = Groups(h, f.users, o)
    BY FoundAccounts
<1> HIDE DEF f
<1>2. IsList(f.users) /\ \A i \in DOMAIN f.users : f.users[i].strategy \in Strategies
    BY <1>1, UsersFacts
<1>3. \A x \in ToSet(f.users) : x.strategy \in Strategies
    BY <1>2 DEF ToSet
<1>4. \A i \in DOMAIN f.groups : f.groups[i].strategy \in Strategies /\ f.groups[i].include
    BY <1>1, <1>2, <1>3, GroupsFacts
<1>5. Untouched(f, f, {})
    BY <1>2, <1>4 DEF Untouched
<1> QED BY <1>5 DEF f

LEMMA UntouchedRedacted ==
    ASSUME NEW s, IsSnapshot(s), NEW t, NEW e, Untouched(s, t, e)
    PROVE  Untouched(RedactSnapshot(s), t, e)
<1>1. \A d \in {"users", "groups"} : RedactSnapshot(s)[d] = s[d]
    <2>1. \A d \in {"users", "groups"} : d \in Parts \ (Redacted \cup {"redactions"})
        BY DEF Parts, Lists, Redacted
    <2>2. \A d \in Parts \ (Redacted \cup {"redactions"}) : RedactSnapshot(s)[d] = s[d]
        BY RedactedSections
    <2> QED BY <2>1, <2>2
<1>2. PICK r : r = RedactSnapshot(s)
    OBVIOUS
<1>3. r.users = s.users /\ r.groups = s.groups
    BY <1>1, <1>2
<1>4. Untouched(r, t, e)
    BY <1>3 DEF Untouched
<1> QED BY <1>2, <1>4

LEMMA UntouchedToggled ==
    ASSUME NEW s, IsSnapshot(s), NEW t, NEW e, Untouched(s, t, e), NEW d \in Checkboxes,
           NEW i \in DOMAIN s[d], NEW r, NEW value, value <=> ~s[d][i].include,
           r = [s EXCEPT ![d] = [s[d] EXCEPT ![i] = [s[d][i] EXCEPT !["include"] = value]]],
           \A l \in {"users", "groups"} : \A j \in DOMAIN s[l] : {"include", "strategy"} \subseteq DOMAIN s[l][j]
    PROVE  Untouched(r, t, (e \ {<<d, i>>}) \cup ({<<d, i>>} \ e))
<1> DEFINE n == (e \ {<<d, i>>}) \cup ({<<d, i>>} \ e)
<1>1. \A x : x \in n <=> IF x = <<d, i>> THEN x \notin e ELSE x \in e
    OBVIOUS
<1>2. DOMAIN s = Parts /\ d \in Parts /\ {"users", "groups"} \subseteq Parts
    BY DEF IsSnapshot, Parts, Lists, Checkboxes
<1>3. \A l \in {"users", "groups"} : /\ DOMAIN r[l] = DOMAIN s[l]
                                     /\ \A j \in DOMAIN s[l] : r[l][j].strategy = s[l][j].strategy
    BY <1>2
<1>4. \A l \in {"users", "groups"} : \A j : <<"strategy", l, j>> # <<d, i>>
    OBVIOUS
<1> HIDE DEF n
<1>5. \A l \in {"users", "groups"} : \A j \in DOMAIN r[l] :
           /\ r[l][j].strategy \in Strategies
           /\ <<"strategy", l, j>> \notin n => r[l][j].strategy = t[l][j].strategy
    BY <1>1, <1>3, <1>4 DEF Untouched
<1>6. \A j \in DOMAIN r.groups : r.groups[j].include <=> <<"groups", j>> \notin n
    <2> SUFFICES ASSUME NEW j \in DOMAIN r.groups
                 PROVE  r.groups[j].include <=> <<"groups", j>> \notin n
        OBVIOUS
    <2>1. j \in DOMAIN s.groups
        BY <1>3
    <2>2. CASE d = "groups" /\ j = i
        <3>1. r.groups[j].include <=> value
            BY <1>2, <2>1, <2>2
        <3>2. <<"groups", j>> = <<d, i>>
            BY <2>2
        <3> QED BY <1>1, <2>1, <2>2, <3>1, <3>2 DEF Untouched
    <2>3. CASE ~(d = "groups" /\ j = i)
        <3>1. r.groups[j].include = s.groups[j].include
            BY <1>2, <2>1, <2>3
        <3>2. <<"groups", j>> # <<d, i>>
            BY <2>3
        <3> QED BY <1>1, <2>1, <3>1, <3>2 DEF Untouched
    <2> QED BY <2>2, <2>3
<1> QED BY <1>5, <1>6 DEF Untouched, n

LEMMA UntouchedSet ==
    ASSUME NEW s, IsSnapshot(s), NEW t, NEW e, Untouched(s, t, e), NEW d \in {"users", "groups"},
           NEW i \in DOMAIN s[d], NEW r, NEW value \in Strategies, <<"strategy", d, i>> \notin e,
           r = [s EXCEPT ![d] = [s[d] EXCEPT ![i] = [s[d][i] EXCEPT !["strategy"] = value]]],
           \A l \in {"users", "groups"} : \A j \in DOMAIN s[l] : {"include", "strategy"} \subseteq DOMAIN s[l][j]
    PROVE  Untouched(r, t, (e \ {<<"strategy", d, i>>}) \cup ({<<"strategy", d, i>>} \ e))
<1> DEFINE x == <<"strategy", d, i>>
           n == (e \ {x}) \cup ({x} \ e)
<1>1. \A y : y \in n <=> y = x \/ y \in e
    OBVIOUS
<1>2. DOMAIN s = Parts /\ d \in Parts /\ {"users", "groups"} \subseteq Parts
    BY DEF IsSnapshot, Parts, Lists
<1>3. \A l \in {"users", "groups"} : /\ DOMAIN r[l] = DOMAIN s[l]
                                     /\ \A j \in DOMAIN s[l] : r[l][j].include = s[l][j].include
    BY <1>2
<1>4. \A j : <<"groups", j>> # x
    OBVIOUS
<1>5. \A l \in {"users", "groups"} : \A j \in DOMAIN s[l] :
            r[l][j].strategy = IF l = d /\ j = i THEN value ELSE s[l][j].strategy
    BY <1>2
<1>6. \A l \in {"users", "groups"} : \A j : l = d /\ j = i => <<"strategy", l, j>> = x
    OBVIOUS
<1> HIDE DEF n, x
<1>7. \A l \in {"users", "groups"} : \A j \in DOMAIN r[l] :
           /\ r[l][j].strategy \in Strategies
           /\ <<"strategy", l, j>> \notin n => r[l][j].strategy = t[l][j].strategy
    BY <1>1, <1>3, <1>5, <1>6 DEF Untouched
<1>8. \A j \in DOMAIN r.groups : r.groups[j].include <=> <<"groups", j>> \notin n
    BY <1>1, <1>3, <1>4 DEF Untouched
<1> QED BY <1>7, <1>8 DEF Untouched, n, x
-----------------------------------------------------------------------------
(* The inspection                                                          *)

Reported == phase \in {"render", "page", "edited", "build", "failed", "booted"}

(* Before the first rendering the snapshot is what the inspectors that ran *)
(* find on the host, whichever questions were answered; from then on it is *)
(* like what all of them found, up to the edits.                           *)
InspectedAs(u) ==
    /\ phase = "config"     => snap = Found0(host)
    /\ phase = "services"   => snap = Found1(host, answered, u)
    /\ phase = "network"    => snap = Found2(host, answered, u)
    /\ phase = "scheduled"  => snap = Found3(host, answered, u)
    /\ phase = "containers" => snap = Found4(host, answered, u)
    /\ phase = "software"   => snap = Found5(host, answered, u)
    /\ phase = "kernel"     => snap = Found6(host, answered, u)
    /\ phase = "users"      => snap = Found7(host, answered, u)
    /\ Reported => \E o \in Overrides :
            /\ Alike(snap, Found(host, answered, u, o))
            /\ Untouched(snap, Found(host, answered, u, o), edits)

InspectedInv ==
    /\ answered \subseteq Questions
    /\ ~Reported => edits = {}
    /\ \E u \in {{}, Modified} : InspectedAs(u)

LEMMA InspectedInit == ASSUME MigrationInit PROVE InspectedInv
<1>1. phase = "config" /\ edits = {} /\ answered \subseteq Questions /\ snap = Found0(host)
    BY DEF MigrationInit, Found0
<1>2. InspectedAs({})
    BY <1>1 DEF InspectedAs, Reported
<1> QED BY <1>1, <1>2 DEF InspectedInv, Reported

LEMMA InspectedStep ==
    ASSUME MigrationInv, InspectedInv, [MigrationNext]_migrationVars
    PROVE  InspectedInv'
<1>1. host \in Hosts /\ IsSnapshot(snap)
    BY DEF MigrationInv
<1>2. host' = host /\ answered' = answered
    BY DEF MigrationNext, migrationVars, Inspector, InspectConfig, InspectServices, InspectNetwork,
           InspectScheduled, InspectContainers, InspectSoftware, InspectKernel, InspectUsers,
           RenderFrom, RenderFirst, Rerender, Edit, Toggle, SetStrategy, StartBuild, BuildStep, Boot
<1>3. Modified' = Modified
    BY <1>2 DEF Modified
<1>4. PICK u \in {{}, Modified} : InspectedAs(u)
    BY DEF InspectedInv
<1>5. answered \subseteq Questions /\ (~Reported => edits = {})
    BY DEF InspectedInv
<1>6. SUFFICES /\ ~Reported' => edits' = {}
               /\ \E v \in {{}, Modified} : InspectedAs(v)'
    BY <1>2, <1>3, <1>5 DEF InspectedInv
<1>7. CASE InspectConfig
    <2>1. PICK v \in {{}, Modified} :
                snap' = RunRepos(RunConfig(snap, host, "paths" \in answered, v), host)
        BY <1>7 DEF InspectConfig, Inspector
    <2>2. phase = "config" /\ phase' = "services" /\ edits' = edits
        BY <1>7 DEF InspectConfig, Inspector
    <2>3. snap' = Found1(host', answered', v)
        BY <1>2, <1>4, <2>1, <2>2 DEF InspectedAs, Found1
    <2> QED BY <1>5, <2>2, <2>3 DEF InspectedAs, Reported
<1>8. CASE InspectServices
    <2>1. phase = "services" /\ phase' = "network" /\ edits' = edits
        BY <1>8 DEF InspectServices, Inspector
    <2>2. snap' = RunServices(snap, host, BasePresets, "systemctl" \in answered, "owners" \in answered)
        BY <1>8 DEF InspectServices, Inspector
    <2>3. snap' = Found2(host', answered', u)
        BY <1>2, <1>4, <2>1, <2>2 DEF InspectedAs, Found2, BasePresets
    <2> QED BY <1>5, <2>1, <2>3 DEF InspectedAs, Reported
<1>9. CASE InspectNetwork
    <2>1. phase = "network" /\ phase' = "scheduled" /\ edits' = edits
        BY <1>9 DEF InspectNetwork, Inspector
    <2>2. snap' = RunNetwork(snap, host)
        BY <1>9 DEF InspectNetwork, Inspector
    <2>3. snap' = Found3(host', answered', u)
        BY <1>2, <1>4, <2>1, <2>2 DEF InspectedAs, Found3
    <2> QED BY <1>5, <2>1, <2>3 DEF InspectedAs, Reported
<1>10. CASE InspectScheduled
    <2>1. phase = "scheduled" /\ phase' = "containers" /\ edits' = edits
        BY <1>10 DEF InspectScheduled, Inspector
    <2>2. snap' = RunScheduled(snap, host, "paths" \in answered)
        BY <1>10 DEF InspectScheduled, Inspector
    <2>3. snap' = Found4(host', answered', u)
        BY <1>2, <1>4, <2>1, <2>2 DEF InspectedAs, Found4
    <2> QED BY <1>5, <2>1, <2>3 DEF InspectedAs, Reported
<1>11. CASE InspectContainers
    <2>1. phase = "containers" /\ phase' = "software" /\ edits' = edits
        BY <1>11 DEF InspectContainers, Inspector
    <2>2. snap' = RunContainers(snap, host)
        BY <1>11 DEF InspectContainers, Inspector
    <2>3. snap' = Found5(host', answered', u)
        BY <1>2, <1>4, <2>1, <2>2 DEF InspectedAs, Found5
    <2> QED BY <1>5, <2>1, <2>3 DEF InspectedAs, Reported
<1>12. CASE InspectSoftware
    <2>1. phase = "software" /\ phase' = "kernel" /\ edits' = edits
        BY <1>12 DEF InspectSoftware, Inspector
    <2>2. snap' = RunSoftware(snap, host)
        BY <1>12 DEF InspectSoftware, Inspector
    <2>3. snap' = Found6(host', answered', u)
        BY <1>2, <1>4, <2>1, <2>2 DEF InspectedAs, Found6
    <2> QED BY <1>5, <2>1, <2>3 DEF InspectedAs, Reported
<1>13. CASE InspectKernel
    <2>1. phase = "kernel" /\ phase' = "users" /\ edits' = edits
        BY <1>13 DEF InspectKernel, Inspector
    <2>2. snap' = RunKernel(snap, host)
        BY <1>13 DEF InspectKernel, Inspector
    <2>3. snap' = Found7(host', answered', u)
        BY <1>2, <1>4, <2>1, <2>2 DEF InspectedAs, Found7
    <2> QED BY <1>5, <2>1, <2>3 DEF InspectedAs, Reported
<1>14. CASE InspectUsers
    <2>1. PICK o \in Overrides : snap' = RunUsers(snap, host, o)
        BY <1>14 DEF InspectUsers, Inspector
    <2>2. phase = "users" /\ phase' = "render" /\ edits' = edits
        BY <1>14 DEF InspectUsers, Inspector
    <2>3. snap' = Found(host, answered, u, o)
        BY <1>4, <2>1, <2>2 DEF InspectedAs, Found
    <2>4. edits' = {}
        BY <1>5, <2>2 DEF Reported
    <2>5. Alike(snap', Found(host', answered', u, o)) /\ Untouched(snap', Found(host', answered', u, o), edits')
        BY <1>1, <1>2, <2>3, <2>4, LikeSelf, UntouchedFound
    <2> QED BY <2>2, <2>4, <2>5 DEF InspectedAs, Reported
<1>15. ASSUME Reported, phase' \in {"page", "edited", "build", "failed", "booted"},
              \A t : Alike(snap, t) /\ Untouched(snap, t, edits) => Alike(snap', t) /\ Untouched(snap', t, edits')
       PROVE  /\ ~Reported' => edits' = {}
              /\ \E v \in {{}, Modified} : InspectedAs(v)'
    <2>1. PICK o \in Overrides : /\ Alike(snap, Found(host, answered, u, o))
                                 /\ Untouched(snap, Found(host, answered, u, o), edits)
        BY <1>4, <1>15 DEF InspectedAs
    <2>2. Alike(snap', Found(host', answered', u, o)) /\ Untouched(snap', Found(host', answered', u, o), edits')
        BY <1>2, <1>15, <2>1
    <2> QED BY <1>15, <2>2 DEF InspectedAs, Reported
<1>16. CASE RenderFirst \/ Rerender
    <2>1. /\ snap' = RedactSnapshot(snap) /\ edits' = edits /\ phase' = "page"
          /\ phase \in {"render", "page", "edited"}
        BY <1>16 DEF RenderFirst, Rerender, RenderFrom
    <2>2. \A t : Alike(snap, t) /\ Untouched(snap, t, edits) => Alike(snap', t) /\ Untouched(snap', t, edits')
        BY <1>1, <2>1, AlikeRedacted, UntouchedRedacted
    <2> QED BY <1>15, <2>1, <2>2 DEF Reported
<1>17. \A l \in {"users", "groups"} : \A j \in DOMAIN snap[l] : {"include", "strategy"} \subseteq DOMAIN snap[l][j]
    <2>1. \A l \in {"users", "groups"} : l \in Lists /\ {"include", "strategy"} \subseteq Fields(l)
        BY FieldsAre DEF Lists
    <2> QED BY <1>1, <2>1 DEF IsSnapshot, Records, ToSet
<1>18. CASE Toggle
    <2>1. PICK d \in Checkboxes : \E i \in DOMAIN snap[d] :
                Edit(<<d, i>>) /\ snap' = [snap EXCEPT ![d][i].include = ~@]
        BY <1>18 DEF Toggle
    <2>2. PICK i \in DOMAIN snap[d] :
                Edit(<<d, i>>) /\ snap' = [snap EXCEPT ![d][i].include = ~@]
        BY <2>1
    <2>3. PICK value : value = ~snap[d][i].include
        OBVIOUS
    <2>4. snap' = [snap EXCEPT ![d] = [snap[d] EXCEPT ![i] = [snap[d][i] EXCEPT !["include"] = value]]]
        BY <2>2, <2>3
    <2>5. edits' = (edits \ {<<d, i>>}) \cup ({<<d, i>>} \ edits) /\ phase' = "edited"
          /\ phase \in {"page", "edited"}
        BY <2>2 DEF Edit
    <2>6. d \in Lists \ {"redactions", "cmdline"}
        BY DEF Lists, Checkboxes
    <2>7. \A t : Alike(snap, t) => Alike(snap', t)
        BY <1>1, <2>4, <2>6, AlikeEdited
    <2>8. \A t : Untouched(snap, t, edits) => Untouched(snap', t, edits')
        BY <1>1, <1>17, <2>3, <2>4, <2>5, UntouchedToggled, ZenonT(40)
    <2> QED BY <1>15, <2>5, <2>7, <2>8 DEF Reported
<1>19. CASE SetStrategy
    <2>1. PICK d \in {"users", "groups"}, value \in Strategies : \E i \in DOMAIN snap[d] :
                /\ <<"strategy", d, i>> \notin edits /\ Edit(<<"strategy", d, i>>)
                /\ snap' = [snap EXCEPT ![d][i].strategy = value]
        BY <1>19 DEF SetStrategy
    <2>2. PICK i \in DOMAIN snap[d] :
                /\ <<"strategy", d, i>> \notin edits /\ Edit(<<"strategy", d, i>>)
                /\ snap' = [snap EXCEPT ![d][i].strategy = value]
        BY <2>1
    <2>4. snap' = [snap EXCEPT ![d] = [snap[d] EXCEPT ![i] = [snap[d][i] EXCEPT !["strategy"] = value]]]
        BY <2>2
    <2>5. edits' = (edits \ {<<"strategy", d, i>>}) \cup ({<<"strategy", d, i>>} \ edits) /\ phase' = "edited"
          /\ phase \in {"page", "edited"}
        BY <2>2 DEF Edit
    <2>6. d \in Lists \ {"redactions", "cmdline"}
        BY DEF Lists
    <2>7. \A t : Alike(snap, t) => Alike(snap', t)
        BY <1>1, <2>4, <2>6, AlikeEdited
    <2>8. \A t : Untouched(snap, t, edits) => Untouched(snap', t, edits')
        <3>1. PICK e, r, x : e = edits /\ r = snap' /\ x = <<"strategy", d, i>>
            OBVIOUS
        <3>2. /\ i \in DOMAIN snap[d] /\ <<"strategy", d, i>> \notin e
              /\ r = [snap EXCEPT ![d] = [snap[d] EXCEPT ![i] = [snap[d][i] EXCEPT !["strategy"] = value]]]
            BY <2>2, <2>4, <3>1
        <3>3. \A t : Untouched(snap, t, e)
                    => Untouched(r, t, (e \ {<<"strategy", d, i>>}) \cup ({<<"strategy", d, i>>} \ e))
            BY <1>1, <1>17, <3>2, UntouchedSet, ZenonT(40)
        <3>4. edits' = (e \ {<<"strategy", d, i>>}) \cup ({<<"strategy", d, i>>} \ e)
            BY <2>5, <3>1
        <3> QED BY <3>1, <3>3, <3>4
    <2> QED BY <1>15, <2>5, <2>7, <2>8 DEF Reported
<1>20. CASE StartBuild \/ BuildStep \/ Boot
    <2>1. snap' = snap /\ edits' = edits
        BY <1>20 DEF StartBuild, BuildStep, Boot
    <2>2. phase \in {"page", "build"} /\ phase' \in {"page", "edited", "build", "failed", "booted"}
        BY <1>20 DEF StartBuild, BuildStep, Boot
    <2> QED BY <1>15, <2>1, <2>2 DEF Reported
<1>21. CASE UNCHANGED migrationVars
    <2>1. snap' = snap /\ edits' = edits /\ phase' = phase
        BY <1>21 DEF migrationVars
    <2> QED BY <1>2, <1>4, <1>5, <2>1 DEF InspectedAs, Reported
<1> QED BY <1>7, <1>8, <1>9, <1>10, <1>11, <1>12, <1>13, <1>14, <1>16, <1>18, <1>19, <1>20, <1>21
        DEF MigrationNext
-----------------------------------------------------------------------------
(* The layers of the configuration tree: of files written one after the    *)
(* other a later one is in the place of an earlier one.                    *)

(* c has the files of the layers, those of a later one last.               *)
Layered(c, layers, n) ==
    /\ IsList(c) /\ ToSet(c) = UNION {layers[l] : l \in 1..n}
    /\ \A k \in 1..n : \E m \in 0..Len(c) :
            {c[i] : i \in (m + 1)..Len(c)} = UNION {layers[l] : l \in k..n}

LEMMA LayeredNone == ASSUME NEW layers PROVE Layered(<<>>, layers, 0)
<1>1. 1..0 = {}
    OBVIOUS
<1> QED BY <1>1, EmptyList DEF Layered

LEMMA LayeredNext ==
    ASSUME NEW c, NEW layers, NEW n \in Nat, Layered(c, layers, n), NEW s, IsList(s),
           layers[n + 1] = ToSet(s)
    PROVE  Layered(c \o s, layers, n + 1)
<1>1. PICK d : d = c \o s
    OBVIOUS
<1>2. /\ IsList(d) /\ Len(d) = Len(c) + Len(s) /\ ToSet(d) = ToSet(c) \cup ToSet(s)
      /\ \A i \in 1..Len(c) : d[i] = c[i]
      /\ \A i \in 1..Len(s) : d[Len(c) + i] = s[i]
      /\ Len(c) \in Nat /\ Len(s) \in Nat /\ DOMAIN s = 1..Len(s)
    BY <1>1, Concatenation, ListFacts DEF Layered
<1>3. \A k \in 1..(n + 1) : UNION {layers[l] : l \in k..(n + 1)}
                            = (UNION {layers[l] : l \in k..n}) \cup ToSet(s)
    <2> SUFFICES ASSUME NEW k \in 1..(n + 1)
                 PROVE  UNION {layers[l] : l \in k..(n + 1)} = (UNION {layers[l] : l \in k..n}) \cup ToSet(s)
        OBVIOUS
    <2>1. \A l : l \in k..(n + 1) <=> l \in k..n \/ l = n + 1
        OBVIOUS
    <2> QED BY <2>1
<1>4. \A m \in 0..Len(c) : {d[i] : i \in (m + 1)..Len(d)} = {c[i] : i \in (m + 1)..Len(c)} \cup ToSet(s)
    <2> SUFFICES ASSUME NEW m \in 0..Len(c)
                 PROVE  {d[i] : i \in (m + 1)..Len(d)} = {c[i] : i \in (m + 1)..Len(c)} \cup ToSet(s)
        OBVIOUS
    <2>1. ASSUME NEW i \in (m + 1)..Len(d)
          PROVE  d[i] \in {c[j] : j \in (m + 1)..Len(c)} \cup ToSet(s)
        <3>1. CASE i <= Len(c)
            <4>1. i \in (m + 1)..Len(c) /\ i \in 1..Len(c)
                BY <1>2, <3>1
            <4> QED BY <1>2, <4>1
        <3>2. CASE i > Len(c)
            <4>1. i - Len(c) \in 1..Len(s) /\ i = Len(c) + (i - Len(c))
                BY <1>2, <3>2
            <4> QED BY <1>2, <4>1 DEF ToSet
        <3> QED BY <1>2, <3>1, <3>2
    <2>2. ASSUME NEW i \in (m + 1)..Len(c)
          PROVE  c[i] \in {d[j] : j \in (m + 1)..Len(d)}
        <3>1. i \in 1..Len(c) /\ i \in (m + 1)..Len(d)
            BY <1>2
        <3> QED BY <1>2, <3>1
    <2>3. ASSUME NEW i \in 1..Len(s)
          PROVE  s[i] \in {d[j] : j \in (m + 1)..Len(d)}
        <3>1. Len(c) + i \in (m + 1)..Len(d)
            BY <1>2
        <3> QED BY <1>2, <3>1
    <2>4. {d[i] : i \in (m + 1)..Len(d)} \subseteq {c[i] : i \in (m + 1)..Len(c)} \cup ToSet(s)
        BY <2>1
    <2>5. \A x \in ToSet(s) : \E i \in 1..Len(s) : x = s[i]
        BY <1>2 DEF ToSet
    <2>6. ToSet(s) \subseteq {d[j] : j \in (m + 1)..Len(d)}
        BY <2>3, <2>5
    <2>7. {c[i] : i \in (m + 1)..Len(c)} \subseteq {d[j] : j \in (m + 1)..Len(d)}
        BY <2>2
    <2> QED BY <2>4, <2>6, <2>7
<1>5. ASSUME NEW k \in 1..(n + 1)
      PROVE  \E m \in 0..Len(d) : {d[i] : i \in (m + 1)..Len(d)} = UNION {layers[l] : l \in k..(n + 1)}
    <2>1. CASE k \in 1..n
        <3>1. PICK m \in 0..Len(c) : {c[i] : i \in (m + 1)..Len(c)} = UNION {layers[l] : l \in k..n}
            BY <2>1 DEF Layered
        <3>2. {d[i] : i \in (m + 1)..Len(d)} = UNION {layers[l] : l \in k..(n + 1)}
            BY <1>3, <1>4, <3>1
        <3>3. m \in 0..Len(d)
            BY <1>2
        <3> QED BY <3>2, <3>3
    <2>2. CASE k = n + 1
        <3>1. Len(c) \in 0..Len(c) /\ Len(c) \in 0..Len(d)
            BY <1>2
        <3>2. (Len(c) + 1)..Len(c) = {} /\ k..n = {}
            BY <1>2, <2>2
        <3>3. {d[i] : i \in (Len(c) + 1)..Len(d)} = ToSet(s)
            BY <1>4, <3>1, <3>2
        <3>4. UNION {layers[l] : l \in k..(n + 1)} = ToSet(s)
            <4>1. UNION {layers[l] : l \in k..n} = {}
                BY <3>2
            <4>2. UNION {layers[l] : l \in k..(n + 1)} = (UNION {layers[l] : l \in k..n}) \cup ToSet(s)
                BY <1>3
            <4> QED BY <4>1, <4>2
        <3>5. {d[i] : i \in (Len(c) + 1)..Len(d)} = UNION {layers[l] : l \in k..(n + 1)}
            BY <3>3, <3>4
        <3>6. PICK m : m = Len(c)
            OBVIOUS
        <3>7. m \in 0..Len(d) /\ {d[i] : i \in (m + 1)..Len(d)} = UNION {layers[l] : l \in k..(n + 1)}
            BY <3>1, <3>5, <3>6
        <3> QED BY <3>7
    <2>3. k \in 1..n \/ k = n + 1
        OBVIOUS
    <2> QED BY ONLY <2>1, <2>2, <2>3
<1>6. ToSet(d) = UNION {layers[l] : l \in 1..(n + 1)}
    <2>1. 1 \in 1..(n + 1)
        OBVIOUS
    <2> QED BY <1>2, <1>3, <2>1 DEF Layered
<1>7. Layered(d, layers, n + 1)
    BY <1>2, <1>5, <1>6 DEF Layered
<1> QED BY <1>1, <1>7

(* The file at a path of a layer is of that layer or of one over it.       *)
LEMMA LayeredWritten ==
    ASSUME NEW c, NEW layers, NEW n \in Nat, Layered(c, layers, n), NEW k \in 1..n,
           NEW l \in k..n, NEW f \in layers[l]
    PROVE  /\ f.path \in DOMAIN Written(c)
           /\ \E j \in k..n : \E g \in layers[j] : g.path = f.path /\ Written(c)[f.path] = g.text
<1>1. IsList(c) /\ Len(c) \in Nat /\ DOMAIN c = 1..Len(c)
    BY ListFacts DEF Layered
<1>2. PICK m \in 0..Len(c) : {c[i] : i \in (m + 1)..Len(c)} = UNION {layers[j] : j \in k..n}
    BY DEF Layered
<1>3. PICK a \in (m + 1)..Len(c) : c[a] = f
    BY <1>2
<1>4. a \in DOMAIN c
    BY <1>1, <1>3
<1>5. f.path \in {c[i].path : i \in DOMAIN c}
    BY <1>3, <1>4
<1> DEFINE At == {i \in DOMAIN c : c[i].path = f.path}
<1>6. At \in SUBSET (0..Len(c)) /\ At # {}
    BY <1>1, <1>3, <1>4
<1>7. PICK b \in At : \A i \in At : i <= b
    <2> HIDE DEF At
    <2> QED BY <1>1, <1>6, GreatestNumber
<1>8. \E i \in DOMAIN c : c[i].path = f.path /\ \A j \in DOMAIN c : c[j].path = f.path => j <= i
    BY <1>7
<1>9. PICK z : z = LastOf(c, f.path)
    OBVIOUS
<1>10. z \in DOMAIN c /\ c[z].path = f.path /\ \A j \in DOMAIN c : c[j].path = f.path => j <= z
    BY <1>8, <1>9 DEF LastOf
<1>11. a <= z
    BY <1>3, <1>4, <1>10
<1>12. z \in (m + 1)..Len(c)
    BY <1>1, <1>10, <1>11
<1>13. Written(c)[f.path] = c[z].text /\ f.path \in DOMAIN Written(c)
    BY <1>5, <1>9 DEF Written
<1>14. PICK j \in k..n : c[z] \in layers[j]
    BY <1>2, <1>12
<1> QED BY <1>10, <1>13, <1>14

(* Lists one after the other are layers.                                   *)
LEMMA FlattenLayered ==
    ASSUME NEW seqs, IsList(seqs), \A i \in DOMAIN seqs : IsList(seqs[i]), Len(seqs) # 0,
           NEW sets, \A i \in DOMAIN seqs : sets[i] = ToSet(seqs[i])
    PROVE  Layered(FlattenSeq(seqs), sets, Len(seqs))
<1>1. PICK N : N = Len(seqs) /\ N \in Nat /\ DOMAIN seqs = 1..N /\ N # 0
    BY ListFacts
<1>2. PICK F : /\ FlattenSeq(seqs) = F[N] /\ F[1] = seqs[1]
               /\ \A i \in 1..N : i # 1 => F[i] = F[i - 1] \o seqs[i]
    BY <1>1, FlattenSteps
<1> DEFINE Q == {n \in Nat : n + 1 <= N => Layered(F[n + 1], sets, n + 1)}
<1>3. 0 \in Q
    <2>1. 1 \in DOMAIN seqs
        BY <1>1
    <2>2. IsList(seqs[1]) /\ sets[0 + 1] = ToSet(seqs[1])
        BY <2>1
    <2>3. Layered(<<>> \o seqs[1], sets, 0 + 1)
        BY <2>2, LayeredNone, LayeredNext
    <2>4. <<>> \o seqs[1] = seqs[1]
        BY <2>2, ConcatEmpty
    <2> QED BY <1>2, <2>3, <2>4
<1>4. ASSUME NEW n \in Nat, n \in Q PROVE n + 1 \in Q
    <2>1. SUFFICES ASSUME (n + 1) + 1 <= N PROVE Layered(F[(n + 1) + 1], sets, (n + 1) + 1)
        OBVIOUS
    <2>2. n + 1 <= N /\ (n + 1) + 1 \in 1..N /\ (n + 1) + 1 # 1 /\ ((n + 1) + 1) - 1 = n + 1
        BY <1>1, <2>1
    <2>3. F[(n + 1) + 1] = F[n + 1] \o seqs[(n + 1) + 1]
        BY <1>2, <2>2
    <2>4. Layered(F[n + 1], sets, n + 1)
        BY <1>4, <2>2
    <2>5. IsList(seqs[(n + 1) + 1]) /\ sets[(n + 1) + 1] = ToSet(seqs[(n + 1) + 1])
        BY <1>1, <2>2
    <2> QED BY <2>3, <2>4, <2>5, LayeredNext
<1>5. \A n \in Nat : n \in Q
    <2> HIDE DEF Q
    <2> QED BY <1>3, <1>4, NatSetInduction
<1>6. N - 1 \in Nat /\ (N - 1) + 1 = N
    BY <1>1
<1> QED BY <1>1, <1>2, <1>5, <1>6

(* The last file of a path is what is written.                             *)
LEMMA WrittenLast ==
    ASSUME NEW files, IsList(files), NEW i \in DOMAIN files, NEW p, files[i].path = p,
           \A j \in DOMAIN files : files[j].path = p => j <= i
    PROVE  p \in DOMAIN Written(files) /\ Written(files)[p] = files[i].text
<1>1. PICK z : z = LastOf(files, p)
    OBVIOUS
<1>2. z \in DOMAIN files /\ files[z].path = p /\ \A j \in DOMAIN files : files[j].path = p => j <= z
    BY <1>1 DEF LastOf
<1>3. z \in Nat /\ i \in Nat
    BY <1>2, ListFacts
<1>4. z = i
    BY <1>2, <1>3
<1>5. p \in {files[j].path : j \in DOMAIN files}
    OBVIOUS
<1> QED BY <1>1, <1>4, <1>5 DEF Written

LEMMA LastIsThere ==
    ASSUME NEW files, IsList(files), NEW p \in DOMAIN Written(files)
    PROVE  \E i \in DOMAIN files :
                files[i].path = p /\ \A j \in DOMAIN files : files[j].path = p => j <= i
<1> DEFINE At == {i \in DOMAIN files : files[i].path = p}
<1>1. p \in {files[j].path : j \in DOMAIN files}
    BY DEF Written
<1>2. Len(files) \in Nat /\ At \in SUBSET (0..Len(files)) /\ At # {}
    BY <1>1, ListFacts
<1>3. PICK i \in At : \A j \in At : j <= i
    <2> HIDE DEF At
    <2> QED BY <1>2, GreatestNumber
<1> QED BY <1>3

(* The elements of a list after another.                                   *)
ConcatParts(a, b, c) ==
    /\ IsList(c) /\ DOMAIN a = 1..Len(a) /\ DOMAIN b = 1..Len(b) /\ DOMAIN c = 1..(Len(a) + Len(b))
    /\ Len(a) \in Nat /\ Len(b) \in Nat
    /\ \A i \in 1..Len(a) : c[i] = a[i]
    /\ \A i \in 1..Len(b) : c[Len(a) + i] = b[i]
    /\ \A j \in DOMAIN c : \/ j \in 1..Len(a) /\ c[j] = a[j]
                           \/ j - Len(a) \in 1..Len(b) /\ c[j] = b[j - Len(a)]

LEMMA ConcatHasParts ==
    ASSUME NEW a, NEW b, IsList(a), IsList(b), NEW c, c = a \o b
    PROVE  ConcatParts(a, b, c)
<1>1. /\ IsList(c) /\ Len(c) = Len(a) + Len(b)
      /\ \A i \in 1..Len(a) : c[i] = a[i]
      /\ \A i \in 1..Len(b) : c[Len(a) + i] = b[i]
    BY Concatenation
<1>2. /\ DOMAIN a = 1..Len(a) /\ DOMAIN b = 1..Len(b) /\ DOMAIN c = 1..(Len(a) + Len(b))
      /\ Len(a) \in Nat /\ Len(b) \in Nat
    BY <1>1, ListFacts
<1>3. ASSUME NEW j \in DOMAIN c PROVE \/ j \in 1..Len(a) /\ c[j] = a[j]
                                      \/ j - Len(a) \in 1..Len(b) /\ c[j] = b[j - Len(a)]
    <2>1. CASE j <= Len(a)
        <3>1. j \in 1..Len(a)
            BY <1>2, <2>1
        <3> QED BY <1>1, <3>1
    <2>2. CASE j > Len(a)
        <3>1. j - Len(a) \in 1..Len(b) /\ Len(a) + (j - Len(a)) = j
            BY <1>2, <2>2
        <3> QED BY <1>1, <3>1
    <2> QED BY <1>2, <2>1, <2>2
<1> QED BY <1>1, <1>2, <1>3 DEF ConcatParts

(* What is written later stays, and what nothing later is written over.    *)
LEMMA WrittenAfter ==
    ASSUME NEW a, NEW b, IsList(a), IsList(b), NEW p, p \in DOMAIN Written(b)
    PROVE  p \in DOMAIN Written(a \o b) /\ Written(a \o b)[p] = Written(b)[p]
<1>8. PICK c : c = a \o b
    OBVIOUS
<1>9. ConcatParts(a, b, c)
    BY <1>8, ConcatHasParts
<1>1. PICK i \in DOMAIN b : b[i].path = p /\ \A j \in DOMAIN b : b[j].path = p => j <= i
    BY LastIsThere
<1>2. Written(b)[p] = b[i].text
    BY <1>1, WrittenLast
<1>3. PICK k : k = Len(a) + i
    OBVIOUS
<1>4. k \in DOMAIN c /\ c[k] = b[i]
    BY <1>9, <1>3 DEF ConcatParts
<1>5. ASSUME NEW j \in DOMAIN c, c[j].path = p PROVE j <= k
    <2>1. CASE j \in 1..Len(a)
        BY <1>9, <1>3, <2>1 DEF ConcatParts
    <2>2. CASE j - Len(a) \in 1..Len(b) /\ c[j] = b[j - Len(a)]
        <3>1. j - Len(a) <= i
            BY <1>9, <1>1, <1>5, <2>2 DEF ConcatParts
        <3> QED BY <1>9, <1>3, <3>1 DEF ConcatParts
    <2> QED BY <1>9, <2>1, <2>2 DEF ConcatParts
<1>6. IsList(c) /\ c[k].path = p /\ c[k].text = Written(b)[p]
    BY <1>9, <1>1, <1>2, <1>4 DEF ConcatParts
<1>7. p \in DOMAIN Written(c) /\ Written(c)[p] = c[k].text
    BY <1>4, <1>5, <1>6, WrittenLast, Zenon
<1> QED BY <1>6, <1>7, <1>8

LEMMA WrittenStays ==
    ASSUME NEW a, NEW b, IsList(a), IsList(b), NEW p, p \in DOMAIN Written(a),
           \A f \in ToSet(b) : f.path # p
    PROVE  p \in DOMAIN Written(a \o b) /\ Written(a \o b)[p] = Written(a)[p]
<1>8. PICK c : c = a \o b
    OBVIOUS
<1>9. ConcatParts(a, b, c)
    BY <1>8, ConcatHasParts
<1>1. PICK i \in DOMAIN a : a[i].path = p /\ \A j \in DOMAIN a : a[j].path = p => j <= i
    BY LastIsThere
<1>2. Written(a)[p] = a[i].text
    BY <1>1, WrittenLast
<1>4. i \in DOMAIN c /\ c[i] = a[i]
    BY <1>9 DEF ConcatParts
<1>5. ASSUME NEW j \in DOMAIN c, c[j].path = p PROVE j <= i
    <2>1. CASE j \in 1..Len(a) /\ c[j] = a[j]
        BY <1>9, <1>1, <1>5, <2>1 DEF ConcatParts
    <2>2. CASE j - Len(a) \in 1..Len(b) /\ c[j] = b[j - Len(a)]
        BY <1>9, <1>5, <2>2 DEF ConcatParts, ToSet
    <2> QED BY <1>9, <2>1, <2>2 DEF ConcatParts
<1>6. IsList(c) /\ c[i].path = p /\ c[i].text = Written(a)[p]
    BY <1>9, <1>1, <1>2, <1>4 DEF ConcatParts
<1>7. p \in DOMAIN Written(c) /\ Written(c)[p] = c[i].text
    BY <1>4, <1>5, <1>6, WrittenLast, Zenon
<1> QED BY <1>6, <1>7, <1>8

(* The files made of a section, of pairs of timers, and of projects.       *)
FilesOf(items) == {File(x.path, x.text) : x \in {x \in ToSet(items) : x.include}}

PairsOf(timers) ==
    {File(UnitPath(Append(t.name, "timer")), t.timer_content) :
        t \in {t \in timers : t.timer_content # NoText}}
    \cup {File(UnitPath(Append(t.name, "service")), t.service_content) :
            t \in {t \in timers : t.service_content # NoText}}

ProjectOf(x) ==
    {File(InDir(x.path, <<x.files[j].name>>), x.files[j].text) : j \in DOMAIN x.files}
    \cup {File(y.path, y.content) : y \in {y \in {x} : y.files = <<>> /\ y.content # NoText}}

ConfigKept(s) ==
    {x \in ToSet(s.config) : /\ x.include /\ x.path \notin DhcpConnectionPaths(s)
                             /\ ~(x.path.top = "etc" /\ x.path.dir = QuadletDir)}

BeforeProfiles(s) ==
    ConfigFiles(s) \o Files(s.repo_files) \o Files(s.gpg_keys) \o Files(s.firewall_zones) \o DirectXml(s)

Layers(s) ==
    [k \in 1..17 |->
        CASE k = 1  -> {File(x.path, x.text) : x \in ConfigKept(s)}
          [] k = 2  -> FilesOf(s.repo_files)
          [] k = 3  -> FilesOf(s.gpg_keys)
          [] k = 4  -> FilesOf(s.firewall_zones)
          [] k = 5  -> ToSet(DirectXml(s))
          [] k = 6  -> {File(p, NoText) : p \in MissingProfiles(s, BeforeProfiles(s))}
          [] k = 7  -> FilesOf(s.tuned_profiles)
          [] k = 8  -> FilesOf(s.drop_ins)
          [] k = 9  -> PairsOf(ToSet(Kept(s.generated_timer_units)))
          [] k = 10 -> PairsOf(ToSet(s.systemd_timers))
          [] k = 11 -> FilesOf(s.env_files)
          [] k = 12 -> UNION {ProjectOf(x) : x \in ToSet(Kept(s.items))}
          [] k = 13 -> ToSet(SysusersFiles(s))
          [] k = 14 -> FilesOf(s.snippets)
          [] k = 15 -> ToSet(SysctlConf(s))
          [] k = 16 -> ToSet(Kargs(s))
          [] OTHER  -> ToSet(VarTmpfiles(s))]

LEMMA FilesAre ==
    ASSUME NEW items, IsList(items)
    PROVE  IsList(Files(items)) /\ ToSet(Files(items)) = FilesOf(items)
<1> DEFINE kept == Kept(items)
           t == Files(items)
<1>1. IsList(kept) /\ ToSet(kept) = {x \in ToSet(items) : x.include}
    BY KeptFacts
<1>2. t = [i \in DOMAIN kept |-> File(kept[i].path, kept[i].text)]
    BY DEF Files
<1> HIDE DEF t, kept
<1>3. t = [i \in DOMAIN kept |-> t[i]]
    BY <1>2
<1>4. IsList(t) /\ DOMAIN t = DOMAIN kept
    BY <1>1, <1>3, MapFacts
<1>5. ToSet(t) = {File(x.path, x.text) : x \in ToSet(kept)}
    BY <1>2, <1>4 DEF ToSet
<1> QED BY <1>1, <1>4, <1>5 DEF t, FilesOf

LEMMA ConfigFilesAre ==
    ASSUME NEW s, IsList(s.config)
    PROVE  /\ IsList(ConfigFiles(s))
           /\ ToSet(ConfigFiles(s)) = {File(x.path, x.text) : x \in ConfigKept(s)}
<1> DEFINE places == {n \in DOMAIN s.config : /\ s.config[n].path \notin DhcpConnectionPaths(s)
                                              /\ ~(s.config[n].path.top = "etc" /\ s.config[n].path.dir = QuadletDir)}
           list == Picked(s.config, places)
<1>1. ConfigFiles(s) = Files(list)
    BY DEF ConfigFiles, Select
<1>2. IsList(list) /\ ToSet(list) = {s.config[n] : n \in places}
    BY PickedFacts
<1>3. {x \in {s.config[n] : n \in places} : x.include} = ConfigKept(s)
    BY DEF ConfigKept, ToSet
<1> HIDE DEF list, places
<1>4. IsList(Files(list)) /\ ToSet(Files(list)) = FilesOf(list)
    BY <1>2, FilesAre
<1>5. FilesOf(list) = {File(x.path, x.text) : x \in ConfigKept(s)}
    BY <1>2, <1>3 DEF FilesOf
<1> QED BY <1>1, <1>4, <1>5

LEMMA TimerLists ==
    ASSUME NEW timers, IsList(timers)
    PROVE  \E lists : /\ IsList(lists) /\ DOMAIN lists = DOMAIN timers
                      /\ TimerFiles(timers) = FlattenSeq(lists)
                      /\ \A i \in DOMAIN timers : IsList(lists[i]) /\ ToSet(lists[i]) = PairsOf({timers[i]})
<1> DEFINE file(t, suffix, text) == IF text = NoText THEN <<>>
                                    ELSE <<File(UnitPath(Append(t.name, suffix)), text)>>
           pair(t) == file(t, "timer", t.timer_content) \o file(t, "service", t.service_content)
           lists == [i \in DOMAIN timers |-> pair(timers[i])]
<1>1. ASSUME NEW t, NEW suffix, NEW text
      PROVE  /\ IsList(file(t, suffix, text))
             /\ text = NoText => ToSet(file(t, suffix, text)) = {}
             /\ text # NoText => ToSet(file(t, suffix, text)) = {File(UnitPath(Append(t.name, suffix)), text)}
    <2>1. PICK one : one = File(UnitPath(Append(t.name, suffix)), text)
        OBVIOUS
    <2>2. file(t, suffix, text) = IF text = NoText THEN <<>> ELSE <<one>>
        BY <2>1
    <2> HIDE DEF file
    <2> QED BY <2>1, <2>2, EmptyList, OneElement
<1>2. ASSUME NEW t PROVE IsList(pair(t)) /\ ToSet(pair(t)) = PairsOf({t})
    <2> HIDE DEF file
    <2>1. IsList(pair(t)) /\ ToSet(pair(t)) = ToSet(file(t, "timer", t.timer_content))
                                              \cup ToSet(file(t, "service", t.service_content))
        BY <1>1, Concatenation
    <2>2. ToSet(file(t, "timer", t.timer_content))
            = {File(UnitPath(Append(u.name, "timer")), u.timer_content) : u \in {u \in {t} : u.timer_content # NoText}}
        BY <1>1
    <2>3. ToSet(file(t, "service", t.service_content))
            = {File(UnitPath(Append(u.name, "service")), u.service_content) : u \in {u \in {t} : u.service_content # NoText}}
        BY <1>1
    <2> QED BY <2>1, <2>2, <2>3 DEF PairsOf
<1>3. lists = [i \in DOMAIN timers |-> lists[i]] /\ \A i \in DOMAIN timers : lists[i] = pair(timers[i])
    OBVIOUS
<1>4. TimerFiles(timers) = FlattenSeq(lists)
    BY DEF TimerFiles
<1> HIDE DEF lists, pair
<1>5. IsList(lists) /\ DOMAIN lists = DOMAIN timers
    BY <1>3, MapFacts
<1> QED BY <1>2, <1>3, <1>4, <1>5

LEMMA TimerFilesAre ==
    ASSUME NEW timers, IsList(timers)
    PROVE  IsList(TimerFiles(timers)) /\ ToSet(TimerFiles(timers)) = PairsOf(ToSet(timers))
<1>1. PICK lists : /\ IsList(lists) /\ DOMAIN lists = DOMAIN timers
                   /\ TimerFiles(timers) = FlattenSeq(lists)
                   /\ \A i \in DOMAIN timers : IsList(lists[i]) /\ ToSet(lists[i]) = PairsOf({timers[i]})
    BY TimerLists
<1>6. /\ IsList(FlattenSeq(lists))
      /\ ToSet(FlattenSeq(lists)) = UNION {ToSet(lists[i]) : i \in DOMAIN lists}
    BY <1>1, FlattenFacts
<1>7. UNION {ToSet(lists[i]) : i \in DOMAIN lists} = UNION {PairsOf({timers[i]}) : i \in DOMAIN timers}
    BY <1>1, ZenonT(40)
<1>8. UNION {PairsOf({timers[i]}) : i \in DOMAIN timers} = PairsOf(ToSet(timers))
    BY DEF PairsOf, ToSet
<1> QED BY <1>1, <1>6, <1>7, <1>8

LEMMA SoftwareFilesAre ==
    ASSUME NEW s, Projects(s.items)
    PROVE  /\ IsList(SoftwareFiles(s))
           /\ ToSet(SoftwareFiles(s)) = UNION {ProjectOf(x) : x \in ToSet(Kept(s.items))}
<1> DEFINE kept == Kept(s.items)
           files(x) == [j \in DOMAIN x.files |->
                            File(InDir(x.path, <<x.files[j].name>>), x.files[j].text)]
           part(x) == IF x.files # <<>> THEN files(x)
                      ELSE IF x.content # NoText THEN <<File(x.path, x.content)>> ELSE <<>>
           lists == [i \in DOMAIN kept |-> part(kept[i])]
<1>1. IsList(kept) /\ \A x \in ToSet(kept) : x \in ToSet(s.items) /\ x.include /\ IsList(x.files)
    BY KeptFacts DEF Projects, Records
<1>2. ASSUME NEW x, IsList(x.files)
      PROVE  IsList(files(x)) /\ ToSet(files(x)) = {File(InDir(x.path, <<x.files[j].name>>), x.files[j].text) : j \in DOMAIN x.files}
    <2> DEFINE l == files(x)
    <2>1. l = [j \in DOMAIN x.files |-> l[j]]
          /\ \A j \in DOMAIN x.files : l[j] = File(InDir(x.path, <<x.files[j].name>>), x.files[j].text)
        OBVIOUS
    <2> HIDE DEF l
    <2>2. IsList(l) /\ DOMAIN l = DOMAIN x.files
        BY <1>2, <2>1, MapFacts
    <2>3. ToSet(l) = {l[j] : j \in DOMAIN x.files}
        BY <2>2 DEF ToSet
    <2>4. {l[j] : j \in DOMAIN x.files} = {File(InDir(x.path, <<x.files[j].name>>), x.files[j].text) : j \in DOMAIN x.files}
        BY <2>1
    <2> QED BY <2>2, <2>3, <2>4 DEF l
<1>3. ASSUME NEW x, IsList(x.files) PROVE IsList(part(x)) /\ ToSet(part(x)) = ProjectOf(x)
    <2>1. PICK one : one = File(x.path, x.content)
        OBVIOUS
    <2>2. PICK own : own = {File(InDir(x.path, <<x.files[j].name>>), x.files[j].text) : j \in DOMAIN x.files}
        OBVIOUS
    <2>3. IsList(files(x)) /\ ToSet(files(x)) = own
        BY <1>2, <1>3, <2>2
    <2>4. x.files = <<>> => own = {}
        <3>1. x.files = <<>> => DOMAIN x.files = {}
            BY EmptyList, ListFacts
        <3> QED BY <2>2, <3>1
    <2>5. {File(y.path, y.content) : y \in {y \in {x} : y.files = <<>> /\ y.content # NoText}}
            = {y \in {one} : x.files = <<>> /\ x.content # NoText}
        BY <2>1
    <2> HIDE DEF files
    <2>6. part(x) = IF x.files # <<>> THEN files(x)
                    ELSE IF x.content # NoText THEN <<one>> ELSE <<>>
        BY <2>1
    <2>7. ProjectOf(x) = own \cup {y \in {one} : x.files = <<>> /\ x.content # NoText}
        BY <2>2, <2>5 DEF ProjectOf
    <2> HIDE DEF part
    <2>8. IsList(<<one>>) /\ ToSet(<<one>>) = {one}
        BY OneElement
    <2>9. CASE x.files # <<>>
        BY <2>3, <2>6, <2>7, <2>9
    <2>10. CASE x.files = <<>> /\ x.content # NoText
        BY <2>4, <2>6, <2>7, <2>8, <2>10
    <2>11. CASE x.files = <<>> /\ x.content = NoText
        BY <2>4, <2>6, <2>7, <2>11, EmptyList
    <2> QED BY <2>9, <2>10, <2>11
<1>4. lists = [i \in DOMAIN kept |-> lists[i]] /\ \A i \in DOMAIN kept : lists[i] = part(kept[i])
    OBVIOUS
<1>5. SoftwareFiles(s) = FlattenSeq(lists)
    BY DEF SoftwareFiles
<1> HIDE DEF lists, part, kept
<1>6. IsList(lists) /\ DOMAIN lists = DOMAIN kept
    BY <1>1, <1>4, MapFacts
<1>7. \A i \in DOMAIN kept : kept[i] \in ToSet(kept)
    BY DEF ToSet
<1>8. /\ IsList(FlattenSeq(lists))
      /\ ToSet(FlattenSeq(lists)) = UNION {ToSet(lists[i]) : i \in DOMAIN lists}
    BY <1>1, <1>3, <1>4, <1>6, <1>7, FlattenFacts
<1>9. UNION {ToSet(lists[i]) : i \in DOMAIN lists} = UNION {ProjectOf(kept[i]) : i \in DOMAIN kept}
    BY <1>1, <1>3, <1>4, <1>6, <1>7
<1>10. UNION {ProjectOf(kept[i]) : i \in DOMAIN kept} = UNION {ProjectOf(x) : x \in ToSet(kept)}
    BY DEF ToSet
<1> QED BY <1>5, <1>8, <1>9, <1>10 DEF kept

LEMMA ProfilesAre ==
    ASSUME NEW s, IsSnapshot(s), NEW before
    PROVE  LET profiles == SetToSeq(MissingProfiles(s, before))
               t == [i \in DOMAIN profiles |-> File(profiles[i], NoText)]
           IN  IsList(t) /\ ToSet(t) = {File(p, NoText) : p \in MissingProfiles(s, before)}
<1> DEFINE c == s.connections
           paths == [i \in DOMAIN c |-> c[i].path]
           profiles == SetToSeq(MissingProfiles(s, before))
           t == [i \in DOMAIN profiles |-> File(profiles[i], NoText)]
<1>1. IsList(c)
    BY DEF IsSnapshot, Lists, Records
<1>2. IsFiniteSet({paths[i] : i \in DOMAIN c})
    <2>1. IsFiniteSet(DOMAIN c)
        BY <1>1, ListFacts
    <2> DEFINE f == [i \in DOMAIN c |-> paths[i]]
               P == {paths[i] : i \in DOMAIN c}
    <2>2. f \in Surjection(DOMAIN c, P)
        BY DEF Surjection
    <2> HIDE DEF paths, f, P
    <2> QED BY <2>1, <2>2, FS_Surjection DEF P
<1>3. MissingProfiles(s, before) \in SUBSET {paths[i] : i \in DOMAIN c}
    BY DEF MissingProfiles, StaticPaths, ToSet
<1>4. IsFiniteSet(MissingProfiles(s, before))
    BY <1>2, <1>3, FS_Subset
<1>5. IsList(profiles) /\ ToSet(profiles) = MissingProfiles(s, before)
    BY <1>4, SetToSeqFacts
<1>6. t = [i \in DOMAIN profiles |-> t[i]] /\ \A i \in DOMAIN profiles : t[i] = File(profiles[i], NoText)
    OBVIOUS
<1> HIDE DEF t, profiles
<1>7. IsList(t) /\ DOMAIN t = DOMAIN profiles
    BY <1>5, <1>6, MapFacts
<1>8. ToSet(t) = {File(p, NoText) : p \in ToSet(profiles)}
    BY <1>6, <1>7 DEF ToSet
<1> QED BY <1>5, <1>7, <1>8 DEF t, profiles

LEMMA ToolFilesAreLists ==
    ASSUME NEW s
    PROVE  /\ IsList(DirectXml(s)) /\ IsList(SysusersFiles(s)) /\ IsList(SysctlConf(s))
           /\ IsList(Kargs(s)) /\ IsList(VarTmpfiles(s))
           /\ \A f \in ToSet(DirectXml(s)) : f.path = Path("etc", "firewalld", <<"direct", "xml">>)
           /\ \A f \in ToSet(SysusersFiles(s)) : f.path \in {SysusersConf, Tmpfiles("yoinkc-sysusers-homes")}
           /\ \A f \in ToSet(SysctlConf(s)) : f.path = SysctlPath
           /\ \A f \in ToSet(Kargs(s)) : f.path = KargsToml
           /\ \A f \in ToSet(VarTmpfiles(s)) : f.path = Tmpfiles("yoinkc-var")
<1>1. ASSUME NEW path, NEW text
      PROVE  IsList(<<File(path, text)>>) /\ \A f \in ToSet(<<File(path, text)>>) : f.path = path
    <2>1. PICK one : one = File(path, text)
        OBVIOUS
    <2>2. one.path = path
        BY <2>1 DEF File
    <2> QED BY <2>1, <2>2, OneElement
<1>2. IsList(DirectXml(s)) /\ \A f \in ToSet(DirectXml(s)) : f.path = Path("etc", "firewalld", <<"direct", "xml">>)
    <2>1. PICK path : path = Path("etc", "firewalld", <<"direct", "xml">>)
        OBVIOUS
    <2>2. DirectXml(s) = <<>> \/ \E text : DirectXml(s) = <<File(path, text)>>
        BY <2>1 DEF DirectXml
    <2> QED BY <1>1, <2>1, <2>2, EmptyList
<1>3. IsList(VarTmpfiles(s)) /\ \A f \in ToSet(VarTmpfiles(s)) : f.path = Tmpfiles("yoinkc-var")
    <2>1. PICK path : path = Tmpfiles("yoinkc-var")
        OBVIOUS
    <2>2. \E text : VarTmpfiles(s) = <<File(path, text)>>
        BY <2>1 DEF VarTmpfiles
    <2> QED BY <1>1, <2>1, <2>2
<1>4. \A path, word, lines : IsList(Generated(path, word, lines))
            /\ \A f \in ToSet(Generated(path, word, lines)) : f.path = path
    BY GeneratedFacts
<1>5. /\ IsList(SysctlConf(s)) /\ IsList(Kargs(s))
      /\ \A f \in ToSet(SysctlConf(s)) : f.path = SysctlPath
      /\ \A f \in ToSet(Kargs(s)) : f.path = KargsToml
    BY <1>4 DEF SysctlConf, Kargs
<1>6. /\ IsList(SysusersFiles(s))
      /\ \A f \in ToSet(SysusersFiles(s)) : f.path \in {SysusersConf, Tmpfiles("yoinkc-sysusers-homes")}
    <2>1. PICK a, b, x, y, z, w : /\ SysusersFiles(s) = Generated(a, x, y) \o Generated(b, z, w)
                                  /\ a = SysusersConf /\ b = Tmpfiles("yoinkc-sysusers-homes")
        BY DEF SysusersFiles
    <2>2. ToSet(SysusersFiles(s)) = ToSet(Generated(a, x, y)) \cup ToSet(Generated(b, z, w))
          /\ IsList(SysusersFiles(s))
        BY <1>4, <2>1, Concatenation
    <2> QED BY <1>4, <2>1, <2>2
<1> QED BY <1>2, <1>3, <1>5, <1>6

LEMMA TreeLayered ==
    ASSUME NEW s, IsSnapshot(s), Projects(s.items)
    PROVE  \E c : Layered(c, Layers(s), 17) /\ WriteConfigTree(s) = Written(c)
<1> DEFINE L == Layers(s)
           c1 == ConfigFiles(s)
           c2 == c1 \o Files(s.repo_files)
           c3 == c2 \o Files(s.gpg_keys)
           c4 == c3 \o Files(s.firewall_zones)
           c5 == c4 \o DirectXml(s)
           profiles == SetToSeq(MissingProfiles(s, c5))
           c6 == c5 \o [i \in DOMAIN profiles |-> File(profiles[i], NoText)]
           c7 == c6 \o Files(s.tuned_profiles)
           c8 == c7 \o Files(s.drop_ins)
           c9 == c8 \o TimerFiles(Kept(s.generated_timer_units))
           c10 == c9 \o TimerFiles(s.systemd_timers)
           c11 == c10 \o Files(s.env_files)
           c12 == c11 \o SoftwareFiles(s)
           c13 == c12 \o SysusersFiles(s)
           c14 == c13 \o Files(s.snippets)
           c15 == c14 \o SysctlConf(s)
           c16 == c15 \o Kargs(s)
           c17 == c16 \o VarTmpfiles(s)
<1>1. /\ IsList(s.config) /\ IsList(s.repo_files) /\ IsList(s.gpg_keys) /\ IsList(s.firewall_zones)
      /\ IsList(s.tuned_profiles) /\ IsList(s.drop_ins) /\ IsList(s.generated_timer_units)
      /\ IsList(s.systemd_timers) /\ IsList(s.env_files) /\ IsList(s.snippets)
      /\ IsList(Kept(s.generated_timer_units))
    <2>1. \A d \in Lists : IsList(s[d])
        BY DEF IsSnapshot, Records
    <2>2. IsList(s.generated_timer_units)
        BY <2>1 DEF Lists
    <2> QED BY <2>1, <2>2, KeptFacts DEF Lists
<1>2. WriteConfigTree(s) = Written(c17) /\ BeforeProfiles(s) = c5
    BY DEF WriteConfigTree, BeforeProfiles
<1>3. /\ L[1] = {File(x.path, x.text) : x \in ConfigKept(s)} /\ L[2] = FilesOf(s.repo_files)
      /\ L[3] = FilesOf(s.gpg_keys) /\ L[4] = FilesOf(s.firewall_zones) /\ L[5] = ToSet(DirectXml(s))
      /\ L[6] = {File(p, NoText) : p \in MissingProfiles(s, c5)}
      /\ L[7] = FilesOf(s.tuned_profiles) /\ L[8] = FilesOf(s.drop_ins)
      /\ L[9] = PairsOf(ToSet(Kept(s.generated_timer_units)))
      /\ L[10] = PairsOf(ToSet(s.systemd_timers)) /\ L[11] = FilesOf(s.env_files)
      /\ L[12] = UNION {ProjectOf(x) : x \in ToSet(Kept(s.items))} /\ L[13] = ToSet(SysusersFiles(s))
      /\ L[14] = FilesOf(s.snippets) /\ L[15] = ToSet(SysctlConf(s)) /\ L[16] = ToSet(Kargs(s))
      /\ L[17] = ToSet(VarTmpfiles(s))
    <2> HIDE DEF c5
    <2> QED BY <1>2 DEF Layers
<1>4. /\ IsList(DirectXml(s)) /\ IsList(SysusersFiles(s)) /\ IsList(SysctlConf(s))
      /\ IsList(Kargs(s)) /\ IsList(VarTmpfiles(s))
    BY ToolFilesAreLists
<1>5. PICK p6 : p6 = [i \in DOMAIN profiles |-> File(profiles[i], NoText)]
    OBVIOUS
<1>6. IsList(p6) /\ ToSet(p6) = {File(p, NoText) : p \in MissingProfiles(s, c5)}
    <2> HIDE DEF c5
    <2> QED BY <1>5, ProfilesAre
<1>7. c6 = c5 \o p6
    BY <1>5
<1> HIDE DEF L, c6
<1>8. Layered(c1, L, 1)
    <2>1. Layered(<<>>, L, 0)
        BY LayeredNone
    <2>2. IsList(c1) /\ L[0 + 1] = ToSet(c1)
        <3>1. ToSet(c1) = {File(x.path, x.text) : x \in ConfigKept(s)} /\ IsList(c1)
            BY <1>1, ConfigFilesAre
        <3>2. L[0 + 1] = L[1]
            OBVIOUS
        <3> HIDE DEF c1
        <3> QED BY <1>3, <3>1, <3>2
    <2>3. Layered(<<>> \o c1, L, 0 + 1)
        BY <2>1, <2>2, LayeredNext
    <2>4. <<>> \o c1 = c1
        BY <2>2, ConcatEmpty
    <2> QED BY <2>3, <2>4
<1> HIDE DEF c1
<1>9. Layered(c2, L, 1 + 1)
    BY <1>1, <1>3, <1>8, FilesAre, LayeredNext
<1> HIDE DEF c2
<1>10. Layered(c3, L, 2 + 1)
    BY <1>1, <1>3, <1>9, FilesAre, LayeredNext
<1> HIDE DEF c3
<1>11. Layered(c4, L, 3 + 1)
    BY <1>1, <1>3, <1>10, FilesAre, LayeredNext
<1> HIDE DEF c4
<1>12. Layered(c5, L, 4 + 1)
    BY <1>3, <1>4, <1>11, LayeredNext
<1> HIDE DEF c5
<1>13. Layered(c6, L, 5 + 1)
    <2>1. L[5 + 1] = ToSet(p6)
        BY <1>3, <1>6
    <2>2. Layered(c5 \o p6, L, 5 + 1)
        BY <1>6, <1>12, <2>1, LayeredNext
    <2> QED BY <1>7, <2>2
<1>14. Layered(c7, L, 6 + 1)
    BY <1>1, <1>3, <1>13, FilesAre, LayeredNext
<1> HIDE DEF c7
<1>15. Layered(c8, L, 7 + 1)
    BY <1>1, <1>3, <1>14, FilesAre, LayeredNext
<1> HIDE DEF c8
<1>16. Layered(c9, L, 8 + 1)
    BY <1>1, <1>3, <1>15, TimerFilesAre, LayeredNext
<1> HIDE DEF c9
<1>17. Layered(c10, L, 9 + 1)
    BY <1>1, <1>3, <1>16, TimerFilesAre, LayeredNext
<1> HIDE DEF c10
<1>18. Layered(c11, L, 10 + 1)
    BY <1>1, <1>3, <1>17, FilesAre, LayeredNext
<1> HIDE DEF c11
<1>19. Layered(c12, L, 11 + 1)
    <2>1. IsList(SoftwareFiles(s)) /\ ToSet(SoftwareFiles(s)) = L[12]
        BY <1>3, SoftwareFilesAre
    <2>2. L[11 + 1] = ToSet(SoftwareFiles(s))
        BY <2>1
    <2> QED BY <1>18, <2>1, <2>2, LayeredNext
<1> HIDE DEF c12
<1>20. Layered(c13, L, 12 + 1)
    BY <1>3, <1>4, <1>19, LayeredNext
<1> HIDE DEF c13
<1>21. Layered(c14, L, 13 + 1)
    BY <1>1, <1>3, <1>20, FilesAre, LayeredNext
<1> HIDE DEF c14
<1>22. Layered(c15, L, 14 + 1)
    BY <1>3, <1>4, <1>21, LayeredNext
<1> HIDE DEF c15
<1>23. Layered(c16, L, 15 + 1)
    BY <1>3, <1>4, <1>22, LayeredNext
<1> HIDE DEF c16
<1>24. Layered(c17, L, 16 + 1)
    BY <1>3, <1>4, <1>23, LayeredNext
<1> HIDE DEF c17
<1>25. Layered(c17, L, 17)
    BY <1>24
<1> QED BY <1>2, <1>25 DEF L

(* The pairs of generated timers are what nothing later is written over.   *)
LEMMA GeneratedInTree ==
    ASSUME NEW s, IsSnapshot(s), Projects(s.items), NEW p,
           NEW pairs, pairs = TimerFiles(Kept(s.generated_timer_units)), p \in DOMAIN Written(pairs),
           \A j \in 10..17 : \A g \in Layers(s)[j] : g.path # p
    PROVE  p \in DOMAIN WriteConfigTree(s) /\ WriteConfigTree(s)[p] = Written(pairs)[p]
<1> DEFINE profiles == SetToSeq(MissingProfiles(s, BeforeProfiles(s)))
           c5 == BeforeProfiles(s)
           p6 == [i \in DOMAIN profiles |-> File(profiles[i], NoText)]
           c8 == c5 \o p6 \o Files(s.tuned_profiles) \o Files(s.drop_ins)
           c9 == c8 \o pairs
           c10 == c9 \o TimerFiles(s.systemd_timers)
           c11 == c10 \o Files(s.env_files)
           c12 == c11 \o SoftwareFiles(s)
           c13 == c12 \o SysusersFiles(s)
           c14 == c13 \o Files(s.snippets)
           c15 == c14 \o SysctlConf(s)
           c16 == c15 \o Kargs(s)
           c17 == c16 \o VarTmpfiles(s)
           There(c) == IsList(c) /\ p \in DOMAIN Written(c) /\ Written(c)[p] = Written(pairs)[p]
<1>1. WriteConfigTree(s) = Written(c17)
    BY DEF WriteConfigTree, BeforeProfiles
<1>2. /\ \A d \in Lists : IsList(s[d])
      /\ IsList(s.generated_timer_units) /\ IsList(s.systemd_timers) /\ IsList(s.env_files)
      /\ IsList(s.snippets) /\ IsList(s.tuned_profiles) /\ IsList(s.drop_ins)
    <2>1. \A d \in Lists : IsList(s[d])
        BY DEF IsSnapshot, Records
    <2> QED BY <2>1 DEF Lists
<1>3. IsList(pairs) /\ IsList(c8)
    <2>1. IsList(pairs)
        BY <1>2, KeptFacts, TimerFilesAre
    <2>2. IsList(s.config) /\ IsList(s.repo_files) /\ IsList(s.gpg_keys) /\ IsList(s.firewall_zones)
        BY <1>2 DEF Lists
    <2>3. IsList(c5)
        BY <2>2, ConfigFilesAre, FilesAre, ToolFilesAreLists, Concatenation DEF BeforeProfiles
    <2>4. IsList(p6)
        <3>1. PICK q : q = p6
            OBVIOUS
        <3>2. q = [i \in DOMAIN profiles |-> File(profiles[i], NoText)]
            BY <3>1
        <3>3. IsList(q)
            BY <1>2, <3>2, ProfilesAre
        <3> QED BY <3>1, <3>3
    <2> HIDE DEF c5, p6
    <2> QED BY <1>2, <2>1, <2>3, <2>4, FilesAre, Concatenation
<1> HIDE DEF c8
<1>4. There(c9)
    <2>1. IsList(c8 \o pairs)
        BY <1>3, Concatenation
    <2>2. p \in DOMAIN Written(c8 \o pairs) /\ Written(c8 \o pairs)[p] = Written(pairs)[p]
        BY <1>3, WrittenAfter
    <2> QED BY <2>1, <2>2
<1>5. ASSUME NEW a, There(a), NEW b, IsList(b), NEW j \in 10..17, Layers(s)[j] = ToSet(b)
      PROVE  There(a \o b)
    <2>1. \A f \in ToSet(b) : f.path # p
        BY <1>5
    <2>3. IsList(a) /\ p \in DOMAIN Written(a) /\ Written(a)[p] = Written(pairs)[p]
        BY <1>5
    <2>4. IsList(a \o b)
        BY <1>5, <2>3, Concatenation
    <2>5. p \in DOMAIN Written(a \o b) /\ Written(a \o b)[p] = Written(a)[p]
        BY <1>5, <2>1, <2>3, WrittenStays
    <2> QED BY <2>3, <2>4, <2>5
<1>6. /\ Layers(s)[10] = PairsOf(ToSet(s.systemd_timers)) /\ Layers(s)[11] = FilesOf(s.env_files)
      /\ Layers(s)[12] = UNION {ProjectOf(x) : x \in ToSet(Kept(s.items))}
      /\ Layers(s)[13] = ToSet(SysusersFiles(s)) /\ Layers(s)[14] = FilesOf(s.snippets)
      /\ Layers(s)[15] = ToSet(SysctlConf(s)) /\ Layers(s)[16] = ToSet(Kargs(s))
      /\ Layers(s)[17] = ToSet(VarTmpfiles(s))
    BY DEF Layers
<1>7. /\ IsList(SysusersFiles(s)) /\ IsList(SysctlConf(s)) /\ IsList(Kargs(s)) /\ IsList(VarTmpfiles(s))
    BY ToolFilesAreLists
<1> HIDE DEF There, c9
<1>8. There(c10)
    BY <1>2, <1>4, <1>5, <1>6, TimerFilesAre
<1> HIDE DEF c10
<1>9. There(c11)
    BY <1>2, <1>5, <1>6, <1>8, FilesAre
<1> HIDE DEF c11
<1>10. There(c12)
    <2>1. PICK b : b = SoftwareFiles(s)
        OBVIOUS
    <2>2. IsList(b) /\ ToSet(b) = Layers(s)[12]
        BY <1>6, <2>1, SoftwareFilesAre
    <2>3. There(c11 \o b)
        BY <1>5, <1>9, <2>2
    <2> QED BY <2>1, <2>3
<1> HIDE DEF c12
<1>11. There(c13)
    BY <1>5, <1>6, <1>7, <1>10
<1> HIDE DEF c13
<1>12. There(c14)
    BY <1>2, <1>5, <1>6, <1>11, FilesAre
<1> HIDE DEF c14
<1>13. There(c15)
    BY <1>5, <1>6, <1>7, <1>12
<1> HIDE DEF c15
<1>14. There(c16)
    BY <1>5, <1>6, <1>7, <1>13
<1> HIDE DEF c16
<1>15. There(c17)
    BY <1>5, <1>6, <1>7, <1>14
<1> HIDE DEF c17
<1> QED BY <1>1, <1>15 DEF There

LEMMA TreeFacts ==
    ASSUME NEW s, IsSnapshot(s), Projects(s.items), NEW t, t = WriteConfigTree(s), NEW L, L = Layers(s)
    PROVE  /\ \A p \in DOMAIN t : \E l \in 1..17 : \E f \in L[l] : f.path = p /\ t[p] = f.text
           /\ \A k \in 1..17 : \A l \in k..17 : \A f \in L[l] :
                /\ f.path \in DOMAIN t
                /\ \E j \in k..17 : \E g \in L[j] : g.path = f.path /\ t[f.path] = g.text
<1>1. PICK c : Layered(c, L, 17) /\ t = Written(c)
    BY TreeLayered
<1>2. IsList(c) /\ ToSet(c) = UNION {L[l] : l \in 1..17}
    BY <1>1 DEF Layered
<1>3. \A p \in DOMAIN t : \E l \in 1..17 : \E f \in L[l] : f.path = p /\ t[p] = f.text
    <2>1. \A p \in DOMAIN t : \E f \in ToSet(c) : f.path = p /\ t[p] = f.text
        <3>1. /\ DOMAIN Written(c) = {f.path : f \in ToSet(c)}
              /\ \A p \in DOMAIN Written(c) : \E f \in ToSet(c) : f.path = p /\ Written(c)[p] = f.text
            BY <1>2, WrittenFacts
        <3>2. t = Written(c)
            BY <1>1
        <3> QED BY ONLY <3>1, <3>2
    <2> QED BY <1>2, <2>1
<1>4. \A k \in 1..17 : \A l \in k..17 : \A f \in L[l] :
                /\ f.path \in DOMAIN t
                /\ \E j \in k..17 : \E g \in L[j] : g.path = f.path /\ t[f.path] = g.text
    <2> TAKE k \in 1..17
    <2> TAKE l \in k..17
    <2> TAKE f \in L[l]
    <2>1. Layered(c, L, 17) /\ 17 \in Nat
        BY <1>1
    <2>2. /\ f.path \in DOMAIN Written(c)
          /\ \E j \in k..17 : \E g \in L[j] : g.path = f.path /\ Written(c)[f.path] = g.text
        BY ONLY <2>1, k \in 1..17, l \in k..17, f \in L[l], LayeredWritten
    <2>3. t = Written(c)
        BY <1>1
    <2> QED BY ONLY <2>2, <2>3
<1> QED BY <1>3, <1>4

LEMMA PickedSet ==
    ASSUME NEW list, IsList(list), NEW places, places \subseteq DOMAIN list,
           NEW S, \A n \in DOMAIN list : n \in places <=> list[n] \in S
    PROVE  IsList(Picked(list, places)) /\ ToSet(Picked(list, places)) = ToSet(list) \cap S
<1>1. IsList(Picked(list, places)) /\ ToSet(Picked(list, places)) = {list[n] : n \in places}
    BY PickedFacts
<1>2. {list[n] : n \in places} = ToSet(list) \cap S
    BY DEF ToSet
<1> QED BY <1>1, <1>2

ItemsOf(files) == {Item(f.path, Read(f)) : f \in files}

LEMMA ItemsAre ==
    ASSUME NEW files, IsList(files)
    PROVE  IsList(Items(files)) /\ ToSet(Items(files)) = ItemsOf(ToSet(files))
<1> DEFINE t == Items(files)
<1>1. t = [i \in DOMAIN files |-> t[i]] /\ \A i \in DOMAIN files : t[i] = Item(files[i].path, Read(files[i]))
    BY DEF Items
<1> HIDE DEF t
<1>2. IsList(t) /\ DOMAIN t = DOMAIN files
    BY <1>1, MapFacts
<1>3. ToSet(t) = ItemsOf(ToSet(files))
    BY <1>1, <1>2 DEF ToSet, ItemsOf
<1> QED BY <1>2, <1>3 DEF t

FilesThere(h, dir, suffixes) == {f \in ToSet(h.files) : f.path.dir = dir /\ Suffix(f.path) \in suffixes}

LEMMA FilesInAre ==
    ASSUME NEW h \in Hosts, NEW dir, NEW suffixes
    PROVE  /\ IsList(FilesIn(h, dir, suffixes)) /\ IsList(Items(FilesIn(h, dir, suffixes)))
           /\ ToSet(FilesIn(h, dir, suffixes)) = FilesThere(h, dir, suffixes)
           /\ ToSet(Items(FilesIn(h, dir, suffixes))) = ItemsOf(FilesThere(h, dir, suffixes))
<1> DEFINE places == {n \in DOMAIN h.files : h.files[n].path.dir = dir /\ Suffix(h.files[n].path) \in suffixes}
<1>1. IsList(h.files)
    BY ListsOfHost
<1>2. FilesIn(h, dir, suffixes) = Picked(h.files, places)
    BY DEF FilesIn, Select
<1>3. \A n \in DOMAIN h.files : n \in places <=> h.files[n] \in FilesThere(h, dir, suffixes)
    BY DEF FilesThere, ToSet
<1> HIDE DEF places
<1>4. places \subseteq DOMAIN h.files
    BY DEF places
<1>5. IsList(Picked(h.files, places))
      /\ ToSet(Picked(h.files, places)) = ToSet(h.files) \cap FilesThere(h, dir, suffixes)
    BY <1>1, <1>3, <1>4, PickedSet
<1>6. ToSet(h.files) \cap FilesThere(h, dir, suffixes) = FilesThere(h, dir, suffixes)
    BY DEF FilesThere
<1> QED BY <1>2, <1>5, <1>6, ItemsAre

(* The files of the host each section of files takes.                      *)
RepoFiles(h) == {f \in ToSet(h.files) : IsRepoFile(f)}
KeyFiles(h)  == {f \in ToSet(h.files) : f.path.dir = "pki/rpm-gpg" /\ f.path \in h.gpgkeys}
EnvFiles(h)  == {f \in ToSet(h.files) : f.path.top = "opt" /\ f.path.name \in EnvFileNames}
ZoneFiles(h) == FilesThere(h, "firewalld/zones", {"xml"})
DropFiles(h) == FilesThere(h, "systemd/system/*.d", {"conf"})
TunedFiles(h) == FilesThere(h, "tuned/*", {"conf"})
SnippetFiles(h) == FilesThere(h, "modules-load.d", {"conf"}) \cup FilesThere(h, "modprobe.d", {"conf"})
                   \cup FilesThere(h, "dracut.conf.d", {"conf"})
ProfileFiles(h) == {f \in ToSet(h.files) : IsProfile(f.path)}

LEMMA ReposFound ==
    ASSUME NEW h \in Hosts, NEW s, IsSnapshot(s)
    PROVE  LET t == RunRepos(s, h)
           IN  /\ ToSet(t.repo_files) = ItemsOf(RepoFiles(h))
               /\ ToSet(t.gpg_keys) = ItemsOf(KeyFiles(h))
               /\ t.config = s.config
<1> DEFINE repos == {n \in DOMAIN h.files : IsRepoFile(h.files[n])}
           keys  == {n \in DOMAIN h.files : h.files[n].path.dir = "pki/rpm-gpg" /\ h.files[n].path \in h.gpgkeys}
<1>1. IsList(h.files)
    BY ListsOfHost
<1>2. \A n \in DOMAIN h.files : (n \in repos <=> h.files[n] \in RepoFiles(h)) /\ (n \in keys <=> h.files[n] \in KeyFiles(h))
    BY DEF RepoFiles, KeyFiles, ToSet
<1>3. PICK r, k : r = Items(Picked(h.files, repos)) /\ k = Items(Picked(h.files, keys))
    OBVIOUS
<1>4. RunRepos(s, h) = [s EXCEPT !.repo_files = r, !.gpg_keys = k]
    BY <1>3 DEF RunRepos, Select
<1>5. repos \subseteq DOMAIN h.files /\ keys \subseteq DOMAIN h.files
    OBVIOUS
<1> HIDE DEF repos, keys
<1>6. /\ IsList(Picked(h.files, repos)) /\ ToSet(Picked(h.files, repos)) = ToSet(h.files) \cap RepoFiles(h)
      /\ IsList(Picked(h.files, keys)) /\ ToSet(Picked(h.files, keys)) = ToSet(h.files) \cap KeyFiles(h)
    BY <1>1, <1>2, <1>5, PickedSet
<1>7. ToSet(h.files) \cap RepoFiles(h) = RepoFiles(h) /\ ToSet(h.files) \cap KeyFiles(h) = KeyFiles(h)
    BY DEF RepoFiles, KeyFiles
<1>8. ToSet(r) = ItemsOf(RepoFiles(h)) /\ ToSet(k) = ItemsOf(KeyFiles(h))
    BY <1>3, <1>6, <1>7, ItemsAre
<1> QED BY <1>4, <1>8 DEF IsSnapshot, Parts, Lists

(* Where a file that cannot be decoded ends an inspector, there is none.   *)
LEMMA StrictFiles ==
    ASSUME NEW h \in Hosts, NEW i \in DOMAIN h.files, h.files[i].path.dir \in StrictDirs
    PROVE  Read(h.files[i]) = h.files[i].text
<1>1. h.files[i].decodes \/ ~ReadStrictly(h.files[i])
    BY HostAssumption
<1>2. h.files[i].decodes
    BY <1>1 DEF ReadStrictly
<1> QED BY <1>2 DEF Read

LEMMA DropInsFound ==
    ASSUME NEW h \in Hosts
    PROVE  IsList(DropIns(h)) /\ ToSet(DropIns(h)) = ItemsOf(DropFiles(h))
<1>1. DropIns(h) = Items(FilesIn(h, "systemd/system/*.d", {"conf"}))
    <2> DEFINE places == {n \in DOMAIN h.files : h.files[n].path.dir = "systemd/system/*.d" /\ Suffix(h.files[n].path) = "conf"}
               others == {n \in DOMAIN h.files : h.files[n].path.dir = "systemd/system/*.d" /\ Suffix(h.files[n].path) \in {"conf"}}
    <2>1. places = others
        OBVIOUS
    <2>2. FilesIn(h, "systemd/system/*.d", {"conf"}) = Picked(h.files, others)
        BY DEF FilesIn, Select
    <2>3. DropIns(h) = Items(Picked(h.files, places))
        <3>1. PICK list : list = Picked(h.files, places)
            OBVIOUS
        <3>2. DropIns(h) = [i \in DOMAIN list |-> Item(list[i].path, list[i].text)]
            BY <3>1 DEF DropIns, Select
        <3>3. places \subseteq DOMAIN h.files /\ IsList(h.files)
            BY ListsOfHost
        <3>4. \A i \in DOMAIN list : list[i] \in {h.files[n] : n \in places}
            <4> HIDE DEF places
            <4>1. ToSet(list) = {h.files[n] : n \in places}
                BY <3>1, <3>3, PickedFacts
            <4> QED BY <4>1 DEF ToSet
        <3>5. \A n \in places : Read(h.files[n]) = h.files[n].text
            BY StrictFiles DEF StrictDirs
        <3> HIDE DEF places
        <3>6. \A i \in DOMAIN list : Read(list[i]) = list[i].text
            BY <3>4, <3>5
        <3>7. Items(list) = [i \in DOMAIN list |-> Item(list[i].path, list[i].text)]
            BY <3>6 DEF Items
        <3> QED BY <3>1, <3>2, <3>7
    <2> QED BY <2>1, <2>2, <2>3
<1> QED BY <1>1, FilesInAre DEF DropFiles

LEMMA NetworkFound ==
    ASSUME NEW h \in Hosts, NEW s, IsSnapshot(s)
    PROVE  LET t == RunNetwork(s, h)
           IN  /\ ToSet(t.firewall_zones) = ItemsOf(ZoneFiles(h))
               /\ ToSet(t.connections) = {NMConnection(f.path, ConnectionMethod(h.methods[f.path])) : f \in ProfileFiles(h)}
<1> DEFINE etc == {n \in DOMAIN h.files : h.files[n].path.top = "etc"}
           inEtc == Picked(h.files, etc)
           at(dir) == {n \in DOMAIN inEtc : inEtc[n].path.dir = dir}
           in(dir) == Picked(inEtc, at(dir))
           there(dir) == {f \in ToSet(h.files) : f.path.top = "etc" /\ f.path.dir = dir}
<1>1. IsList(h.files)
    BY ListsOfHost
<1>2. IsList(inEtc) /\ ToSet(inEtc) = {f \in ToSet(h.files) : f.path.top = "etc"}
    <2> DEFINE S == {f \in ToSet(h.files) : f.path.top = "etc"}
    <2>1. \A n \in DOMAIN h.files : n \in etc <=> h.files[n] \in S
        BY DEF ToSet
    <2>2. etc \subseteq DOMAIN h.files /\ ToSet(h.files) \cap S = S
        OBVIOUS
    <2> HIDE DEF etc, S
    <2> QED BY <1>1, <2>1, <2>2, PickedSet DEF S
<1>3. ASSUME NEW dir PROVE IsList(in(dir)) /\ ToSet(in(dir)) = there(dir)
    <2> HIDE DEF inEtc
    <2>1. \A n \in DOMAIN inEtc : n \in at(dir) <=> inEtc[n] \in there(dir)
        BY <1>2 DEF ToSet
    <2>2. at(dir) \subseteq DOMAIN inEtc /\ ToSet(inEtc) \cap there(dir) = there(dir)
        BY <1>2
    <2> HIDE DEF at, there
    <2> QED BY <1>2, <2>1, <2>2, PickedSet
<1> DEFINE profiles == in("NetworkManager/system-connections") \o in("sysconfig/network-scripts")
           c == [i \in DOMAIN profiles |-> NMConnection(profiles[i].path, ConnectionMethod(h.methods[profiles[i].path]))]
<1>4. IsList(profiles) /\ ToSet(profiles) = ProfileFiles(h)
    <2>1. IsList(profiles) /\ ToSet(profiles) = there("NetworkManager/system-connections") \cup there("sysconfig/network-scripts")
        <3> HIDE DEF in, there
        <3> QED BY <1>3, Concatenation
    <2> HIDE DEF profiles
    <2> QED BY <2>1 DEF ProfileFiles, IsProfile
<1>5. \E z, r : RunNetwork(s, h) = [s EXCEPT !.connections = c, !.firewall_zones = z, !.direct_rules = r]
                /\ z = Items(FilesIn(h, "firewalld/zones", {"xml"}))
    BY DEF RunNetwork, Select, InEtc
<1>6. c = [i \in DOMAIN profiles |-> c[i]]
      /\ \A i \in DOMAIN profiles : c[i] = NMConnection(profiles[i].path, ConnectionMethod(h.methods[profiles[i].path]))
    OBVIOUS
<1> HIDE DEF profiles, c
<1>7. IsList(c) /\ DOMAIN c = DOMAIN profiles
    BY <1>4, <1>6, MapFacts
<1>8. ToSet(c) = {NMConnection(f.path, ConnectionMethod(h.methods[f.path])) : f \in ToSet(profiles)}
    BY <1>6, <1>7 DEF ToSet
<1>9. ToSet(Items(FilesIn(h, "firewalld/zones", {"xml"}))) = ItemsOf(ZoneFiles(h))
    BY FilesInAre DEF ZoneFiles
<1> QED BY <1>4, <1>5, <1>8, <1>9 DEF IsSnapshot, Parts, Lists
-----------------------------------------------------------------------------
(* The inductive invariant of a migration.                                 *)
WholeInv == MigrationInv /\ PlaceInv /\ ContentInv /\ UnitsInv /\ InspectedInv

LEMMA WholeInvStutter ==
    ASSUME PlaceInv, ContentInv, UnitsInv, UNCHANGED migrationVars
    PROVE  PlaceInv' /\ ContentInv' /\ UnitsInv'
<1>1. UNCHANGED <<host, phase, answered, snap, edits, tree, program, pc, image>>
    BY DEF migrationVars
<1>2. Building' = Building /\ Done' = Done /\ Added' = Added
    BY <1>1 DEF Building, Done, Added
<1>3. PlaceInv'
    <2>1. Succeeds(program[pc])' <=> Succeeds(program[pc])
        BY <1>1 DEF Succeeds, HasUnit, Sources
    <2> QED BY <1>1, <1>2, <2>1 DEF PlaceInv
<1>4. \A x : Brought(x)' = Brought(x)
    BY <1>1 DEF Brought, Sources
<1>5. ContentInv'
    <2>1. IsImage(image)'
        BY <1>1 DEF ContentInv, IsImage
    <2>2. (UNION {Brought(x) : x \in Done})' = UNION {Brought(x) : x \in Done}
        BY <1>1, <1>2, <1>4
    <2>3. Deploy(Added, snap, SysusersConf \in DOMAIN image.files)'
            = Deploy(Added, snap, SysusersConf \in DOMAIN image.files)
        BY <1>1, <1>2
    <2> QED BY <1>1, <1>2, <2>1, <2>2, <2>3 DEF ContentInv
<1>6. UnitsInv'
    <2>1. PresetUnits(image.packages)' = PresetUnits(image.packages)
        BY <1>1 DEF PresetUnits, StateOf
    <2>2. StaysEnabled' <=> StaysEnabled
        BY <1>1 DEF StaysEnabled
    <2>3. StaysDisabled' <=> StaysDisabled
        BY <1>1 DEF StaysDisabled, PackagesBefore
    <2>4. PresetsApplied' <=> PresetsApplied
        BY <1>1, <1>2, <2>1 DEF PresetsApplied
    <2>5. OnlyEnabled' <=> OnlyEnabled
        BY <1>1, <1>2, <2>1 DEF OnlyEnabled
    <2> QED BY <1>2, <2>2, <2>3, <2>4, <2>5 DEF UnitsInv
<1> QED BY <1>3, <1>5, <1>6

\* Where the build is, what the instructions done have made of the image and of
\* its units, and what the inspectors of the phases so far have found: each
\* holds in every state of a migration.
THEOREM WholeInvariant == MigrationSpec => []WholeInv
<1>1. MigrationInit => WholeInv
    BY MigrationInvInit, PlaceInit, InspectedInit DEF WholeInv
<1>2. WholeInv /\ [MigrationNext]_migrationVars => WholeInv'
    <2>1. SUFFICES ASSUME WholeInv, [MigrationNext]_migrationVars
                   PROVE  WholeInv'
        OBVIOUS
    <2>2. MigrationInv' /\ InspectedInv'
        BY <2>1, MigrationInvStep, InspectedStep DEF WholeInv
    <2>3. CASE MigrationNext
        BY <2>1, <2>2, <2>3, PlaceStep, ContentStep, UnitsStep DEF WholeInv
    <2>4. CASE UNCHANGED migrationVars
        BY <2>1, <2>2, <2>4, WholeInvStutter DEF WholeInv
    <2> QED BY <2>1, <2>3, <2>4
<1> QED BY <1>1, <1>2, PTL DEF MigrationSpec

(* When the build has ended every instruction is done.                     *)
LEMMA EndedFacts ==
    ASSUME WholeInv, Ended, NEW sets, sets = Instructions(snap, tree.config)
    PROVE  /\ Building /\ Drawn /\ Reported /\ IsSnapshot(snap) /\ host \in Hosts
           /\ tree.config = WriteConfigTree(snap) /\ tree.quadlet = WriteQuadlets(snap)
           /\ Projects(snap.items)
           /\ Done = ToSet(program) /\ Done = UNION {sets[k] : k \in 1..14}
           /\ image.packages = host.base \cup Args("install", Done)
<1>1. Building /\ Drawn /\ Reported
    BY DEF Ended, Building, Drawn, Reported
<1>2. /\ IsList(program) /\ Len(program) \in Nat /\ DOMAIN program = 1..Len(program)
      /\ ToSet(program) = UNION {sets[k] : k \in 1..14}
    BY <1>1, BuiltSteps DEF WholeInv
<1>3. pc = Len(program) + 1
    BY <1>2 DEF WholeInv, PlaceInv, Ended
<1>4. 1..(pc - 1) = DOMAIN program
    BY <1>2, <1>3
<1>5. Done = ToSet(program)
    BY <1>4 DEF Done, Before, ToSet
<1>6. tree = [config |-> WriteConfigTree(snap), quadlet |-> WriteQuadlets(snap)]
    BY <1>1 DEF WholeInv, MigrationInv, InStep
<1>7. tree.config = WriteConfigTree(snap) /\ tree.quadlet = WriteQuadlets(snap)
    BY <1>6
<1> QED BY <1>1, <1>2, <1>5, <1>7 DEF WholeInv, MigrationInv, ContentInv

(* Any step of a running build is one of its section.                      *)
LEMMA DoneKinds ==
    ASSUME WholeInv, Building, NEW sets, sets = Instructions(snap, tree.config), NEW x \in Done
    PROVE  \E k \in 1..14 : x \in sets[k]
<1>1. /\ Drawn /\ MigrationInv
    BY DEF Building, Drawn, WholeInv
<1>2. /\ Len(program) \in Nat /\ DOMAIN program = 1..Len(program)
      /\ \A i \in DOMAIN program : \E k \in 1..14 : program[i] \in sets[k]
    BY <1>1, BuiltSteps
<1>3. pc \in 1..(Len(program) + 1)
    BY DEF WholeInv, PlaceInv
<1> QED BY <1>2, <1>3 DEF Done, Before
-----------------------------------------------------------------------------
(* Accounts                                                                *)

LEMMA CreatedFacts ==
    ASSUME NEW users, IsList(users), NEW gids
    PROVE  /\ IsList(Created(users, gids))
           /\ ToSet(Created(users, gids)) = {u \in ToSet(users) : u.gid \in gids}
<1> DEFINE places == {n \in DOMAIN users : users[n].gid \in gids}
           S == {u \in ToSet(users) : u.gid \in gids}
<1>1. Created(users, gids) = Picked(users, places)
    BY DEF Created, Select
<1>2. places \subseteq DOMAIN users /\ \A n \in DOMAIN users : n \in places <=> users[n] \in S
    BY DEF ToSet
<1> HIDE DEF places
<1>3. IsList(Picked(users, places)) /\ ToSet(Picked(users, places)) = ToSet(users) \cap S
    BY <1>2, PickedSet
<1> QED BY <1>1, <1>3

(* The users and groups kept for a strategy.                               *)
KeptBy(strategy, accounts) == {x \in ToSet(accounts) : x.include /\ x.strategy = strategy}

(* The accounts after the first boot, d, from those of the image.          *)
Deployed(d, s, accounts, sysusers) ==
    LET built == accounts.gids \cup {g.gid : g \in KeptBy("blueprint", s.groups)}
        installed == built \cup {u.gid : u \in KeptBy("kickstart", s.users)}
    IN  /\ d.gids = IF sysusers THEN installed \cup {g.gid : g \in KeptBy("sysusers", s.groups)}
                    ELSE installed
        /\ \A name : name \in d.names <=>
             \/ name \in accounts.names
             \/ \E u \in KeptBy("blueprint", s.users) : u.gid \in built /\ u.name = name
             \/ \E u \in KeptBy("kickstart", s.users) : u.name = name
             \/ sysusers /\ \E u \in KeptBy("sysusers", s.users) : u.gid \in d.gids /\ u.name = name

LEMMA DeployFacts ==
    ASSUME NEW s, IsSnapshot(s), NEW accounts, NEW sysusers
    PROVE  Deployed(Deploy(accounts, s, sysusers), s, accounts, sysusers)
<1> DEFINE d == Deploy(accounts, s, sysusers)
           built == accounts.gids \cup {g.gid : g \in KeptBy("blueprint", s.groups)}
           installed == built \cup {u.gid : u \in KeptBy("kickstart", s.users)}
           booted == IF sysusers THEN installed \cup {g.gid : g \in KeptBy("sysusers", s.groups)}
                     ELSE installed
<1>1. IsList(s.users) /\ IsList(s.groups)
    BY DEF IsSnapshot, Records, Lists
<1>2. \A strategy : /\ IsList(By(strategy, s.users)) /\ ToSet(By(strategy, s.users)) = KeptBy(strategy, s.users)
                    /\ IsList(By(strategy, s.groups)) /\ ToSet(By(strategy, s.groups)) = KeptBy(strategy, s.groups)
    BY <1>1, ByFacts DEF KeptBy
<1>3. PICK bg, bu, ki, sg, su : /\ bg = By("blueprint", s.groups) /\ bu = By("blueprint", s.users)
                                /\ ki = By("kickstart", s.users)
                                /\ sg = By("sysusers", s.groups) /\ su = By("sysusers", s.users)
    OBVIOUS
<1>4. /\ IsList(bu) /\ IsList(ki) /\ IsList(su)
      /\ ToSet(bg) = KeptBy("blueprint", s.groups) /\ ToSet(bu) = KeptBy("blueprint", s.users)
      /\ ToSet(ki) = KeptBy("kickstart", s.users)
      /\ ToSet(sg) = KeptBy("sysusers", s.groups) /\ ToSet(su) = KeptBy("sysusers", s.users)
    BY <1>2, <1>3
<1>5. /\ built = accounts.gids \cup Gids(bg) /\ installed = built \cup Gids(ki)
      /\ booted = IF sysusers THEN installed \cup Gids(sg) ELSE installed
    BY <1>4 DEF Gids
<1> HIDE DEF built, installed, booted
<1>6. PICK last : last = IF sysusers THEN Created(su, booted) ELSE <<>>
    OBVIOUS
<1>7. IsList(last) /\ ToSet(last) = IF sysusers THEN {u \in ToSet(su) : u.gid \in booted} ELSE {}
    BY <1>4, <1>6, CreatedFacts, EmptyList
<1>8. PICK users : users = Created(bu, built) \o ki \o last
    OBVIOUS
<1>9. ToSet(users) = {u \in ToSet(bu) : u.gid \in built} \cup ToSet(ki) \cup ToSet(last)
    <2>1. IsList(Created(bu, built)) /\ ToSet(Created(bu, built)) = {u \in ToSet(bu) : u.gid \in built}
        BY <1>4, CreatedFacts
    <2> QED BY <1>4, <1>7, <1>8, <2>1, Concatenation
<1>10. d = [gids |-> booted, names |-> accounts.names \cup {u.name : u \in ToSet(users)}]
    BY <1>3, <1>5, <1>6, <1>8 DEF Deploy, Blueprint, Kickstart, Sysusers
<1>11. d.gids = booted /\ d.names = accounts.names \cup {u.name : u \in ToSet(users)}
    BY <1>10
<1> HIDE DEF d
<1>12. \A name : name \in d.names <=>
            \/ name \in accounts.names
            \/ \E u \in KeptBy("blueprint", s.users) : u.gid \in built /\ u.name = name
            \/ \E u \in KeptBy("kickstart", s.users) : u.name = name
            \/ sysusers /\ \E u \in KeptBy("sysusers", s.users) : u.gid \in d.gids /\ u.name = name
    BY <1>4, <1>7, <1>9, <1>11
<1> QED BY <1>11, <1>12 DEF d, built, installed, booted, Deployed

LEMMA NamesFacts ==
    ASSUME NEW accounts, IsList(accounts)
    PROVE  /\ IsList(Names(accounts)) /\ DOMAIN Names(accounts) = DOMAIN accounts
           /\ ToSet(Names(accounts)) = {x.name : x \in ToSet(accounts)}
<1>1. Names(accounts) = [i \in DOMAIN accounts |-> Names(accounts)[i]]
      /\ \A i \in DOMAIN accounts : Names(accounts)[i] = accounts[i].name
    BY DEF Names
<1>2. IsList(Names(accounts)) /\ DOMAIN Names(accounts) = DOMAIN accounts
    BY <1>1, MapFacts
<1> QED BY <1>1, <1>2 DEF ToSet

(* Users or groups by sysusers have their file.                            *)
LEMMA SysusersFileIs ==
    ASSUME NEW s, IsSnapshot(s),
           KeptBy("sysusers", s.users) # {} \/ KeptBy("sysusers", s.groups) # {}
    PROVE  \E f \in ToSet(SysusersFiles(s)) : f.path = SysusersConf
<1>1. IsList(s.users) /\ IsList(s.groups)
    BY DEF IsSnapshot, Records, Lists
<1>2. PICK gs, us : gs = By("sysusers", s.groups) /\ us = By("sysusers", s.users)
    OBVIOUS
<1>3. /\ IsList(us) /\ ToSet(us) = KeptBy("sysusers", s.users)
      /\ IsList(gs) /\ ToSet(gs) = KeptBy("sysusers", s.groups)
    BY <1>1, <1>2, ByFacts DEF KeptBy
<1>4. PICK lines : lines = Names(gs) \o Names(us)
    OBVIOUS
<1>5. IsList(lines) /\ ToSet(lines) = ToSet(Names(gs)) \cup ToSet(Names(us))
    BY <1>3, <1>4, NamesFacts, Concatenation
<1>6. ToSet(lines) # {}
    BY <1>3, <1>5, NamesFacts
<1>7. lines # <<>>
    BY <1>6, EmptyList
<1>8. PICK one, homes, rest :
            /\ one = Generated(SysusersConf, "sysusers", lines)
            /\ homes = Names(Select(us, LAMBDA u : u.home # "none"))
            /\ rest = Generated(Tmpfiles("yoinkc-sysusers-homes"), "homes", homes)
    OBVIOUS
<1>9. SysusersFiles(s) = one \o rest
    BY <1>2, <1>4, <1>8 DEF SysusersFiles, Sysusers
<1>10. PICK f : f = File(SysusersConf, Text(<<"sysusers">> \o lines, {}))
    OBVIOUS
<1>11. one = <<f>>
    BY <1>7, <1>8, <1>10 DEF Generated
<1>12. IsList(one) /\ ToSet(one) = {f} /\ f.path = SysusersConf
    BY <1>10, <1>11, OneElement DEF File
<1>13. IsList(rest)
    <2>1. PICK g : g = File(Tmpfiles("yoinkc-sysusers-homes"), Text(<<"homes">> \o homes, {}))
        OBVIOUS
    <2>2. rest = <<>> \/ rest = <<g>>
        BY <1>8, <2>1 DEF Generated
    <2> QED BY <2>2, EmptyList, OneElement
<1>14. ToSet(one \o rest) = ToSet(one) \cup ToSet(rest)
    BY <1>12, <1>13, Concatenation
<1> QED BY <1>9, <1>12, <1>14

(* What a step of the build brings is in the image when it ends.           *)
LEMMA EndedFiles ==
    ASSUME WholeInv, Ended, NEW x \in Done, NEW p \in Brought(x)
    PROVE  p \in DOMAIN image.files
BY DEF WholeInv, ContentInv, Ended, Building

(* All of config/ comes with its top directories.                          *)
LEMMA TreeArrives ==
    ASSUME WholeInv, Ended, NEW p \in DOMAIN tree.config, p.top # "tmp"
    PROVE  p \in DOMAIN image.files
<1>1. PICK sets : sets = Instructions(snap, tree.config)
    OBVIOUS
<1>2. Done = UNION {sets[k] : k \in 1..14}
    BY <1>1, EndedFacts
<1>3. PICK x : x = Step("copy_roots", ConfigCopyRoots(tree.config))
    OBVIOUS
<1>4. x \in sets[7]
    BY <1>1, <1>3 DEF Instructions
<1>5. x \in Done
    BY <1>2, <1>4
<1>6. x.do = "copy_roots" /\ x.args = ConfigCopyRoots(tree.config)
    BY <1>3 DEF Step
<1>7. p.top \in x.args
    BY <1>6 DEF ConfigCopyRoots
<1>8. p \in Sources(x)
    BY <1>6, <1>7 DEF Sources
<1>9. p \in Brought(x)
    BY <1>6, <1>8 DEF Brought
<1> QED BY <1>5, <1>9, EndedFiles

LEMMA SysusersConfIs == SysusersConf.top = "usr" /\ SysusersConf.dir = "lib/sysusers.d"
BY DEF SysusersConf, Path

LEMMA SysusersConfArrives ==
    ASSUME WholeInv, Ended,
           KeptBy("sysusers", snap.users) # {} \/ KeptBy("sysusers", snap.groups) # {}
    PROVE  SysusersConf \in DOMAIN image.files
<1>1. PICK s, t : s = snap /\ t = tree.config
    OBVIOUS
<1>2. IsSnapshot(s) /\ Projects(s.items) /\ t = WriteConfigTree(s)
    <2>1. PICK sets : sets = Instructions(snap, tree.config)
        OBVIOUS
    <2> QED BY <1>1, <2>1, EndedFacts
<1>3. PICK L : L = Layers(s)
    OBVIOUS
<1>4. PICK f \in ToSet(SysusersFiles(s)) : f.path = SysusersConf
    BY <1>1, <1>2, SysusersFileIs
<1>5. f \in L[13]
    BY <1>3, <1>4 DEF Layers
<1>6. \A k \in 1..17 : \A l \in k..17 : \A g \in L[l] : g.path \in DOMAIN t
    BY <1>2, <1>3, TreeFacts
<1>7. SysusersConf \in DOMAIN t
    BY <1>4, <1>5, <1>6
<1> QED BY <1>1, <1>7, SysusersConfIs, TreeArrives

(* The accounts of a section are those of the host.                        *)
LEMMA ListedFacts ==
    ASSUME WholeInv, Reported
    PROVE  Listed(snap.users, host.users, "uid") /\ Listed(snap.groups, host.groups, "gid")
<1>1. host \in Hosts /\ IsSnapshot(snap)
    BY DEF WholeInv, MigrationInv
<1>2. PICK u \in {{}, Modified} : InspectedAs(u)
    BY DEF WholeInv, InspectedInv
<1>3. PICK o \in Overrides : Alike(snap, Found(host, answered, u, o))
    BY <1>2 DEF InspectedAs
<1>4. PICK found, s, h : found = Found(host, answered, u, o) /\ s = snap /\ h = host
    OBVIOUS
<1>5. /\ IsSnapshot(s) /\ h \in Hosts /\ Alike(s, found)
      /\ found.users = Users(h, o) /\ found.groups = Groups(h, found.users, o)
    BY <1>1, <1>3, <1>4, FoundAccounts
<1>6. LikeAll(s.users, found.users) /\ LikeAll(s.groups, found.groups)
    BY <1>5 DEF Alike, Lists
<1>7. PICK users, groups, ownUsers, ownGroups :
            /\ users = found.users /\ groups = found.groups
            /\ ownUsers = OwnAccounts(h.users, "uid") /\ ownGroups = OwnAccounts(h.groups, "gid")
    OBVIOUS
<1>8. /\ IsList(users) /\ DOMAIN users = DOMAIN ownUsers
      /\ \A i \in DOMAIN users : /\ users[i].name = ownUsers[i].name
                                 /\ users[i].strategy \in Strategies
    BY <1>5, <1>7, UsersFacts
<1>9. \A x \in ToSet(users) : x.strategy \in Strategies
    BY <1>8 DEF ToSet
<1>10. /\ IsList(groups) /\ DOMAIN groups = DOMAIN ownGroups
       /\ \A i \in DOMAIN groups : groups[i].name = ownGroups[i].name
    <2>1. groups = Groups(h, users, o)
        BY <1>5, <1>7
    <2> QED BY <1>5, <1>7, <1>8, <1>9, <2>1, GroupsFacts
<1>11. IsList(h.users) /\ IsList(h.groups)
    BY <1>5, ListsOfHost
<1>12. /\ ToSet(ownUsers) = {x \in ToSet(h.users) : OwnId(x["uid"])}
       /\ ToSet(ownGroups) = {x \in ToSet(h.groups) : OwnId(x["gid"])}
    BY <1>7, <1>11, OwnAccountsFacts
<1>13. /\ \A i \in DOMAIN users : "name" \in DOMAIN users[i]
       /\ \A i \in DOMAIN groups : "name" \in DOMAIN groups[i]
    <2>1. Records(found.users, Fields("users")) /\ Records(found.groups, Fields("groups"))
        <3>1. IsSnapshot(found)
            BY <1>4, <1>5, FoundSnapshots
        <3> QED BY <3>1 DEF IsSnapshot, Lists
    <2> QED BY <1>7, <2>1, FieldsAre DEF Records, ToSet
<1>14. /\ DOMAIN s.users = DOMAIN ownUsers /\ DOMAIN s.groups = DOMAIN ownGroups
       /\ \A i \in DOMAIN ownUsers : s.users[i].name = ownUsers[i].name
       /\ \A i \in DOMAIN ownGroups : s.groups[i].name = ownGroups[i].name
    BY <1>6, <1>7, <1>8, <1>10, <1>13 DEF LikeAll, Like, Marked
<1>15. /\ {x.name : x \in ToSet(s.users)} = {x.name : x \in ToSet(ownUsers)}
       /\ {x.name : x \in ToSet(s.groups)} = {x.name : x \in ToSet(ownGroups)}
    BY <1>14 DEF ToSet
<1> QED BY <1>4, <1>12, <1>15 DEF Listed

LEMMA StrategiesFacts ==
    ASSUME WholeInv, Reported
    PROVE  /\ \A x \in ToSet(snap.users) : x.strategy \in Strategies
           /\ \A x \in ToSet(snap.groups) : x.strategy \in Strategies
<1>1. PICK u \in {{}, Modified} : InspectedAs(u)
    BY DEF WholeInv, InspectedInv
<1>2. PICK o \in Overrides : Untouched(snap, Found(host, answered, u, o), edits)
    BY <1>1 DEF InspectedAs
<1> QED BY <1>2 DEF Untouched, ToSet

LEMMA EndedIsBooted ==
    ASSUME WholeInv, phase = "booted"
    PROVE  Ended
<1>1. pc = Len(program) + 1 /\ IsList(program)
    BY DEF WholeInv, PlaceInv
<1>2. Len(program) \in Nat
    BY <1>1, ListFacts
<1> QED BY <1>1, <1>2 DEF Ended

(* The users and groups of the build.                                      *)
LEMMA AddedFacts ==
    ASSUME WholeInv, Ended
    PROVE  /\ \A u \in KeptBy("useradd", snap.users) : u.name \in Added.names
           /\ KeptBy("useradd", snap.users) # {} =>
                \A g \in KeptBy("useradd", snap.groups) : g.gid \in Added.gids
<1>1. PICK sets : sets = Instructions(snap, tree.config)
    OBVIOUS
<1>2. Done = UNION {sets[k] : k \in 1..14} /\ IsSnapshot(snap)
    BY <1>1, EndedFacts
<1>3. IsList(snap.users) /\ IsList(snap.groups)
    BY <1>2 DEF IsSnapshot, Records, Lists
<1>4. PICK us, gs : us = By("useradd", snap.users) /\ gs = UseraddGroups(snap)
    OBVIOUS
<1>5. /\ ToSet(us) = KeptBy("useradd", snap.users) /\ (us = <<>> <=> ToSet(us) = {})
      /\ us # <<>> => ToSet(gs) = KeptBy("useradd", snap.groups)
    BY <1>3, <1>4, ByFacts DEF KeptBy, UseraddGroups
<1>6. /\ sets[12] = {Step("groupadd", g) : g \in ToSet(gs)}
      /\ sets[13] = {Step("useradd", u) : u \in ToSet(us)}
    BY <1>1, <1>4 DEF Instructions
<1>7. \A u \in ToSet(us) : u.name \in Added.names
    <2> TAKE u \in ToSet(us)
    <2>1. PICK x : x = Step("useradd", u)
        OBVIOUS
    <2>2. x \in Done /\ x.do = "useradd" /\ x.args = u
        BY <1>2, <1>6, <2>1 DEF Step
    <2> QED BY <2>2 DEF Added, Of
<1>8. \A g \in ToSet(gs) : g.gid \in Added.gids
    <2> TAKE g \in ToSet(gs)
    <2>1. PICK x : x = Step("groupadd", g)
        OBVIOUS
    <2>2. x \in Done /\ x.do = "groupadd" /\ x.args = g
        BY <1>2, <1>6, <2>1 DEF Step
    <2> QED BY <2>2 DEF Added, Of
<1> QED BY <1>5, <1>7, <1>8

\* Every user and group of the host that is kept exists after the first boot,
\* whatever the accounts, the strategies and the edits, if its group is or can be.
THEOREM KeptAccountsExist == MigrationSpec => []AccountsExist
<1>1. ASSUME WholeInv, phase = "booted" PROVE AccountsExist
    <2>1. Ended /\ Reported
        BY <1>1, EndedIsBooted DEF Reported
    <2>2. IsSnapshot(snap)
        BY <1>1 DEF WholeInv, MigrationInv
    <2>3. IsList(snap.users) /\ IsList(snap.groups)
        BY <2>2 DEF IsSnapshot, Records, Lists
    <2>4. PICK sysusers : sysusers = (SysusersConf \in DOMAIN image.files)
        OBVIOUS
    <2>5. image.accounts = Deploy(Added, snap, sysusers)
        BY <1>1, <2>4 DEF WholeInv, ContentInv, Building
    <2>6. KeptBy("sysusers", snap.users) # {} \/ KeptBy("sysusers", snap.groups) # {} => sysusers
        BY <1>1, <2>1, <2>4, SysusersConfArrives
    <2>7. PICK d, gids, names, built, users, groups, kick :
            /\ d = image.accounts /\ gids = Added.gids /\ names = Added.names
            /\ built = gids \cup {g.gid : g \in KeptBy("blueprint", snap.groups)}
            /\ kick = {u.gid : u \in KeptBy("kickstart", snap.users)}
            /\ users = ToSet(Kept(snap.users)) /\ groups = ToSet(Kept(snap.groups))
        OBVIOUS
    <2>8. /\ d.gids = IF sysusers THEN (built \cup kick) \cup {g.gid : g \in KeptBy("sysusers", snap.groups)}
                      ELSE built \cup kick
          /\ \A name : name \in d.names <=>
                    \/ name \in names
                    \/ \E u \in KeptBy("blueprint", snap.users) : u.gid \in built /\ u.name = name
                    \/ \E u \in KeptBy("kickstart", snap.users) : u.name = name
                    \/ sysusers /\ \E u \in KeptBy("sysusers", snap.users) : u.gid \in d.gids /\ u.name = name
        <3>1. PICK s, accounts : s = snap /\ accounts = Added
            OBVIOUS
        <3>2. IsSnapshot(s) /\ d = Deploy(accounts, s, sysusers)
            BY <2>2, <2>5, <2>7, <3>1
        <3>3. Deployed(d, s, accounts, sysusers)
            <4>1. Deployed(Deploy(accounts, s, sysusers), s, accounts, sysusers)
                BY <3>2, DeployFacts
            <4> QED BY <3>2, <4>1
        <3> QED BY <2>7, <3>1, <3>3 DEF Deployed
    <2>9. /\ host.base_gids \subseteq gids
          /\ \A u \in KeptBy("useradd", snap.users) : u.name \in names
          /\ KeptBy("useradd", snap.users) # {} => \A g \in KeptBy("useradd", snap.groups) : g.gid \in gids
        BY <1>1, <2>1, <2>7, AddedFacts DEF Added
    <2>10. /\ \A strategy : \A u \in users : u.strategy = strategy => u \in KeptBy(strategy, snap.users)
           /\ \A strategy : \A g \in groups : g.strategy = strategy => g \in KeptBy(strategy, snap.groups)
           /\ \A u \in users : u \in ToSet(snap.users)
           /\ \A g \in groups : g \in ToSet(snap.groups)
        BY <2>3, <2>7, KeptFacts DEF KeptBy
    <2>11. \A u \in users : HasGroup(u) => u.name \in d.names
        <3>1. SUFFICES ASSUME NEW u \in users, HasGroup(u) PROVE u.name \in d.names
            OBVIOUS
        <3>2. u.strategy \in Strategies
            BY <1>1, <2>1, <2>10, StrategiesFacts
        <3>3. CASE u.strategy = "useradd"
            BY <2>8, <2>9, <2>10, <3>3
        <3>4. CASE u.strategy = "kickstart"
            BY <2>8, <2>10, <3>4
        <3>5. CASE u.strategy = "blueprint"
            <4>1. u.gid \in built
                BY <2>7, <2>9, <2>10, <3>1, <3>5 DEF HasGroup
            <4> QED BY <2>8, <2>10, <3>5, <4>1
        <3>6. CASE u.strategy = "sysusers"
            <4>1. u \in KeptBy("sysusers", snap.users) /\ sysusers
                BY <2>6, <2>10, <3>6
            <4>2. u.gid \in d.gids
                BY <2>7, <2>8, <2>9, <2>10, <3>1, <3>6, <4>1 DEF HasGroup
            <4> QED BY <2>8, <4>1, <4>2
        <3> QED BY <3>2, <3>3, <3>4, <3>5, <3>6 DEF Strategies
    <2>12. \A g \in groups : CreatesGroup(g) => g.gid \in d.gids
        <3>1. SUFFICES ASSUME NEW g \in groups, CreatesGroup(g) PROVE g.gid \in d.gids
            OBVIOUS
        <3>2. CASE g.strategy = "sysusers"
            BY <2>6, <2>8, <2>10, <3>2
        <3>3. CASE g.strategy = "blueprint"
            BY <2>7, <2>8, <2>10, <3>3
        <3>4. CASE g.strategy = "useradd" /\ By("useradd", snap.users) # <<>>
            <4>1. KeptBy("useradd", snap.users) # {}
                BY <2>3, <3>4, ByFacts DEF KeptBy
            <4> QED BY <2>7, <2>8, <2>9, <2>10, <3>4, <4>1
        <3>5. CASE g.gid \in Gids(Kickstart(snap))
            <4>1. g.gid \in kick
                BY <2>3, <2>7, <3>5, ByFacts DEF Gids, Kickstart, KeptBy
            <4> QED BY <2>8, <4>1
        <3> QED BY <3>1, <3>2, <3>3, <3>4, <3>5 DEF CreatesGroup
    <2>13. Listed(snap.users, host.users, "uid") /\ Listed(snap.groups, host.groups, "gid")
        BY <1>1, <2>1, ListedFacts
    <2> QED BY <2>7, <2>11, <2>12, <2>13 DEF AccountsExist
<1>2. WholeInv => AccountsExist
    BY <1>1 DEF AccountsExist
<1> QED BY <1>2, WholeInvariant, PTL
-----------------------------------------------------------------------------
(* Where the files of the sections come from                               *)

(* x has the path of the file f of the host, and its text, as far as it can *)
(* be decoded, but for a note.                                             *)
Origin(x, f) ==
    x.path = f.path /\ (x.text.of = Read(f).of \/ x.text.of = Append(Read(f).of, "note"))

(* A list of entries for the files of a set.                               *)
EntriesFor(list, files) ==
    /\ IsList(list)
    /\ \A x \in ToSet(list) : \E f \in files : Origin(x, f)
    /\ \A f \in files : \E x \in ToSet(list) : Origin(x, f)

LEMMA EntriesFound ==
    ASSUME NEW files, IsList(files), NEW t, NEW kind, NEW notes,
           t = [i \in DOMAIN files |-> ConfigFileEntry(files[i].path, kind, Captured(files[i], notes))]
    PROVE  EntriesFor(t, ToSet(files))
<1>1. /\ t = [i \in DOMAIN files |-> t[i]]
      /\ \A i \in DOMAIN files : t[i] = ConfigFileEntry(files[i].path, kind, Captured(files[i], notes))
    OBVIOUS
<1>2. \A i \in DOMAIN files : Origin(t[i], files[i])
    <2> TAKE i \in DOMAIN files
    <2>1. PICK f, n : f = files[i] /\ n = Captured(f, notes)
        OBVIOUS
    <2>2. n.of = Read(f).of \/ n.of = Append(Read(f).of, "note")
        BY <2>1 DEF Captured, Text
    <2>3. t[i] = ConfigFileEntry(f.path, kind, n)
        BY <1>1, <2>1
    <2>4. t[i].path = f.path /\ t[i].text = n
        BY <2>3 DEF ConfigFileEntry
    <2> QED BY <2>1, <2>2, <2>4 DEF Origin
<1>3. IsList(t) /\ DOMAIN t = DOMAIN files
    BY <1>1, MapFacts
<1> QED BY <1>2, <1>3 DEF EntriesFor, ToSet

LEMMA EntriesConcatenated ==
    ASSUME NEW s, NEW t, NEW S, NEW T, EntriesFor(s, S), EntriesFor(t, T)
    PROVE  EntriesFor(s \o t, S \cup T)
<1>1. IsList(s \o t) /\ ToSet(s \o t) = ToSet(s) \cup ToSet(t)
    BY Concatenation DEF EntriesFor
<1> QED BY <1>1 DEF EntriesFor

ModifiedFiles(h)     == {f \in ToSet(h.files) : f.modified}
UnownedFiles(h, o)   == {f \in ToSet(h.files) : /\ f.path.top = "etc" /\ ~f.modified /\ ~Owned(f, o)
                                                /\ ~ExcludedUnowned(f.path)}
OrphanedFiles(h, o)  == {f \in ToSet(h.files) : /\ f.path.top = "etc" /\ ~f.modified /\ ~Owned(f, o)
                                                /\ ExcludedUnowned(f.path)
                                                /\ \E p \in h.removed : Mentions(f.path, p)}
ConfigFilesOf(h, o)  == (ModifiedFiles(h) \cup UnownedFiles(h, o)) \cup OrphanedFiles(h, o)

LEMMA ConfigListsAre ==
    ASSUME NEW h \in Hosts, NEW o, NEW modified, modified = Select(h.files, LAMBDA f : f.modified)
    PROVE  /\ IsList(modified) /\ ToSet(modified) = ModifiedFiles(h)
           /\ IsList(Unowned(h, o)) /\ ToSet(Unowned(h, o)) = UnownedFiles(h, o)
           /\ IsList(Orphaned(h, o)) /\ ToSet(Orphaned(h, o)) = OrphanedFiles(h, o)
<1> DEFINE etc == {n \in DOMAIN h.files : h.files[n].path.top = "etc"}
           inEtc == Picked(h.files, etc)
           mod == {n \in DOMAIN h.files : h.files[n].modified}
           uno == {n \in DOMAIN inEtc : ~inEtc[n].modified /\ ~Owned(inEtc[n], o) /\ ~ExcludedUnowned(inEtc[n].path)}
           orp == {n \in DOMAIN inEtc : /\ ~inEtc[n].modified /\ ~Owned(inEtc[n], o)
                                        /\ ExcludedUnowned(inEtc[n].path)
                                        /\ \E p \in h.removed : Mentions(inEtc[n].path, p)}
           E == {f \in ToSet(h.files) : f.path.top = "etc"}
<1>1. IsList(h.files)
    BY ListsOfHost
<1>2. IsList(inEtc) /\ ToSet(inEtc) = E
    <2>1. \A n \in DOMAIN h.files : n \in etc <=> h.files[n] \in E
        BY DEF ToSet
    <2>2. etc \subseteq DOMAIN h.files /\ ToSet(h.files) \cap E = E
        OBVIOUS
    <2> HIDE DEF etc, E
    <2> QED BY <1>1, <2>1, <2>2, PickedSet
<1>3. modified = Picked(h.files, mod)
    BY DEF Select
<1>4. Unowned(h, o) = Picked(inEtc, uno) /\ Orphaned(h, o) = Picked(inEtc, orp)
    BY DEF Unowned, Orphaned, InEtc, Select
<1>5. IsList(modified) /\ ToSet(modified) = ModifiedFiles(h)
    <2>1. \A n \in DOMAIN h.files : n \in mod <=> h.files[n] \in ModifiedFiles(h)
        BY DEF ToSet, ModifiedFiles
    <2>2. mod \subseteq DOMAIN h.files /\ ToSet(h.files) \cap ModifiedFiles(h) = ModifiedFiles(h)
        BY DEF ModifiedFiles
    <2> HIDE DEF mod
    <2> QED BY <1>1, <1>3, <2>1, <2>2, PickedSet
<1>6. IsList(Unowned(h, o)) /\ ToSet(Unowned(h, o)) = UnownedFiles(h, o)
    <2> HIDE DEF inEtc
    <2>1. \A n \in DOMAIN inEtc : inEtc[n] \in ToSet(h.files) /\ inEtc[n].path.top = "etc"
        BY <1>2 DEF ToSet
    <2>2. \A n \in DOMAIN inEtc : n \in uno <=> inEtc[n] \in UnownedFiles(h, o)
        BY <2>1 DEF UnownedFiles
    <2>3. uno \subseteq DOMAIN inEtc /\ ToSet(inEtc) \cap UnownedFiles(h, o) = UnownedFiles(h, o)
        BY <1>2 DEF UnownedFiles
    <2> HIDE DEF uno
    <2>4. IsList(inEtc) /\ uno \subseteq DOMAIN inEtc
        BY <1>2, <2>3
    <2>5. PICK S : S = UnownedFiles(h, o)
        OBVIOUS
    <2>6. IsList(Picked(inEtc, uno)) /\ ToSet(Picked(inEtc, uno)) = ToSet(inEtc) \cap S
        BY <2>2, <2>4, <2>5, PickedSet
    <2> QED BY <1>4, <2>3, <2>5, <2>6
<1>7. IsList(Orphaned(h, o)) /\ ToSet(Orphaned(h, o)) = OrphanedFiles(h, o)
    <2> HIDE DEF inEtc
    <2>1. \A n \in DOMAIN inEtc : inEtc[n] \in ToSet(h.files) /\ inEtc[n].path.top = "etc"
        BY <1>2 DEF ToSet
    <2>2. \A n \in DOMAIN inEtc : n \in orp <=> inEtc[n] \in OrphanedFiles(h, o)
        BY <2>1 DEF OrphanedFiles
    <2>3. orp \subseteq DOMAIN inEtc /\ ToSet(inEtc) \cap OrphanedFiles(h, o) = OrphanedFiles(h, o)
        BY <1>2 DEF OrphanedFiles
    <2> HIDE DEF orp
    <2>4. IsList(inEtc) /\ orp \subseteq DOMAIN inEtc
        BY <1>2, <2>3
    <2>5. PICK S : S = OrphanedFiles(h, o)
        OBVIOUS
    <2>6. IsList(Picked(inEtc, orp)) /\ ToSet(Picked(inEtc, orp)) = ToSet(inEtc) \cap S
        BY <2>2, <2>4, <2>5, PickedSet
    <2> QED BY <1>4, <2>3, <2>5, <2>6
<1> QED BY <1>5, <1>6, <1>7

LEMMA ConfigFound ==
    ASSUME NEW h \in Hosts, NEW s, IsSnapshot(s), NEW o, NEW u
    PROVE  EntriesFor(RunConfig(s, h, o, u).config, ConfigFilesOf(h, o))
<1> DEFINE entries(files, kind, notes) ==
            [i \in DOMAIN files |-> ConfigFileEntry(files[i].path, kind, Captured(files[i], notes))]
           t == RunConfig(s, h, o, u)
<1>1. PICK m, un, orph : /\ m = Select(h.files, LAMBDA f : f.modified)
                         /\ un = Unowned(h, o) /\ orph = Orphaned(h, o)
    OBVIOUS
<1>2. /\ IsList(m) /\ ToSet(m) = ModifiedFiles(h)
      /\ IsList(un) /\ ToSet(un) = UnownedFiles(h, o)
      /\ IsList(orph) /\ ToSet(orph) = OrphanedFiles(h, o)
    BY <1>1, ConfigListsAre
<1>3. PICK a, b, c : /\ a = entries(m, "rpm_owned_modified", u) /\ b = entries(un, "unowned", {})
                     /\ c = entries(orph, "orphaned", {})
    OBVIOUS
<1>4. t = [s EXCEPT !.config = a \o b \o c]
    BY <1>1, <1>3 DEF RunConfig
<1>5. t.config = a \o b \o c
    BY <1>4 DEF IsSnapshot, Parts, Lists
<1>6. EntriesFor(a, ModifiedFiles(h)) /\ EntriesFor(b, UnownedFiles(h, o)) /\ EntriesFor(c, OrphanedFiles(h, o))
    BY <1>2, <1>3, EntriesFound
<1>7. EntriesFor(a \o b, ModifiedFiles(h) \cup UnownedFiles(h, o))
    BY <1>6, EntriesConcatenated
<1>8. EntriesFor((a \o b) \o c, ConfigFilesOf(h, o))
    BY <1>6, <1>7, EntriesConcatenated DEF ConfigFilesOf
<1> QED BY <1>5, <1>8

LEMMA ItemsEntries ==
    ASSUME NEW list, IsList(list), NEW files, ToSet(list) = ItemsOf(files)
    PROVE  EntriesFor(list, files)
<1>1. \A f \in files : Origin(Item(f.path, Read(f)), f)
    BY DEF Origin, Item
<1>2. ToSet(list) = {Item(f.path, Read(f)) : f \in files}
    BY DEF ItemsOf
<1> QED BY <1>1, <1>2 DEF EntriesFor

LEMMA KernelFound ==
    ASSUME NEW h \in Hosts, NEW s, IsSnapshot(s)
    PROVE  LET t == RunKernel(s, h)
           IN  /\ EntriesFor(t.snippets, SnippetFiles(h)) /\ EntriesFor(t.tuned_profiles, TunedFiles(h))
               /\ t.cmdline = h.cmdline
<1> DEFINE t == RunKernel(s, h)
           lists == [i \in DOMAIN SnippetDirs |-> Items(FilesIn(h, SnippetDirs[i], {"conf"}))]
<1>1. DOMAIN SnippetDirs = 1..3 /\ SnippetDirs[1] = "modules-load.d" /\ SnippetDirs[2] = "modprobe.d"
      /\ SnippetDirs[3] = "dracut.conf.d"
    BY DEF SnippetDirs
<1>2. PICK tuned, snippets : tuned = Items(FilesIn(h, "tuned/*", {"conf"})) /\ snippets = FlattenSeq(lists)
    OBVIOUS
<1>3. /\ t.cmdline = h.cmdline /\ t.snippets = snippets /\ t.tuned_profiles = tuned
    <2>1. PICK x : t = [s EXCEPT !.cmdline = h.cmdline, !.sysctl_overrides = x,
                                 !.snippets = snippets, !.tuned_profiles = tuned]
        BY <1>2 DEF RunKernel
    <2> HIDE DEF t
    <2> QED BY <2>1 DEF IsSnapshot, Parts, Lists
<1>4. EntriesFor(tuned, TunedFiles(h))
    BY <1>2, FilesInAre, ItemsEntries DEF TunedFiles
<1>5. \A i \in 1..3 : lists[i] = Items(FilesIn(h, SnippetDirs[i], {"conf"}))
    BY <1>1
<1>6. lists = [i \in 1..3 |-> lists[i]]
    BY <1>1
<1> HIDE DEF lists, t
<1>7. IsList(lists) /\ DOMAIN lists = 1..3
    BY <1>6, ListOf
<1>8. \A i \in 1..3 : IsList(lists[i]) /\ ToSet(lists[i]) = ItemsOf(FilesThere(h, SnippetDirs[i], {"conf"}))
    BY <1>5, FilesInAre
<1>9. IsList(snippets) /\ ToSet(snippets) = UNION {ToSet(lists[i]) : i \in 1..3}
    BY <1>2, <1>7, <1>8, FlattenFacts
<1>10. ToSet(snippets) = (ToSet(lists[1]) \cup ToSet(lists[2])) \cup ToSet(lists[3])
    BY <1>9
<1>11. PICK A, B, C : /\ A = FilesThere(h, "modules-load.d", {"conf"}) /\ B = FilesThere(h, "modprobe.d", {"conf"})
                      /\ C = FilesThere(h, "dracut.conf.d", {"conf"})
    OBVIOUS
<1>12. ToSet(lists[1]) = ItemsOf(A) /\ ToSet(lists[2]) = ItemsOf(B) /\ ToSet(lists[3]) = ItemsOf(C)
    BY <1>1, <1>8, <1>11
<1>13. SnippetFiles(h) = (A \cup B) \cup C
    BY <1>11 DEF SnippetFiles
<1>14. ToSet(snippets) = ItemsOf((A \cup B) \cup C)
    BY <1>10, <1>12 DEF ItemsOf
<1>15. EntriesFor(snippets, SnippetFiles(h))
    BY <1>9, <1>13, <1>14, ItemsEntries
<1> QED BY <1>3, <1>4, <1>15 DEF t

LEMMA EnvFound ==
    ASSUME NEW h \in Hosts, NEW s, IsSnapshot(s)
    PROVE  EntriesFor(RunSoftware(s, h).env_files, EnvFiles(h))
<1> DEFINE envs == {n \in DOMAIN h.files : h.files[n].path.top = "opt" /\ h.files[n].path.name \in EnvFileNames}
<1>1. IsList(h.files)
    BY ListsOfHost
<1>2. \A n \in DOMAIN h.files : n \in envs <=> h.files[n] \in EnvFiles(h)
    BY DEF EnvFiles, ToSet
<1>3. PICK e : e = Items(Picked(h.files, envs))
    OBVIOUS
<1>4. PICK x : RunSoftware(s, h) = [s EXCEPT !.items = x, !.env_files = e]
    BY <1>3 DEF RunSoftware, Select
<1>5. envs \subseteq DOMAIN h.files /\ ToSet(h.files) \cap EnvFiles(h) = EnvFiles(h)
    BY DEF EnvFiles
<1> HIDE DEF envs
<1>6. IsList(Picked(h.files, envs)) /\ ToSet(Picked(h.files, envs)) = EnvFiles(h)
    BY <1>1, <1>2, <1>5, PickedSet
<1>7. EntriesFor(e, EnvFiles(h))
    BY <1>3, <1>6, ItemsAre, ItemsEntries
<1> QED BY <1>4, <1>7 DEF IsSnapshot, Parts, Lists

(* Drop-ins are of units of packages: where there are some, units are listed. *)
LEMMA ServicesFound ==
    ASSUME NEW h \in Hosts, NEW s, IsSnapshot(s), s.drop_ins = <<>>, NEW base, NEW lists, NEW answers
    PROVE  EntriesFor(RunServices(s, h, base, lists, answers).drop_ins, DropFiles(h))
<1> DEFINE t == RunServices(s, h, base, lists, answers)
           current == IF lists THEN ListUnitFiles(h) ELSE ScanUnitFiles(h)
<1>1. CASE DOMAIN current = {}
    <2>1. t = s
        BY <1>1 DEF RunServices
    <2>2. DropFiles(h) = {}
        <3>1. SUFFICES ASSUME NEW f \in DropFiles(h) PROVE FALSE
            OBVIOUS
        <3>2. \E i \in DOMAIN h.files : h.files[i].path.dir = "systemd/system/*.d"
            BY <3>1 DEF DropFiles, FilesThere, ToSet
        <3>3. \E v \in DOMAIN h.units : h.units[v].owner # None
            BY <3>2, HostAssumption
        <3>4. DOMAIN current # {}
            BY <3>3 DEF ListUnitFiles, ScanUnitFiles, IsLocal
        <3> QED BY <1>1, <3>4
    <2>3. t.drop_ins = <<>>
        BY <2>1
    <2>4. IsList(t.drop_ins) /\ ToSet(t.drop_ins) = {}
        BY <2>3, EmptyList
    <2> QED BY <2>2, <2>4 DEF EntriesFor
<1>2. CASE DOMAIN current # {}
    <2>1. \E c, e, d : t = [s EXCEPT !.state_changes = c, !.enabled_units = e,
                                     !.disabled_units = d, !.drop_ins = DropIns(h)]
        BY <1>2 DEF RunServices
    <2> HIDE DEF t
    <2>2. t.drop_ins = DropIns(h)
        BY <2>1 DEF IsSnapshot, Parts, Lists
    <2>3. EntriesFor(DropIns(h), DropFiles(h))
        BY DropInsFound, ItemsEntries
    <2> QED BY <2>2, <2>3 DEF t
<1> QED BY <1>1, <1>2

(* The files of the host a section of files is made of.                    *)
SectionFiles(h, a, d) ==
    CASE d = "config"         -> ConfigFilesOf(h, "paths" \in a)
      [] d = "repo_files"     -> RepoFiles(h)
      [] d = "gpg_keys"       -> KeyFiles(h)
      [] d = "firewall_zones" -> ZoneFiles(h)
      [] d = "drop_ins"       -> DropFiles(h)
      [] d = "tuned_profiles" -> TunedFiles(h)
      [] d = "snippets"       -> SnippetFiles(h)
      [] OTHER                -> EnvFiles(h)

LEMMA SectionsFound ==
    ASSUME NEW h \in Hosts, NEW a, NEW u, NEW o
    PROVE  /\ \A d \in FileSections : EntriesFor(Found(h, a, u, o)[d], SectionFiles(h, a, d))
           /\ ToSet(Found(h, a, u, o).connections)
                = {NMConnection(f.path, ConnectionMethod(h.methods[f.path])) : f \in ProfileFiles(h)}
           /\ Found(h, a, u, o).cmdline = h.cmdline
<1>1. PICK s0, s1, s2, s3, s4, s5, s6, s7, s8 :
            /\ s0 = Found0(h) /\ s1 = Found1(h, a, u) /\ s2 = Found2(h, a, u) /\ s3 = Found3(h, a, u)
            /\ s4 = Found4(h, a, u) /\ s5 = Found5(h, a, u) /\ s6 = Found6(h, a, u)
            /\ s7 = Found7(h, a, u) /\ s8 = Found(h, a, u, o)
    OBVIOUS
<1>2. /\ IsSnapshot(s0) /\ IsSnapshot(s1) /\ IsSnapshot(s2) /\ IsSnapshot(s3) /\ IsSnapshot(s4)
      /\ IsSnapshot(s5) /\ IsSnapshot(s6) /\ IsSnapshot(s7)
    BY <1>1, FoundSnapshots
<1>3. /\ \A d \in {"config", "repo_files", "gpg_keys"} : s8[d] = s1[d]
      /\ s8["drop_ins"] = s2["drop_ins"]
      /\ \A d \in {"connections", "firewall_zones"} : s8[d] = s3[d]
      /\ s8["env_files"] = s6["env_files"]
      /\ \A d \in {"cmdline", "snippets", "tuned_profiles"} : s8[d] = s7[d]
    BY <1>1, FoundSections
<1>4. EntriesFor(s1.config, ConfigFilesOf(h, "paths" \in a))
      /\ EntriesFor(s1.repo_files, RepoFiles(h)) /\ EntriesFor(s1.gpg_keys, KeyFiles(h))
    <2>1. PICK owned, r : owned = ("paths" \in a) /\ r = RunConfig(s0, h, owned, u)
        OBVIOUS
    <2>2. s1 = RunRepos(r, h)
        BY <1>1, <2>1 DEF Found1
    <2>3. IsSnapshot(r)
        BY <1>2, <2>1, ConfigSnapshot
    <2>4. EntriesFor(r.config, ConfigFilesOf(h, owned))
        BY <1>2, <2>1, ConfigFound
    <2>5. ToSet(s1.repo_files) = ItemsOf(RepoFiles(h)) /\ ToSet(s1.gpg_keys) = ItemsOf(KeyFiles(h))
          /\ s1.config = r.config
        BY <2>2, <2>3, ReposFound
    <2>6. IsList(s1.repo_files) /\ IsList(s1.gpg_keys)
        BY <1>2 DEF IsSnapshot, Records, Lists
    <2> QED BY <2>1, <2>4, <2>5, <2>6, ItemsEntries
<1>5. EntriesFor(s2.drop_ins, DropFiles(h))
    <2>1. s1["drop_ins"] = <<>>
        <3>1. \A d \in Parts \ {"config", "repo_files", "gpg_keys"} : s1[d] = s0[d]
            <4>1. PICK owned : owned = ("paths" \in a)
                OBVIOUS
            <4>2. s1 = RunRepos(RunConfig(s0, h, owned, u), h)
                BY <1>1, <4>1 DEF Found1
            <4> QED BY <1>2, <4>2, OwnConfig
        <3>2. s0["drop_ins"] = <<>>
            BY <1>1, Found0IsSnapshot DEF Parts, Lists, EmptySnapshot
        <3> QED BY <3>1, <3>2 DEF Parts, Lists
    <2>2. PICK base, lists, answers : base = (IF "presets" \in a THEN h.base_presets ELSE None)
                /\ lists = ("systemctl" \in a) /\ answers = ("owners" \in a)
        OBVIOUS
    <2>3. s2 = RunServices(s1, h, base, lists, answers)
        BY <1>1, <2>2 DEF Found2
    <2> QED BY <1>2, <2>1, <2>3, ServicesFound
<1>6. /\ EntriesFor(s3.firewall_zones, ZoneFiles(h))
      /\ ToSet(s3.connections) = {NMConnection(f.path, ConnectionMethod(h.methods[f.path])) : f \in ProfileFiles(h)}
    <2>1. s3 = RunNetwork(s2, h)
        BY <1>1 DEF Found3
    <2>2. IsList(s3.firewall_zones)
        BY <1>2 DEF IsSnapshot, Records, Lists
    <2> QED BY <1>2, <2>1, <2>2, NetworkFound, ItemsEntries
<1>7. EntriesFor(s6.env_files, EnvFiles(h))
    BY <1>1, <1>2, EnvFound DEF Found6
<1>8. EntriesFor(s7.snippets, SnippetFiles(h)) /\ EntriesFor(s7.tuned_profiles, TunedFiles(h))
      /\ s7.cmdline = h.cmdline
    BY <1>1, <1>2, KernelFound DEF Found7
<1>9. \A d \in FileSections : EntriesFor(s8[d], SectionFiles(h, a, d))
    BY <1>3, <1>4, <1>5, <1>6, <1>7, <1>8 DEF FileSections, SectionFiles
<1> QED BY <1>1, <1>3, <1>6, <1>8, <1>9

(* x of a section is the file f of the host, as it was found and redacted. *)
Taken(x, f) ==
    /\ x.path = f.path
    /\ \/ x.text.of = Read(f).of \/ x.text.of = Append(Read(f).of, "note")
       \/ IsExcludedPath(f.path) /\ x.text = ExcludedPlaceholder

LEMMA LikeTaken ==
    ASSUME NEW x, NEW y, Like(x, y), {"path", "text"} \subseteq DOMAIN y, NEW f, Origin(y, f)
    PROVE  Taken(x, f)
<1>1. x.path = y.path
    BY DEF Like, Marked
<1>2. x.text.of = y.text.of \/ (IsExcludedPath(y.path) /\ x.text = ExcludedPlaceholder)
    BY DEF Like
<1> QED BY <1>1, <1>2 DEF Taken, Origin

LEMMA AlikeTaken ==
    ASSUME NEW list, NEW found, LikeAll(list, found), Records(found, {"path", "text", "include"}),
           NEW files, EntriesFor(found, files)
    PROVE  /\ \A x \in ToSet(list) : \E f \in files : Taken(x, f)
           /\ \A f \in files : \E x \in ToSet(list) : Taken(x, f)
<1>1. \A i \in DOMAIN found : {"path", "text"} \subseteq DOMAIN found[i]
    BY DEF Records, ToSet
<1>2. DOMAIN list = DOMAIN found /\ \A i \in DOMAIN found : Like(list[i], found[i])
    BY DEF LikeAll
<1>3. ASSUME NEW x \in ToSet(list) PROVE \E f \in files : Taken(x, f)
    <2>1. PICK i \in DOMAIN list : x = list[i]
        BY DEF ToSet
    <2>2. PICK y : y = found[i]
        OBVIOUS
    <2>3. y \in ToSet(found)
        BY <1>2, <2>1, <2>2 DEF ToSet
    <2>4. PICK f \in files : Origin(y, f)
        BY <2>3 DEF EntriesFor
    <2> QED BY <1>1, <1>2, <2>1, <2>2, <2>4, LikeTaken
<1>4. ASSUME NEW f \in files PROVE \E x \in ToSet(list) : Taken(x, f)
    <2>1. PICK y \in ToSet(found) : Origin(y, f)
        BY DEF EntriesFor
    <2>2. PICK i \in DOMAIN found : y = found[i]
        BY <2>1 DEF ToSet
    <2>3. Taken(list[i], f)
        BY <1>1, <1>2, <2>1, <2>2, LikeTaken
    <2>4. list[i] \in ToSet(list)
        BY <1>2 DEF ToSet
    <2> QED BY <2>3, <2>4
<1> QED BY <1>3, <1>4

(* From the first rendering on, every file in the snapshot is of the host. *)
LEMMA SnapSections ==
    ASSUME WholeInv, Reported, NEW d \in FileSections
    PROVE  /\ \A x \in ToSet(snap[d]) : \E f \in SectionFiles(host, answered, d) : Taken(x, f)
           /\ \A f \in SectionFiles(host, answered, d) : \E x \in ToSet(snap[d]) : Taken(x, f)
<1>1. PICK u \in {{}, Modified} : InspectedAs(u)
    BY DEF WholeInv, InspectedInv
<1>2. PICK o \in Overrides : Alike(snap, Found(host, answered, u, o))
    BY <1>1 DEF InspectedAs
<1>3. PICK h, a, s, t : h = host /\ a = answered /\ s = snap /\ t = Found(h, a, u, o)
    OBVIOUS
<1>4. h \in Hosts /\ Alike(s, t)
    BY <1>2, <1>3 DEF WholeInv, MigrationInv
<1>5. d \in Lists \ {"redactions", "cmdline"}
    BY DEF FileSections, Lists
<1>6. LikeAll(s[d], t[d])
    BY <1>4, <1>5 DEF Alike
<1>7. EntriesFor(t[d], SectionFiles(h, a, d))
    BY <1>3, <1>4, SectionsFound
<1>8. Records(t[d], {"path", "text", "include"})
    <2>1. IsSnapshot(t)
        BY <1>3, <1>4, FoundSnapshots
    <2>2. Fields(d) = {"path", "text", "include"}
        BY FieldsAre DEF FileSections
    <2> QED BY <1>5, <2>1, <2>2 DEF IsSnapshot
<1>9. PICK files : files = SectionFiles(h, a, d)
    OBVIOUS
<1>10. /\ \A x \in ToSet(s[d]) : \E f \in files : Taken(x, f)
       /\ \A f \in files : \E x \in ToSet(s[d]) : Taken(x, f)
    BY <1>6, <1>7, <1>8, <1>9, AlikeTaken
<1> QED BY <1>3, <1>9, <1>10

LEMMA SnapConnections ==
    ASSUME WholeInv, Reported
    PROVE  /\ \A c \in ToSet(snap.connections) : \E f \in ProfileFiles(host) :
                c.path = f.path /\ c.method = ConnectionMethod(host.methods[f.path])
           /\ \A f \in ProfileFiles(host) : \E c \in ToSet(snap.connections) :
                c.path = f.path /\ c.method = ConnectionMethod(host.methods[f.path])
           /\ snap.cmdline = host.cmdline
<1>1. PICK u \in {{}, Modified} : InspectedAs(u)
    BY DEF WholeInv, InspectedInv
<1>2. PICK o \in Overrides : Alike(snap, Found(host, answered, u, o))
    BY <1>1 DEF InspectedAs
<1>3. PICK h, a, s, t : h = host /\ a = answered /\ s = snap /\ t = Found(h, a, u, o)
    OBVIOUS
<1>4. h \in Hosts /\ Alike(s, t)
    BY <1>2, <1>3 DEF WholeInv, MigrationInv
<1>5. LikeAll(s.connections, t.connections) /\ s.cmdline = t.cmdline
    BY <1>4 DEF Alike, Lists
<1>6. PICK P : P = {NMConnection(f.path, ConnectionMethod(h.methods[f.path])) : f \in ProfileFiles(h)}
    OBVIOUS
<1>7. ToSet(t.connections) = P /\ t.cmdline = h.cmdline
    BY <1>3, <1>4, <1>6, SectionsFound
<1>8. /\ \A y \in P : \E f \in ProfileFiles(h) :
                y.path = f.path /\ y.method = ConnectionMethod(h.methods[f.path])
      /\ \A f \in ProfileFiles(h) : \E y \in P :
                y.path = f.path /\ y.method = ConnectionMethod(h.methods[f.path])
      /\ \A y \in P : {"path", "method"} \subseteq DOMAIN y
    <2>1. \A p, m : /\ NMConnection(p, m).path = p /\ NMConnection(p, m).method = m
                    /\ {"path", "method"} \subseteq DOMAIN NMConnection(p, m)
        BY DEF NMConnection
    <2>2. \A y \in P : \E f \in ProfileFiles(h) : y = NMConnection(f.path, ConnectionMethod(h.methods[f.path]))
        BY <1>6
    <2>3. \A f \in ProfileFiles(h) : NMConnection(f.path, ConnectionMethod(h.methods[f.path])) \in P
        BY <1>6
    <2>4. \A y \in P : \E f \in ProfileFiles(h) :
                y.path = f.path /\ y.method = ConnectionMethod(h.methods[f.path])
        BY <2>1, <2>2
    <2>5. \A f \in ProfileFiles(h) : \E y \in P :
                y.path = f.path /\ y.method = ConnectionMethod(h.methods[f.path])
        <3> TAKE f \in ProfileFiles(h)
        <3>1. PICK y : y = NMConnection(f.path, ConnectionMethod(h.methods[f.path]))
            OBVIOUS
        <3> QED BY <2>1, <2>3, <3>1
    <2> QED BY <2>1, <2>2, <2>4, <2>5
<1>9. PICK c, e : c = s.connections /\ e = t.connections
    OBVIOUS
<1>10. DOMAIN c = DOMAIN e /\ \A i \in DOMAIN e : Like(c[i], e[i])
    BY <1>5, <1>9 DEF LikeAll
<1>11. \A i \in DOMAIN e : e[i] \in P /\ c[i].path = e[i].path /\ c[i].method = e[i].method
    <2> TAKE i \in DOMAIN e
    <2>1. e[i] \in P
        BY <1>7, <1>9 DEF ToSet
    <2> QED BY <1>8, <1>10, <2>1 DEF Like, Marked
<1>12. ASSUME NEW x \in ToSet(c)
       PROVE  \E f \in ProfileFiles(h) : x.path = f.path /\ x.method = ConnectionMethod(h.methods[f.path])
    <2>1. PICK i \in DOMAIN c : x = c[i]
        BY DEF ToSet
    <2> QED BY <1>8, <1>10, <1>11, <2>1
<1>13. ASSUME NEW f \in ProfileFiles(h)
       PROVE  \E x \in ToSet(c) : x.path = f.path /\ x.method = ConnectionMethod(h.methods[f.path])
    <2>1. PICK y \in P : y.path = f.path /\ y.method = ConnectionMethod(h.methods[f.path])
        BY <1>8
    <2>2. PICK i \in DOMAIN e : y = e[i]
        BY <1>7, <1>9, <2>1 DEF ToSet
    <2>3. c[i] \in ToSet(c)
        BY <1>10, <2>2 DEF ToSet
    <2> QED BY <1>11, <2>1, <2>2, <2>3
<1> QED BY <1>3, <1>5, <1>7, <1>9, <1>12, <1>13

(* Nothing of the other sections is a network profile or next to a quadlet. *)
LEMMA NotBehind ==
    ASSUME NEW h, NEW a, NEW d \in FileSections \ {"config"}, NEW f \in SectionFiles(h, a, d)
    PROVE  ~(f.path.top = "etc" /\ f.path.dir = QuadletDir) /\ ~IsProfile(f.path)
<1>1. \/ f.path.dir \in {"yum.repos.d", "dnf", "pki/rpm-gpg", "firewalld/zones", "systemd/system/*.d",
                         "tuned/*", "modules-load.d", "modprobe.d", "dracut.conf.d"}
      \/ f.path.top = "opt"
    BY DEF SectionFiles, FileSections, RepoFiles, IsRepoFile, KeyFiles, ZoneFiles, DropFiles, TunedFiles,
           SnippetFiles, EnvFiles, FilesThere
<1> QED BY <1>1 DEF QuadletDir, IsProfile

LEMMA SectionsOfHost ==
    ASSUME NEW h, NEW a, NEW d \in FileSections
    PROVE  SectionFiles(h, a, d) \subseteq ToSet(h.files)
BY DEF SectionFiles, FileSections, RepoFiles, KeyFiles, ZoneFiles, DropFiles, TunedFiles,
       SnippetFiles, EnvFiles, FilesThere, ConfigFilesOf, ModifiedFiles, UnownedFiles, OrphanedFiles
-----------------------------------------------------------------------------
(* Nothing unasked                                                         *)

LEMMA QuadletsAre ==
    ASSUME NEW s, IsList(s.quadlet_units), NEW t, t = WriteQuadlets(s)
    PROVE  /\ \A p \in DOMAIN t : \E q \in ToSet(Kept(s.quadlet_units)) :
                /\ q.text # NoText /\ p = Path("etc", QuadletDir, q.path.name) /\ t[p] = q.text
           /\ \A q \in ToSet(Kept(s.quadlet_units)) : q.text # NoText =>
                Path("etc", QuadletDir, q.path.name) \in DOMAIN t
<1> DEFINE kept == Kept(s.quadlet_units)
           places == {n \in DOMAIN kept : kept[n].text # NoText}
           units == Picked(kept, places)
           c == [i \in DOMAIN units |-> File(Path("etc", QuadletDir, units[i].path.name), units[i].text)]
<1>1. t = Written(c)
    BY DEF WriteQuadlets, Select
<1>2. IsList(kept)
    BY KeptFacts
<1>3. c = [i \in DOMAIN units |-> c[i]]
      /\ \A i \in DOMAIN units : c[i].path = Path("etc", QuadletDir, units[i].path.name)
                                 /\ c[i].text = units[i].text
    BY DEF File
<1> HIDE DEF c
<1>4. IsList(units) /\ ToSet(units) = {q \in ToSet(kept) : q.text # NoText}
    <2> DEFINE S == {q \in ToSet(kept) : q.text # NoText}
    <2> HIDE DEF kept
    <2>1. \A n \in DOMAIN kept : n \in places <=> kept[n] \in S
        BY DEF ToSet
    <2>2. places \subseteq DOMAIN kept /\ ToSet(kept) \cap S = S
        OBVIOUS
    <2> HIDE DEF places, S
    <2> QED BY <1>2, <2>1, <2>2, PickedSet DEF S
<1> HIDE DEF kept, units
<1>5. IsList(c) /\ DOMAIN c = DOMAIN units
    BY <1>3, <1>4, MapFacts
<1>6. /\ DOMAIN t = {f.path : f \in ToSet(c)}
      /\ \A p \in DOMAIN t : \E f \in ToSet(c) : f.path = p /\ t[p] = f.text
    <2>1. /\ DOMAIN Written(c) = {f.path : f \in ToSet(c)}
          /\ \A p \in DOMAIN Written(c) : \E f \in ToSet(c) : f.path = p /\ Written(c)[p] = f.text
        BY <1>5, WrittenFacts
    <2> QED BY ONLY <1>1, <2>1
<1>7. \A f \in ToSet(c) : \E q \in ToSet(units) :
            f.path = Path("etc", QuadletDir, q.path.name) /\ f.text = q.text
    BY <1>3, <1>5 DEF ToSet
<1>8. \A q \in ToSet(units) : \E f \in ToSet(c) :
            f.path = Path("etc", QuadletDir, q.path.name) /\ f.text = q.text
    BY <1>3, <1>5 DEF ToSet
<1>9. \A p \in DOMAIN t : \E q \in ToSet(units) : p = Path("etc", QuadletDir, q.path.name) /\ t[p] = q.text
    BY <1>6, <1>7
<1>10. \A q \in ToSet(units) : Path("etc", QuadletDir, q.path.name) \in DOMAIN t
    BY <1>6, <1>8
<1> QED BY <1>4, <1>9, <1>10 DEF kept

(* The ways a file can have been asked for.                                *)
LEMMA AskedCases ==
    ASSUME NEW p,
           \/ p \in OfSections(Kept) /\ ~StaysBehind(p)
           \/ p \in StaticPaths(snap) \/ p \in ToolsOwn \/ p \in GeneratedUnits
           \/ \E t \in ToSet(snap.systemd_timers) : \E suffix \in {"timer", "service"} :
                p = UnitPath(Append(t.name, suffix))
           \/ \E q \in ToSet(Kept(snap.quadlet_units)) : p = Path("etc", QuadletDir, q.path.name)
           \/ \E i \in ToSet(Kept(snap.items)) : p = i.path
           \/ \E i \in ToSet(Kept(snap.items)) : \E j \in DOMAIN i.files : p = InDir(i.path, <<i.files[j].name>>)
    PROVE  p \in AskedFiles
<1> DEFINE A == {q \in OfSections(Kept) : ~StaysBehind(q)}
           B == {UnitPath(Append(t.name, suffix)) : suffix \in {"timer", "service"},
                    t \in ToSet(snap.systemd_timers)}
           C == {Path("etc", QuadletDir, q.path.name) : q \in ToSet(Kept(snap.quadlet_units))}
           D == Paths(Kept(snap.items))
           E == UNION {{InDir(i.path, <<i.files[j].name>>) : j \in DOMAIN i.files} :
                            i \in ToSet(Kept(snap.items))}
<1>1. AskedFiles = A \cup StaticPaths(snap) \cup ToolsOwn \cup GeneratedUnits \cup B \cup C \cup D \cup E
    BY DEF AskedFiles
<1>2. ASSUME \E i \in ToSet(Kept(snap.items)) : \E j \in DOMAIN i.files : p = InDir(i.path, <<i.files[j].name>>)
      PROVE  p \in E
    <2>1. PICK i \in ToSet(Kept(snap.items)) : \E j \in DOMAIN i.files : p = InDir(i.path, <<i.files[j].name>>)
        BY <1>2
    <2>2. p \in {InDir(i.path, <<i.files[j].name>>) : j \in DOMAIN i.files}
        BY <2>1
    <2> QED BY <2>1, <2>2
<1>3. ASSUME \E i \in ToSet(Kept(snap.items)) : p = i.path PROVE p \in D
    BY <1>3 DEF Paths
<1>4. ASSUME \E t \in ToSet(snap.systemd_timers) : \E suffix \in {"timer", "service"} :
                p = UnitPath(Append(t.name, suffix))
      PROVE  p \in B
    BY <1>4
<1>5. ASSUME \E q \in ToSet(Kept(snap.quadlet_units)) : p = Path("etc", QuadletDir, q.path.name)
      PROVE  p \in C
    BY <1>5
<1>6. ASSUME p \in OfSections(Kept) /\ ~StaysBehind(p) PROVE p \in A
    BY <1>6
<1> HIDE DEF A, B, C, D, E
<1> QED BY <1>1, <1>2, <1>3, <1>4, <1>5, <1>6

LEMMA OfKept ==
    ASSUME IsSnapshot(snap), NEW d \in FileSections, NEW x \in ToSet(snap[d]), x.include
    PROVE  x.path \in OfSections(Kept)
<1>1. IsList(snap[d])
    BY DEF IsSnapshot, Records, FileSections, Lists
<1>2. x \in ToSet(Kept(snap[d]))
    BY <1>1, KeptFacts
<1>3. x.path \in Paths(Kept(snap[d]))
    BY <1>2 DEF Paths
<1> QED BY <1>3 DEF OfSections

LEMMA ConfigAsked ==
    ASSUME WholeInv, Reported, NEW x \in ConfigKept(snap)
    PROVE  x.path \in AskedFiles
<1>1. /\ x \in ToSet(snap["config"]) /\ x.include /\ x.path \notin DhcpConnectionPaths(snap)
      /\ ~(x.path.top = "etc" /\ x.path.dir = QuadletDir)
    BY DEF ConfigKept
<1>2. IsSnapshot(snap) /\ "config" \in FileSections
    BY DEF WholeInv, MigrationInv, FileSections
<1>3. x.path \in OfSections(Kept)
    BY <1>1, <1>2, OfKept
<1>4. CASE ~IsProfile(x.path)
    BY <1>1, <1>3, <1>4, AskedCases DEF StaysBehind
<1>5. CASE IsProfile(x.path)
    <2>1. PICK f \in SectionFiles(host, answered, "config") : x.path = f.path
        BY <1>1, <1>2, SnapSections DEF Taken
    <2>2. f \in ToSet(host.files)
        BY <1>2, <2>1, SectionsOfHost
    <2>3. f \in ProfileFiles(host)
        BY <1>5, <2>1, <2>2 DEF ProfileFiles
    <2>4. PICK c \in ToSet(snap.connections) : c.path = x.path
        BY <2>1, <2>3, SnapConnections
    <2>5. x.path \in StaticPaths(snap)
        BY <1>1, <2>4 DEF DhcpConnectionPaths, StaticPaths
    <2> QED BY <2>5, AskedCases
<1> QED BY <1>4, <1>5

LEMMA SectionAsked ==
    ASSUME WholeInv, Reported, NEW d \in FileSections \ {"config"}, NEW y \in FilesOf(snap[d])
    PROVE  y.path \in AskedFiles
<1>1. PICK x \in ToSet(snap[d]) : x.include /\ y.path = x.path
    BY DEF FilesOf, File
<1>2. IsSnapshot(snap)
    BY DEF WholeInv, MigrationInv
<1>3. PICK f \in SectionFiles(host, answered, d) : x.path = f.path
    BY <1>1, SnapSections DEF Taken
<1>4. ~StaysBehind(x.path)
    BY <1>3, NotBehind DEF StaysBehind
<1>5. x.path \in OfSections(Kept)
    BY <1>1, <1>2, OfKept
<1> QED BY <1>1, <1>4, <1>5, AskedCases

LEMMA PairsAsked ==
    ASSUME NEW timers, NEW y \in PairsOf(timers)
    PROVE  \E t \in timers : \E suffix \in {"timer", "service"} : y.path = UnitPath(Append(t.name, suffix))
BY DEF PairsOf, File

LEMMA ProjectAsked ==
    ASSUME IsSnapshot(snap), NEW i \in ToSet(Kept(snap.items)), NEW y \in ProjectOf(i)
    PROVE  y.path \in AskedFiles
<1>1. \/ \E j \in DOMAIN i.files : y.path = InDir(i.path, <<i.files[j].name>>)
      \/ y.path = i.path
    BY DEF ProjectOf, File
<1> QED BY <1>1, AskedCases

LEMMA TreeAsked ==
    ASSUME WholeInv, Ended, NEW p \in DOMAIN tree.config
    PROVE  p \in AskedFiles
<1>1. PICK s, t : s = snap /\ t = tree.config
    OBVIOUS
<1>2. /\ IsSnapshot(s) /\ Projects(s.items) /\ t = WriteConfigTree(s) /\ Reported
    <2>1. PICK sets : sets = Instructions(snap, tree.config)
        OBVIOUS
    <2> QED BY <1>1, <2>1, EndedFacts
<1>3. PICK L : L = Layers(s)
    OBVIOUS
<1>4. PICK l \in 1..17 : \E g \in L[l] : g.path = p
    <2>1. \A q \in DOMAIN t : \E m \in 1..17 : \E g \in L[m] : g.path = q /\ t[q] = g.text
        BY <1>2, <1>3, TreeFacts, SMTT(30)
    <2> QED BY <1>1, <2>1
<1>0. PICK f \in L[l] : f.path = p
    BY <1>4
<1>5. \/ l = 1 \/ l = 2 \/ l = 3 \/ l = 4 \/ l = 5 \/ l = 6 \/ l = 7 \/ l = 8 \/ l = 9 \/ l = 10
      \/ l = 11 \/ l = 12 \/ l = 13 \/ l = 14 \/ l = 15 \/ l = 16 \/ l = 17
    OBVIOUS
<1>6. CASE l = 1
    <2>1. \E x \in ConfigKept(s) : f.path = x.path
        BY <1>3, <1>0, <1>4, <1>6 DEF Layers, File
    <2> QED BY <1>1, <1>2, <1>0, <1>4, <2>1, ConfigAsked
<1>7. CASE l \in {2, 3, 4, 7, 8, 11, 14}
    <2>1. \E d \in FileSections \ {"config"} : f \in FilesOf(s[d])
        BY <1>3, <1>0, <1>4, <1>7 DEF Layers, FileSections
    <2> QED BY <1>1, <1>2, <1>0, <1>4, <2>1, SectionAsked
<1>8. CASE l \in {5, 13, 15, 16, 17}
    <2>1. \/ f \in ToSet(DirectXml(s)) \/ f \in ToSet(SysusersFiles(s)) \/ f \in ToSet(SysctlConf(s))
          \/ f \in ToSet(Kargs(s)) \/ f \in ToSet(VarTmpfiles(s))
        BY <1>3, <1>0, <1>4, <1>8 DEF Layers
    <2>2. p \in ToolsOwn
        BY <1>0, <1>4, <2>1, ToolFilesAreLists DEF ToolsOwn
    <2> QED BY <2>2, AskedCases
<1>9. CASE l = 6
    <2>1. p \in MissingProfiles(s, BeforeProfiles(s))
        BY <1>3, <1>0, <1>4, <1>9 DEF Layers, File
    <2>2. p \in StaticPaths(snap)
        BY <1>1, <2>1 DEF MissingProfiles
    <2> QED BY <2>2, AskedCases
<1>10. CASE l = 9
    <2>1. f \in PairsOf(ToSet(Kept(s.generated_timer_units)))
        BY <1>3, <1>0, <1>4, <1>10 DEF Layers
    <2>2. p \in GeneratedUnits
        BY <1>1, <1>0, <1>4, <2>1, PairsAsked DEF GeneratedUnits
    <2> QED BY <2>2, AskedCases
<1>11. CASE l = 10
    <2>1. f \in PairsOf(ToSet(s.systemd_timers))
        BY <1>3, <1>0, <1>4, <1>11 DEF Layers
    <2>2. \E u \in ToSet(snap.systemd_timers) : \E suffix \in {"timer", "service"} :
                p = UnitPath(Append(u.name, suffix))
        BY <1>1, <1>0, <1>4, <2>1, PairsAsked
    <2> QED BY <2>2, AskedCases
<1>12. CASE l = 12
    <2>1. PICK i \in ToSet(Kept(s.items)) : f \in ProjectOf(i)
        BY <1>3, <1>0, <1>4, <1>12 DEF Layers
    <2> QED BY <1>1, <1>2, <1>0, <1>4, <2>1, ProjectAsked
<1> QED BY <1>5, <1>6, <1>7, <1>8, <1>9, <1>10, <1>11, <1>12

LEMMA FilesAsked ==
    ASSUME WholeInv, Ended
    PROVE  DOMAIN image.files \subseteq AskedFiles
<1>1. PICK sets : sets = Instructions(snap, tree.config)
    OBVIOUS
<1>2. IsSnapshot(snap) /\ tree.quadlet = WriteQuadlets(snap) /\ Building
    BY <1>1, EndedFacts
<1>3. SUFFICES ASSUME NEW p \in DOMAIN image.files PROVE p \in AskedFiles
    OBVIOUS
<1>4. \/ p \in DOMAIN tree.quadlet
      \/ p \in DOMAIN tree.config
    BY <1>2 DEF WholeInv, ContentInv
<1>5. CASE p \in DOMAIN tree.config
    BY <1>5, TreeAsked
<1>6. CASE p \in DOMAIN tree.quadlet
    <2>1. PICK s, t : s = snap /\ t = tree.quadlet
        OBVIOUS
    <2>2. IsList(s.quadlet_units) /\ t = WriteQuadlets(s)
        BY <1>2, <2>1 DEF IsSnapshot, Records, Lists
    <2>3. \E q \in ToSet(Kept(s.quadlet_units)) : p = Path("etc", QuadletDir, q.path.name)
        BY <1>6, <2>1, <2>2, QuadletsAre
    <2> QED BY <2>1, <2>3, AskedCases
<1> QED BY <1>4, <1>5, <1>6

(* What is installed for projects and packages of pip, if there are some.  *)
MayNeed(s) == (IF OfNodejs(s) = {} THEN {} ELSE {"nodejs", "npm"})
              \cup (IF OfPip(s) = {} THEN {} ELSE {"python3-pip"})

LEMMA NeededFacts == ASSUME NEW s PROVE Needed(s) \subseteq MayNeed(s)
BY DEF Needed, MayNeed

LEMMA PackagesAsked ==
    ASSUME WholeInv, Ended
    PROVE  image.packages \subseteq host.base \cup Installed(snap) \cup MayNeed(snap)
<1>1. PICK sets : sets = Instructions(snap, tree.config)
    OBVIOUS
<1>2. /\ IsSnapshot(snap) /\ Building /\ image.packages = host.base \cup Args("install", Done)
    BY <1>1, EndedFacts
<1>3. IsList(snap.items)
    BY <1>2 DEF IsSnapshot, Records, Lists
<1>4. ASSUME NEW x \in Done, x.do = "install" PROVE x.args \in {Installed(snap), Needed(snap)}
    <2>1. PICK k \in 1..14 : x \in sets[k]
        BY <1>1, <1>2, DoneKinds
    <2> QED BY <1>1, <1>4, <2>1, InstructionKinds
<1>5. Args("install", Done) \subseteq Installed(snap) \cup Needed(snap)
    BY <1>4 DEF Args, Of
<1> QED BY <1>2, <1>3, <1>5, NeededFacts

LEMMA UnitsAsked ==
    ASSUME WholeInv, Ended
    PROVE  image.enabled \subseteq PresetUnits(image.packages) \cup snap.enabled_units
                \cup {Append(t.name, "timer") :
                        t \in ToSet(snap.systemd_timers) \cup ToSet(Kept(snap.generated_timer_units))}
<1>1. PICK sets : sets = Instructions(snap, tree.config)
    OBVIOUS
<1>2. Building
    BY <1>1, EndedFacts
<1>3. SUFFICES ASSUME NEW u \in image.enabled, u \notin PresetUnits(image.packages)
               PROVE  u \in snap.enabled_units \cup {Append(t.name, "timer") :
                        t \in ToSet(snap.systemd_timers) \cup ToSet(Kept(snap.generated_timer_units))}
    OBVIOUS
<1>4. PICK x \in Of("enable", Done) : u \in x.args
    BY <1>2, <1>3 DEF WholeInv, UnitsInv, OnlyEnabled
<1>5. PICK k \in 1..14 : x \in sets[k]
    BY <1>1, <1>2, <1>4, DoneKinds DEF Of
<1>6. x.args = EnabledEarly(snap) \/ x.args = TimerUnits(snap)
    BY <1>1, <1>4, <1>5, InstructionKinds DEF Of
<1>7. CASE x.args = EnabledEarly(snap)
    BY <1>4, <1>7 DEF EnabledEarly
<1>8. CASE x.args = TimerUnits(snap)
    BY <1>4, <1>8 DEF TimerUnits, TimerNames
<1> QED BY <1>6, <1>7, <1>8

LEMMA AccountsAsked ==
    ASSUME WholeInv, Ended
    PROVE  /\ image.accounts.names \subseteq {u.name : u \in ToSet(Kept(snap.users))}
           /\ image.accounts.gids \subseteq host.base_gids \cup Gids(Kept(snap.groups)) \cup Gids(Kept(snap.users))
<1> DEFINE users == ToSet(Kept(snap.users))
           groups == ToSet(Kept(snap.groups))
<1>1. PICK sets : sets = Instructions(snap, tree.config)
    OBVIOUS
<1>2. IsSnapshot(snap) /\ Building
    BY <1>1, EndedFacts
<1>3. IsList(snap.users) /\ IsList(snap.groups)
    BY <1>2 DEF IsSnapshot, Records, Lists
<1>4. /\ \A strategy : KeptBy(strategy, snap.users) \subseteq users
      /\ \A strategy : KeptBy(strategy, snap.groups) \subseteq groups
    BY <1>3, KeptFacts DEF KeptBy
<1>5. ASSUME NEW x \in Done, x.do = "groupadd" PROVE x.args \in groups
    <2>1. PICK k \in 1..14 : x \in sets[k]
        BY <1>1, <1>2, DoneKinds
    <2>2. x.args \in ToSet(UseraddGroups(snap))
        BY <1>1, <1>5, <2>1, InstructionKinds
    <2>3. By("useradd", snap.users) = <<>> => ToSet(UseraddGroups(snap)) = {}
        BY EmptyList DEF UseraddGroups
    <2>4. x.args \in ToSet(By("useradd", snap.groups))
        BY <2>2, <2>3 DEF UseraddGroups
    <2> QED BY <1>3, <1>4, <2>4, ByFacts DEF KeptBy
<1>6. ASSUME NEW x \in Done, x.do = "useradd" PROVE x.args \in users
    <2>1. PICK k \in 1..14 : x \in sets[k]
        BY <1>1, <1>2, DoneKinds
    <2>2. x.args \in ToSet(By("useradd", snap.users))
        BY <1>1, <1>6, <2>1, InstructionKinds
    <2> QED BY <1>3, <1>4, <2>2, ByFacts DEF KeptBy
<1> HIDE DEF users, groups
<1>7. /\ Added.gids \subseteq host.base_gids \cup {g.gid : g \in groups}
      /\ Added.names \subseteq {u.name : u \in users}
    BY <1>5, <1>6 DEF Added, Of
<1>8. CASE phase = "booted"
    <2>1. PICK sysusers, d : sysusers = (SysusersConf \in DOMAIN image.files) /\ d = image.accounts
        OBVIOUS
    <2>2. PICK s, added : s = snap /\ added = Added
        OBVIOUS
    <2>3. d = Deploy(added, s, sysusers)
        BY <1>2, <1>8, <2>1, <2>2 DEF WholeInv, ContentInv
    <2>4. Deployed(Deploy(added, s, sysusers), s, added, sysusers)
        BY <1>2, <2>2, DeployFacts
    <2>5. Deployed(d, s, added, sysusers)
        BY <2>3, <2>4
    <2>6. d.names \subseteq {u.name : u \in users}
        <3>1. SUFFICES ASSUME NEW name \in d.names PROVE \E u \in users : u.name = name
            OBVIOUS
        <3>2. \/ name \in added.names
              \/ \E u \in KeptBy("blueprint", s.users) : u.name = name
              \/ \E u \in KeptBy("kickstart", s.users) : u.name = name
              \/ \E u \in KeptBy("sysusers", s.users) : u.name = name
            BY <2>5, <3>1 DEF Deployed
        <3> QED BY <1>4, <1>7, <2>2, <3>2
    <2>7. d.gids \subseteq (host.base_gids \cup {g.gid : g \in groups}) \cup {u.gid : u \in users}
        BY <1>4, <1>7, <2>2, <2>5 DEF Deployed
    <2> QED BY <2>1, <2>6, <2>7 DEF users, groups, Gids
<1>9. CASE phase # "booted"
    <2>1. image.accounts = Added
        BY <1>2, <1>9 DEF WholeInv, ContentInv
    <2> QED BY <1>7, <2>1 DEF users, groups, Gids
<1> QED BY <1>8, <1>9

\* The image of every host, whatever was edited, has no file, package, unit, user
\* or group but those of the base image and of what was kept.
THEOREM NothingUnaskedArrives == MigrationSpec => []NothingUnasked
<1>1. ASSUME WholeInv, Ended
      PROVE  /\ DOMAIN image.files \subseteq AskedFiles
             /\ image.packages \subseteq host.base \cup Installed(snap)
                                    \cup (IF OfNodejs(snap) = {} THEN {} ELSE {"nodejs", "npm"})
                                    \cup (IF OfPip(snap) = {} THEN {} ELSE {"python3-pip"})
             /\ image.enabled \subseteq PresetUnits(image.packages) \cup snap.enabled_units
                \cup {Append(t.name, "timer") :
                        t \in ToSet(snap.systemd_timers) \cup ToSet(Kept(snap.generated_timer_units))}
             /\ image.accounts.names \subseteq {u.name : u \in ToSet(Kept(snap.users))}
             /\ image.accounts.gids \subseteq host.base_gids \cup Gids(Kept(snap.groups))
                                         \cup Gids(Kept(snap.users))
    <2>1. image.packages \subseteq host.base \cup Installed(snap)
                                    \cup (IF OfNodejs(snap) = {} THEN {} ELSE {"nodejs", "npm"})
                                    \cup (IF OfPip(snap) = {} THEN {} ELSE {"python3-pip"})
        BY <1>1, PackagesAsked DEF MayNeed
    <2> QED BY <1>1, <2>1, FilesAsked, UnitsAsked, AccountsAsked
<1>2. WholeInv => NothingUnasked
    BY <1>1 DEF NothingUnasked
<1> QED BY <1>2, WholeInvariant, PTL
==============================================================================
