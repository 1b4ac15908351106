------------------------ MODULE EntriesConfigProofs ------------------------
(***************************************************************************)
(* What holds of the entries and their keystrokes, for any names, any      *)
(* keystrokes and any number of entries, dialogs and saves.                *)
(***************************************************************************)
EXTENDS EntriesConfig, SequenceTheorems, FiniteSetTheorems, TLAPS

USE EntriesConfigAssumption, ValuesAssumption

-----------------------------------------------------------------------------
(* The inductive invariants.                                               *)

\* There is a configuration and there are dialogs only when the plug-in has
\* loaded, and the panel outlives the dialogs that were opened from it.
Standing ==
  /\ plugin = "failed" <=> globalConfig = None
  /\ plugin # "registered" => dialogs = <<>> /\ panel = None
  /\ \A d \in DOMAIN dialogs :
       /\ dialogs[d].over => panel # None
       /\ dialogs[d].config = OfPanel => dialogs[d].over /\ dialogs[d].original # None

TypeInv == TypeOK /\ Standing

\* No two entries of a list share a name or a keystroke.
Unique(s) ==
  \A i, j \in DOMAIN s :
    i # j => s[i].name # s[j].name /\ (s[i].keystroke = s[j].keystroke => s[i].keystroke = NoKey)

\* Every list that may come to be the configuration is free of clashes, and
\* every open dialog checks against the list that it will change.
UniqueEverywhere ==
  \/ overlapped
  \/ /\ globalConfig # None => Unique(globalConfig)
     /\ file \in Config => Unique(file)
     /\ panel # None => Unique(PanelEntries)
     /\ \A d \in DOMAIN dialogs : dialogs[d].config \in {Live, OfPanel}

UniqueInv == TypeInv /\ UniqueEverywhere

\* What has been installed is what the configuration says, and what has not is
\* about to be or has nothing to say.
KeysInstalled ==
  /\ plugin = "loading" /\ installer # "waiting" =>
       globalConfig = <<>> /\ globalGesturesToEntries = None /\ gestureMap = {DefaultKey}
  /\ KeystrokesFindEntries

KeysInv == UniqueInv /\ KeysInstalled

\* What the panel holds once its changes are applied to what was wanted.
Applied == (wanted \ panel.removed) \cup panel.added

\* Where the entry lies that a dialog was opened for.
InPlace(dialog, s) ==
  IF dialog.index = 0 THEN dialog.original = None
  ELSE dialog.index \in DOMAIN s /\ dialog.original = s[dialog.index]

\* The configuration in memory is what the user wants, also when it could not be
\* saved; and every dialog will change the entry that it shows, one of them at
\* most in the panel.
InMemory ==
  /\ wanted = ToSet(globalConfig)
  /\ panel # None => ToSet(PanelEntries) = Applied
  /\ \A d \in DOMAIN dialogs : InPlace(dialogs[d], View(dialogs[d]))
  /\ \A c, d \in DOMAIN dialogs :
       dialogs[c].config = OfPanel /\ dialogs[d].config = OfPanel => c = d

\* As long as no dialogs overlap and nothing is lost for good, what the user
\* wants is in memory, unless the file could not be read; and it is in the file,
\* and the same list, unless a save failed.
WantedInMemory ==
  \/ overlapped \/ lost
  \/ /\ plugin # "failed"
     /\ unread \/ InMemory
     /\ \/ failed
        \/ file # Torn /\ ToSet(Decoded) = wanted /\ (unread \/ globalConfig = Decoded)

SavedInv == UniqueInv /\ WantedInMemory

-----------------------------------------------------------------------------
(* The pure parts: maxima, lists of entries and the sort.                  *)

LEMMA LeastNumber ==
  ASSUME NEW T \in SUBSET Nat, T # {}
  PROVE  \E x \in T : \A y \in T : x <= y
<1> DEFINE R == OpToRel(<, Nat)
<1>1. IsWellFoundedOn(R, Nat)
  BY NatLessThanWellFounded
<1>2. \A x, y \in Nat : y < x => <<y, x>> \in R
  BY DEF OpToRel
<1> HIDE DEF R
<1>3. PICK x \in T : \A y \in T : <<y, x>> \notin R
  BY <1>1, WFMin
<1>4. ASSUME NEW y \in T PROVE x <= y
  <2>1. x \in Nat /\ y \in Nat /\ ~(y < x)
    BY <1>2, <1>3
  <2> QED
    BY <2>1
<1> QED
  BY <1>4

\* Some index of a list is the greatest.
LEMMA GreatestIndex ==
  ASSUME NEW n \in Nat, NEW T \in SUBSET (1..n), T # {}
  PROVE  Max(T) \in T
<1> DEFINE Mirror == {n - x : x \in T}
<1>1. Mirror \in SUBSET Nat /\ Mirror # {}
  <2>1. \A x \in T : n - x \in Nat
    OBVIOUS
  <2> QED
    BY <2>1
<1>2. PICK m \in Mirror : \A k \in Mirror : m <= k
  BY <1>1, LeastNumber
<1>3. PICK x \in T : m = n - x
  OBVIOUS
<1>4. ASSUME NEW y \in T PROVE x >= y
  <2>1. n - y \in Mirror
    OBVIOUS
  <2>2. n - x <= n - y
    BY <1>2, <1>3, <2>1
  <2> QED
    BY <2>2
<1> QED
  BY <1>4 DEF Max

\* A list of entries.
LEMMA ConfigTyped ==
  ASSUME NEW s \in Config
  PROVE  /\ Len(s) \in Nat /\ DOMAIN s = 1..Len(s) /\ \A i \in DOMAIN s : s[i] \in TSEntry
         /\ s \in [1..Len(s) -> TSEntry] /\ ToSet(s) \subseteq TSEntry
         /\ s # None /\ s # NoFile /\ s # Torn /\ s # Live /\ s # OfPanel
<1>1. Len(s) \in Nat /\ DOMAIN s = 1..Len(s) /\ s \in [1..Len(s) -> TSEntry]
  BY LenProperties DEF Config
<1> QED
  BY <1>1 DEF ToSet

LEMMA IsConfig ==
  ASSUME NEW n \in Nat, NEW f \in [1..n -> TSEntry]
  PROVE  f \in Config /\ Len(f) = n
<1>1. f \in Config
  BY SeqDef DEF Config
<1>2. Len(f) \in Nat /\ DOMAIN f = 1..Len(f)
  BY <1>1, ConfigTyped
<1> QED
  BY <1>1, <1>2

\* entries.sort(key=...) permutes the list, puts smaller names first, and keeps
\* entries of one name in the order in which they were.
THEOREM SortIsStable ==
  ASSUME NEW s \in Config
  PROVE  \E p \in Bijection(1..Len(s), 1..Len(s)) :
           /\ SortedByName(s) = [k \in 1..Len(s) |-> s[p[k]]]
           /\ \A k, l \in 1..Len(s) :
                k < l => \/ s[p[k]].name < s[p[l]].name
                         \/ s[p[k]].name = s[p[l]].name /\ p[k] < p[l]
<1> DEFINE n == Len(s)
           Le(j, i) == s[j].name < s[i].name \/ (s[j].name = s[i].name /\ j <= i)
           Upto(i) == {j \in DOMAIN s : Le(j, i)}
           Rank(i) == Cardinality(Upto(i))
           rank == [i \in 1..n |-> Rank(i)]
           p == [k \in 1..n |-> CHOOSE i \in DOMAIN s : Rank(i) = k]
<1>1. n \in Nat /\ DOMAIN s = 1..n /\ \A i \in 1..n : s[i].name \in Nat
  <2>1. \A e \in TSEntry : e.name \in Nat
    BY DEF TSEntry
  <2> QED
    BY <2>1, ConfigTyped
<1>2. SortedByName(s) = [k \in 1..n |-> s[p[k]]]
  BY <1>1 DEF SortedByName
<1>3. IsFiniteSet(1..n) /\ Cardinality(1..n) = n
  BY <1>1, FS_Interval
<1> HIDE DEF n
<1>4. \A i, j, k \in 1..n : Le(i, i) /\ (Le(i, j) \/ Le(j, i))
                            /\ (Le(i, j) /\ Le(j, i) => i = j)
                            /\ (Le(i, j) /\ Le(j, k) => Le(i, k))
  BY <1>1
<1> HIDE DEF Le
<1>5. ASSUME NEW i \in 1..n
      PROVE  /\ IsFiniteSet(Upto(i)) /\ Rank(i) \in 1..n
  <2>1. Upto(i) \in SUBSET (1..n) /\ {i} \in SUBSET Upto(i)
    BY <1>1, <1>4
  <2> HIDE DEF Upto
  <2>2. IsFiniteSet(Upto(i)) /\ Cardinality(Upto(i)) <= n
    <3>1. \A T \in SUBSET (1..n) : IsFiniteSet(T) /\ Cardinality(T) <= Cardinality(1..n)
      BY <1>3, FS_Subset
    <3> QED
      BY <1>3, <2>1, <3>1
  <2>3. Cardinality({i}) = 1 /\ Cardinality({i}) <= Cardinality(Upto(i))
    BY <2>1, <2>2, FS_Subset, FS_Singleton
  <2>4. Cardinality(Upto(i)) \in Nat
    BY <2>2, FS_CardinalityType
  <2> QED
    BY <1>1, <2>2, <2>3, <2>4
<1>6. ASSUME NEW i \in 1..n, NEW j \in 1..n, Rank(i) = Rank(j), Le(i, j)
      PROVE  i = j
  <2>1. Upto(i) \in SUBSET Upto(j)
    BY <1>1, <1>4, <1>6
  <2>2. Upto(j) = Upto(i)
    BY <1>5, <1>6, <2>1, FS_Subset
  <2>3. Le(j, i)
    BY <1>1, <1>4, <2>2
  <2> QED
    BY <1>4, <1>6, <2>3
<1> HIDE DEF Rank, Upto
<1>7. rank \in Injection(1..n, 1..n)
  BY <1>4, <1>5, <1>6 DEF Injection, IsInjective
<1>8. rank \in Surjection(1..n, 1..n)
  BY <1>3, <1>7, FS_Injection
<1>9. ASSUME NEW k \in 1..n PROVE p[k] \in 1..n /\ Rank(p[k]) = k
  BY <1>1, <1>8 DEF Surjection
<1>10. p \in [1..n -> 1..n]
  BY <1>9
<1>11. \A i \in 1..n : Rank(i) \in 1..n /\ p[Rank(i)] = i
  BY <1>4, <1>5, <1>6, <1>9
<1> HIDE DEF p
<1>12. p \in Bijection(1..n, 1..n)
  BY <1>9, <1>10, <1>11 DEF Bijection, Injection, Surjection, IsInjective
<1>13. ASSUME NEW k \in 1..n, NEW l \in 1..n, k < l, Le(p[l], p[k]) PROVE FALSE
  <2>1. Upto(p[l]) \in SUBSET Upto(p[k])
    BY <1>1, <1>4, <1>9, <1>13 DEF Upto
  <2>2. IsFiniteSet(Upto(p[k])) /\ Rank(p[k]) = k /\ Rank(p[l]) = l
    BY <1>5, <1>9
  <2>3. Rank(p[l]) <= Rank(p[k])
    BY <2>1, <2>2, FS_Subset DEF Rank
  <2> QED
    BY <1>1, <1>13, <2>2, <2>3
<1>14. ASSUME NEW k \in 1..n, NEW l \in 1..n, k < l
       PROVE  s[p[k]].name < s[p[l]].name \/ (s[p[k]].name = s[p[l]].name /\ p[k] < p[l])
  <2>1. p[k] \in 1..n /\ p[l] \in 1..n
    BY <1>9
  <2> QED
    BY <1>1, <1>13, <1>14, <2>1 DEF Le
<1> QED
  BY <1>2, <1>12, <1>14 DEF n

\* Sorting keeps the entries and adds no clash.
LEMMA SortKeeps ==
  ASSUME NEW s \in Config
  PROVE  /\ SortedByName(s) \in Config
         /\ ToSet(SortedByName(s)) = ToSet(s)
         /\ Unique(s) => Unique(SortedByName(s))
<1> DEFINE n == Len(s)
<1>1. n \in Nat /\ DOMAIN s = 1..n /\ s \in [1..n -> TSEntry]
  BY ConfigTyped
<1>2. PICK p \in Bijection(1..n, 1..n) : SortedByName(s) = [k \in 1..n |-> s[p[k]]]
  BY SortIsStable
<1> HIDE DEF n
<1>3. /\ p \in [1..n -> 1..n]
      /\ \A k, l \in 1..n : k # l => p[k] # p[l]
      /\ \A i \in 1..n : \E k \in 1..n : p[k] = i
  BY DEF Bijection, Injection, Surjection, IsInjective
<1>4. SortedByName(s) \in [1..n -> TSEntry]
  BY <1>1, <1>2, <1>3
<1>5. SortedByName(s) \in Config /\ DOMAIN SortedByName(s) = 1..n
  BY <1>1, <1>4, IsConfig
<1> DEFINE t == SortedByName(s)
<1>8. DOMAIN t = 1..n /\ \A k \in 1..n : t[k] = s[p[k]] /\ p[k] \in 1..n
  BY <1>2, <1>3, <1>5
<1> HIDE DEF t
<1>6. ToSet(t) = ToSet(s)
  <2>1. ToSet(t) \subseteq ToSet(s)
    BY <1>1, <1>8 DEF ToSet
  <2>2. ToSet(s) \subseteq ToSet(t)
    <3> SUFFICES ASSUME NEW x \in ToSet(s) PROVE x \in ToSet(t)
      OBVIOUS
    <3>1. PICK i \in 1..n : x = s[i]
      BY <1>1 DEF ToSet
    <3>2. PICK k \in 1..n : p[k] = i
      BY <1>3
    <3>3. k \in DOMAIN t /\ t[k] = x
      BY <1>8, <3>1, <3>2
    <3> QED
      BY <3>3 DEF ToSet
  <2> QED
    BY <2>1, <2>2
<1>7. Unique(s) => Unique(t)
  <2> SUFFICES ASSUME Unique(s), NEW k \in 1..n, NEW l \in 1..n, k # l
               PROVE  /\ t[k].name # t[l].name
                      /\ t[k].keystroke = t[l].keystroke => t[k].keystroke = NoKey
    BY <1>8 DEF Unique
  <2>1. t[k] = s[p[k]] /\ t[l] = s[p[l]] /\ p[k] \in DOMAIN s /\ p[l] \in DOMAIN s
    BY <1>1, <1>8
  <2>2. p[k] # p[l]
    BY <1>3
  <2> QED
    BY <2>1, <2>2 DEF Unique
<1> QED
  BY <1>5, <1>6, <1>7 DEF t

\* An entry that clashes with no other takes its place in the list.
LEMMA PutKeeps ==
  ASSUME NEW s \in Config, NEW index \in Nat, NEW e \in TSEntry
  PROVE  /\ Put(s, index, e) \in Config
         /\ Unique(s) /\ ~Clashes(e, s, index) => Unique(Put(s, index, e))
         /\ index = 0 => ToSet(Put(s, index, e)) = ToSet(s) \cup {e}
         /\ Unique(s) /\ index \in DOMAIN s =>
              ToSet(Put(s, index, e)) = (ToSet(s) \ {s[index]}) \cup {e}
<1> DEFINE n == Len(s)
           t == IF index = 0 THEN Append(s, e) ELSE [s EXCEPT ![index] = e]
<1>1. n \in Nat /\ DOMAIN s = 1..n /\ s \in [1..n -> TSEntry] /\ s \in Seq(TSEntry)
  BY ConfigTyped DEF Config
<1>2. Put(s, index, e) = SortedByName(t)
  BY DEF Put
<1>3. CASE index = 0
  <2>1. /\ t \in Config /\ DOMAIN t = 1..(n + 1)
        /\ t[n + 1] = e /\ \A i \in 1..n : t[i] = s[i]
    <3>1. /\ Append(s, e) \in Seq(TSEntry) /\ Len(Append(s, e)) = n + 1
          /\ Append(s, e)[n + 1] = e /\ \A i \in 1..n : Append(s, e)[i] = s[i]
      BY <1>1, AppendProperties
    <3>2. DOMAIN Append(s, e) = 1..(n + 1)
      BY <3>1, LenProperties
    <3> QED
      BY <1>3, <3>1, <3>2 DEF Config
  <2> HIDE DEF t, n
  <2>2. \A i \in DOMAIN t : i \in DOMAIN s \/ i = n + 1
    BY <1>1, <2>1
  <2>3. ToSet(t) = ToSet(s) \cup {e}
    <3>1. DOMAIN s \subseteq DOMAIN t /\ n + 1 \in DOMAIN t
      BY <1>1, <2>1
    <3> QED
      BY <1>1, <2>1, <2>2, <3>1 DEF ToSet
  <2>4. Unique(s) /\ ~Clashes(e, s, index) => Unique(t)
    <3>1. ~Clashes(e, s, index) =>
            \A i \in DOMAIN s : s[i].name # e.name
                                /\ (s[i].keystroke = e.keystroke => e.keystroke = NoKey)
      BY <1>1, <1>3 DEF Clashes
    <3> QED
      BY <1>1, <2>1, <2>2, <3>1 DEF Unique
  <2>5. index \notin DOMAIN s
    BY <1>1, <1>3
  <2> QED
    BY <1>2, <2>1, <2>3, <2>4, <2>5, SortKeeps
<1>4. CASE index # 0
  <2>1. t \in [1..n -> TSEntry] /\ \A i \in 1..n : t[i] = IF i = index THEN e ELSE s[i]
    BY <1>1, <1>4
  <2> HIDE DEF t, n
  <2>2. t \in Config /\ DOMAIN t = 1..n
    BY <1>1, <2>1, IsConfig
  <2>3. ASSUME Unique(s), index \in DOMAIN s
        PROVE  ToSet(t) = (ToSet(s) \ {s[index]}) \cup {e}
    <3>1. \A i \in DOMAIN s : i # index => s[i] # s[index]
      BY <2>3 DEF Unique
    <3> QED
      BY <1>1, <2>1, <2>2, <2>3, <3>1 DEF ToSet
  <2>4. Unique(s) /\ ~Clashes(e, s, index) => Unique(t)
    BY <1>1, <2>1, <2>2 DEF Unique, Clashes
  <2> QED
    BY <1>2, <1>4, <2>2, <2>3, <2>4, SortKeeps
<1> QED
  BY <1>3, <1>4

\* Removing an entry.
LEMMA RemoveKeeps ==
  ASSUME NEW s \in Config, NEW i \in DOMAIN s
  PROVE  /\ RemoveAt(s, i) \in Config
         /\ Unique(s) => /\ Unique(RemoveAt(s, i))
                         /\ ToSet(RemoveAt(s, i)) = ToSet(s) \ {s[i]}
<1> DEFINE n == Len(s)
           t == RemoveAt(s, i)
<1>1. n \in Nat /\ DOMAIN s = 1..n /\ s \in [1..n -> TSEntry] /\ s \in Seq(TSEntry)
  BY ConfigTyped DEF Config
<1> DEFINE a == SubSeq(s, 1, i - 1)
           b == SubSeq(s, i + 1, n)
<1>2. a \in Seq(TSEntry) /\ Len(a) = i - 1 /\ \A j \in 1..(i - 1) : a[j] = s[j]
  BY <1>1
<1>3. b \in Seq(TSEntry) /\ Len(b) = n - i /\ \A j \in 1..(n - i) : b[j] = s[i + j]
  BY <1>1
<1>4. /\ t \in Seq(TSEntry) /\ Len(t) = n - 1
      /\ \A j \in 1..(n - 1) : t[j] = IF j < i THEN s[j] ELSE s[j + 1]
  <2>1. t = a \o b
    BY DEF RemoveAt
  <2> HIDE DEF a, b, t
  <2>2. t \in Seq(TSEntry) /\ Len(t) = n - 1
    <3>1. t \in Seq(TSEntry) /\ Len(t) = Len(a) + Len(b)
      BY <1>2, <1>3, <2>1, ConcatProperties
    <3>2. (i - 1) + (n - i) = n - 1
      BY <1>1
    <3> QED
      BY <1>2, <1>3, <3>1, <3>2
  <2>3. ASSUME NEW j \in 1..(n - 1), j < i PROVE t[j] = s[j]
    BY <1>1, <1>2, <1>3, <2>1, <2>3
  <2>4. ASSUME NEW j \in 1..(n - 1), ~(j < i) PROVE t[j] = s[j + 1]
    <3>1. j - (i - 1) \in 1..(n - i) /\ i + (j - (i - 1)) = j + 1
      BY <1>1, <2>4
    <3>2. t[j] = b[j - (i - 1)]
      BY <1>1, <1>2, <1>3, <2>1, <2>4
    <3> QED
      BY <1>3, <3>1, <3>2
  <2> QED
    BY <2>2, <2>3, <2>4
<1>5. t \in Config /\ DOMAIN t = 1..(n - 1)
  BY <1>4, LenProperties DEF Config
<1> HIDE DEF t, n
<1>6. /\ \A j \in DOMAIN t :
           \E k \in DOMAIN s : k # i /\ t[j] = s[k] /\ k = (IF j < i THEN j ELSE j + 1)
      /\ \A k \in DOMAIN s : k # i => \E j \in DOMAIN t : t[j] = s[k]
  <2>1. ASSUME NEW j \in DOMAIN t
        PROVE  \E k \in DOMAIN s : k # i /\ t[j] = s[k] /\ k = (IF j < i THEN j ELSE j + 1)
    BY <1>1, <1>4, <1>5
  <2>2. ASSUME NEW k \in DOMAIN s, k # i PROVE \E j \in DOMAIN t : t[j] = s[k]
    <3>1. CASE k < i
      <4>1. k \in DOMAIN t /\ t[k] = s[k]
        BY <1>1, <1>4, <1>5, <3>1
      <4> QED BY <4>1
    <3>2. CASE k > i
      <4>1. k - 1 \in DOMAIN t /\ t[k - 1] = s[k]
        BY <1>1, <1>4, <1>5, <3>2
      <4> QED BY <4>1
    <3> QED
      BY <1>1, <2>2, <3>1, <3>2
  <2> QED
    BY <2>1, <2>2
<1>7. ASSUME Unique(s) PROVE Unique(t)
  <2> SUFFICES ASSUME NEW j \in DOMAIN t, NEW l \in DOMAIN t, j # l
               PROVE  /\ t[j].name # t[l].name
                      /\ t[j].keystroke = t[l].keystroke => t[j].keystroke = NoKey
    BY DEF Unique
  <2>1. PICK k \in DOMAIN s : t[j] = s[k] /\ k = (IF j < i THEN j ELSE j + 1)
    BY <1>6
  <2>2. PICK m \in DOMAIN s : t[l] = s[m] /\ m = (IF l < i THEN l ELSE l + 1)
    BY <1>6
  <2>3. k # m
    BY <1>1, <1>5, <2>1, <2>2
  <2> QED
    BY <1>7, <2>1, <2>2, <2>3 DEF Unique
<1>8. ASSUME Unique(s) PROVE ToSet(t) = ToSet(s) \ {s[i]}
  <2>1. \A k \in DOMAIN s : k # i => s[k] # s[i]
    BY <1>8 DEF Unique
  <2> QED
    BY <1>6, <2>1 DEF ToSet
<1> QED
  BY <1>5, <1>7, <1>8 DEF t

\* The dictionary of updateKeystrokes.
LEMMA KeysTyped ==
  ASSUME NEW s \in Config
  PROVE  /\ KeysOf(s) \in Keys
         /\ DOMAIN KeysOf(s) = Bound(s) /\ Bound(s) \subseteq Keystroke
         /\ Unique(s) => \A e \in ToSet(s) : e.keystroke # NoKey => KeysOf(s)[e.keystroke] = e
<1> DEFINE n == Len(s)
           D == Bound(s)
           At(k) == {i \in DOMAIN s : s[i].keystroke = k}
<1>1. n \in Nat /\ DOMAIN s = 1..n /\ (\A i \in DOMAIN s : s[i] \in TSEntry)
      /\ ToSet(s) \subseteq TSEntry
  BY ConfigTyped
<1>2. D \in SUBSET Keystroke
  BY <1>1 DEF TSEntry, Bound
<1>3. ASSUME NEW k \in D PROVE s[Max(At(k))] \in TSEntry
  <2>1. At(k) \in SUBSET (1..n) /\ At(k) # {}
    BY <1>1, <1>3 DEF ToSet, Bound
  <2>2. Max(At(k)) \in At(k)
    BY <1>1, <2>1, GreatestIndex
  <2> QED
    BY <1>1, <2>2
<1>4. KeysOf(s) = [k \in D |-> s[Max(At(k))]]
  BY DEF KeysOf
<1>5. KeysOf(s) \in [D -> TSEntry]
  BY <1>3, <1>4
<1>6. ASSUME Unique(s), NEW e \in ToSet(s), e.keystroke # NoKey
      PROVE  KeysOf(s)[e.keystroke] = e
  <2>1. PICK i \in DOMAIN s : s[i] = e
    BY DEF ToSet
  <2>2. At(e.keystroke) = {i}
    BY <1>6, <2>1 DEF Unique
  <2>3. Max({i}) = i
    BY <1>1 DEF Max
  <2>4. e.keystroke \in D
    BY <1>6 DEF Bound
  <2> QED
    BY <1>4, <2>1, <2>2, <2>3, <2>4
<1> QED
  BY <1>2, <1>5, <1>6 DEF Keys

-----------------------------------------------------------------------------
(* Typing.                                                                 *)

\* The stack of dialogs.
LEMMA Stack ==
  ASSUME TypeOK
  PROVE  /\ dialogs \in Seq(Dialog) /\ Len(dialogs) \in Nat /\ DOMAIN dialogs = 1..Len(dialogs)
         /\ \A d \in DOMAIN dialogs : dialogs[d] \in Dialog
         /\ dialogs # <<>> =>
              /\ Len(dialogs) \in DOMAIN dialogs /\ Last(dialogs) = dialogs[Len(dialogs)]
              /\ Last(dialogs) \in Dialog
              /\ Front(dialogs) \in Seq(Dialog)
              /\ DOMAIN Front(dialogs) = 1..(Len(dialogs) - 1)
              /\ \A d \in DOMAIN Front(dialogs) :
                   d \in DOMAIN dialogs /\ Front(dialogs)[d] = dialogs[d]
              /\ Len(dialogs) <= 1 => Front(dialogs) = <<>>
<1>1. dialogs \in Seq(Dialog) /\ Len(dialogs) \in Nat /\ DOMAIN dialogs = 1..Len(dialogs)
  BY LenProperties DEF TypeOK
<1>2. \A d \in DOMAIN dialogs : dialogs[d] \in Dialog
  BY <1>1, ElementOfSeq
<1>3. ASSUME dialogs # <<>>
      PROVE  /\ Len(dialogs) \in DOMAIN dialogs /\ Last(dialogs) = dialogs[Len(dialogs)]
             /\ Last(dialogs) \in Dialog
             /\ Front(dialogs) \in Seq(Dialog)
             /\ DOMAIN Front(dialogs) = 1..(Len(dialogs) - 1)
             /\ \A d \in DOMAIN Front(dialogs) :
                  d \in DOMAIN dialogs /\ Front(dialogs)[d] = dialogs[d]
             /\ Len(dialogs) <= 1 => Front(dialogs) = <<>>
  <2>1. Len(dialogs) \in DOMAIN dialogs
    BY <1>1, <1>3, EmptySeq
  <2>2. /\ Front(dialogs) \in Seq(Dialog) /\ Len(Front(dialogs)) = Len(dialogs) - 1
        /\ \A d \in 1..(Len(dialogs) - 1) : Front(dialogs)[d] = dialogs[d]
    <3>1. /\ SubSeq(dialogs, 1, Len(dialogs) - 1) \in Seq(Dialog)
          /\ Len(SubSeq(dialogs, 1, Len(dialogs) - 1)) = Len(dialogs) - 1
          /\ \A d \in 1..(Len(dialogs) - 1) :
               SubSeq(dialogs, 1, Len(dialogs) - 1)[d] = dialogs[d]
      BY <1>1, <2>1
    <3> QED
      BY <3>1 DEF Front
  <2>3. DOMAIN Front(dialogs) = 1..(Len(dialogs) - 1)
    BY <2>2, LenProperties
  <2>4. Len(dialogs) <= 1 => Front(dialogs) = <<>>
    BY <1>1, <2>1, <2>2, EmptySeq
  <2> QED
    BY <1>1, <1>2, <2>1, <2>2, <2>3, <2>4 DEF Last
<1> QED
  BY <1>1, <1>2, <1>3

\* A dialog on top of the others.
LEMMA OnTop ==
  ASSUME TypeOK, NEW x \in Dialog, dialogs' = Append(dialogs, x)
  PROVE  /\ dialogs' \in Seq(Dialog)
         /\ \A d \in DOMAIN dialogs' :
              (d \in DOMAIN dialogs /\ dialogs'[d] = dialogs[d]) \/ dialogs'[d] = x
<1>1. dialogs \in Seq(Dialog) /\ Len(dialogs) \in Nat /\ DOMAIN dialogs = 1..Len(dialogs)
  BY Stack
<1>2. /\ dialogs' \in Seq(Dialog) /\ Len(dialogs') = Len(dialogs) + 1
      /\ \A d \in 1..Len(dialogs) : dialogs'[d] = dialogs[d]
      /\ dialogs'[Len(dialogs) + 1] = x
  BY <1>1, AppendProperties
<1>3. DOMAIN dialogs' = 1..(Len(dialogs) + 1)
  BY <1>2, LenProperties
<1> QED
  BY <1>1, <1>2, <1>3

\* The entries of the panel, and of any open dialog's view, are a configuration.
LEMMA ViewTyped ==
  ASSUME TypeInv
  PROVE  /\ plugin = "registered" => globalConfig \in Config
         /\ panel # None => plugin = "registered" /\ panel \in Panel /\ PanelEntries \in Config
         /\ \A d \in DOMAIN dialogs : plugin = "registered" /\ View(dialogs[d]) \in Config
<1>1. plugin # "failed" => globalConfig \in Config
  BY DEF TypeInv, TypeOK, Standing
<1>2. panel # None => plugin = "registered" /\ panel \in Panel
  BY DEF TypeInv, TypeOK, Standing
<1>3. panel # None => PanelEntries \in Config
  BY <1>1, <1>2 DEF PanelEntries, Panel
<1>4. ASSUME NEW d \in DOMAIN dialogs PROVE plugin = "registered" /\ View(dialogs[d]) \in Config
  <2>1. plugin = "registered"
    BY <1>4 DEF TypeInv, Standing
  <2>2. dialogs[d].config \in Config \cup {Live, OfPanel}
    BY Stack DEF TypeInv, Dialog
  <2>3. dialogs[d].config = OfPanel => panel # None
    BY DEF TypeInv, Standing
  <2> QED
    BY <1>1, <1>3, <2>1, <2>2, <2>3 DEF View
<1> QED
  BY <1>1, <1>2, <1>3, <1>4

\* What a save leaves.
LEMMA SaveTyped ==
  ASSUME TypeOK, NEW s \in Config, Save(s)
  PROVE  /\ file' \in Config \cup {NoFile, Torn} /\ globalConfig' \in Config
         /\ globalGesturesToEntries' \in Keys \cup {None} /\ gestureMap' \subseteq Keystroke
         /\ saves' \in Nat /\ gaveUp' \in BOOLEAN
         /\ failed' \in BOOLEAN /\ unread' \in BOOLEAN /\ lost' \in BOOLEAN
<1>1. saves' = saves + 1 /\ saves \in Nat /\ lost' = (lost \/ unread)
  BY DEF TypeOK, Save
<1>2. KeysOf(s) \in Keys /\ Bound(s) \subseteq Keystroke /\ <<>> \in Config
  BY KeysTyped, EmptySeq DEF Config
<1>3. CASE /\ file' = s /\ globalConfig' = s
           /\ globalGesturesToEntries' = KeysOf(s) /\ gestureMap' = Bound(s)
           /\ failed' = FALSE /\ gaveUp' = FALSE /\ unread' = FALSE
  <2>1. failed' \in BOOLEAN /\ gaveUp' \in BOOLEAN /\ unread' \in BOOLEAN /\ lost' \in BOOLEAN
    BY <1>1, <1>3
  <2>2. globalGesturesToEntries' \in Keys /\ gestureMap' \subseteq Keystroke
    BY <1>2, <1>3
  <2> QED
    BY <1>1, <1>3, <2>1, <2>2
<1>4. CASE /\ file' = s /\ globalConfig' = <<>> /\ failed' = FALSE /\ unread' = TRUE
           /\ UNCHANGED <<keys, gaveUp>>
  <2>1. /\ failed' \in BOOLEAN /\ gaveUp' \in BOOLEAN /\ unread' \in BOOLEAN
        /\ lost' \in BOOLEAN
    BY <1>1, <1>4 DEF TypeOK
  <2>2. globalGesturesToEntries' \in Keys \cup {None} /\ gestureMap' \subseteq Keystroke
    BY <1>4 DEF TypeOK, keys
  <2>3. file' \in Config /\ globalConfig' \in Config /\ saves' \in Nat
    BY <1>1, <1>2, <1>4
  <2> QED
    BY <2>1, <2>2, <2>3
<1>5. CASE /\ file' \in {file, NoFile, Torn} /\ globalConfig' = s /\ failed' = TRUE
           /\ UNCHANGED <<keys, gaveUp, unread>>
  BY <1>1, <1>5 DEF TypeOK, keys
<1> QED
  BY <1>3, <1>4, <1>5 DEF Save, Reinstalled

\* The dialogs that stay open after a save refer to no list that is replaced.
LEMMA DetachTyped ==
  ASSUME NEW s \in Config, NEW q \in Seq(Dialog),
         dialogs' = [d \in DOMAIN q |-> [q[d] EXCEPT !.config = Detached(@, s)]]
  PROVE  /\ dialogs' \in Seq(Dialog) /\ DOMAIN dialogs' = DOMAIN q
         /\ \A d \in DOMAIN dialogs' :
              /\ dialogs'[d].over = q[d].over /\ dialogs'[d].original = q[d].original
              /\ dialogs'[d].config = OfPanel => q[d].config = OfPanel
<1>1. Len(q) \in Nat /\ DOMAIN q = 1..Len(q) /\ \A d \in DOMAIN q : q[d] \in Dialog
  BY LenProperties, ElementOfSeq
<1>2. ASSUME NEW x \in Dialog
      PROVE  /\ [x EXCEPT !.config = Detached(@, s)] \in Dialog
             /\ [x EXCEPT !.config = Detached(@, s)].over = x.over
             /\ [x EXCEPT !.config = Detached(@, s)].original = x.original
             /\ [x EXCEPT !.config = Detached(@, s)].config = OfPanel => x.config = OfPanel
  BY DEF Dialog, Detached
<1>3. dialogs' \in [1..Len(q) -> Dialog]
  BY <1>1, <1>2
<1>4. dialogs' \in Seq(Dialog)
  BY <1>1, <1>3, SeqDef
<1> QED
  BY <1>1, <1>2, <1>4

\* The panel's list after a change made in the panel.
LEMMA ChangeTyped ==
  ASSUME TypeInv, panel # None, NEW s \in Config, NEW removed \in SUBSET TSEntry,
         NEW added \in SUBSET TSEntry, ChangePanel(s, removed, added)
  PROVE  /\ panel' \in Panel /\ panel' # None /\ globalConfig' \in Config
         /\ overlapped' \in BOOLEAN
<1>1. panel \in Panel /\ globalConfig \in Config
  BY ViewTyped
<1>2. /\ panel' = [panel EXCEPT !.config = IF @ = Live THEN Live ELSE s,
                                !.removed = removed, !.added = added]
      /\ globalConfig' = IF panel.config = Live THEN s ELSE globalConfig
      /\ overlapped' = (overlapped \/ panel.config = Live)
  BY DEF ChangePanel
<1>3. panel' \in Panel
  BY <1>1, <1>2 DEF Panel
<1> QED
  BY <1>1, <1>2, <1>3 DEF TypeInv, TypeOK

LEMMA TypeInit == Init => TypeInv
<1> SUFFICES ASSUME Init PROVE TypeInv
  OBVIOUS
<1>1. <<>> \in Config /\ <<>> \in Seq(Dialog) /\ DOMAIN <<>> = {}
  BY EmptySeq DEF Config
<1> QED
  BY <1>1, ConfigTyped DEF Init, TypeInv, TypeOK, Standing

\* What a start leaves.
LEMMA LoadTyped == ASSUME TypeInv, Restart PROVE TypeInv'
<1>1. <<>> \in Config /\ <<>> \in Seq(Dialog) /\ DOMAIN <<>> = {}
  BY EmptySeq DEF Config
<1>2. /\ dialogs' = <<>> /\ panel' = None /\ globalGesturesToEntries' = None
      /\ gaveUp' \in BOOLEAN /\ failed' \in BOOLEAN /\ lost' \in BOOLEAN
      /\ gestureMap' \subseteq Keystroke /\ unread' \in BOOLEAN
      /\ UNCHANGED <<file, saves, wanted, overlapped>>
  BY DEF Restart, Load, TypeInv, TypeOK
<1>3. CASE plugin' = "failed" /\ globalConfig' = None /\ installer' = "none"
  BY <1>1, <1>2, <1>3 DEF TypeInv, TypeOK, Standing
<1>4. CASE /\ file # Torn /\ plugin' = "loading" /\ globalConfig' = Decoded
           /\ installer' = IF file = NoFile THEN "none" ELSE "waiting"
  <2>1. Decoded \in Config
    BY <1>1, <1>4 DEF Decoded, TypeInv, TypeOK
  <2>2. Decoded # None
    BY <2>1, ConfigTyped
  <2>3. installer' \in {"none", "waiting"}
    BY <1>4
  <2> QED
    BY <1>1, <1>2, <1>4, <2>1, <2>2, <2>3 DEF TypeInv, TypeOK, Standing
<1>5. CASE plugin' = "loading" /\ globalConfig' = <<>> /\ installer' = "none"
  <2>1. <<>> # None
    BY <1>1, ConfigTyped
  <2> QED
    BY <1>1, <1>2, <1>5, <2>1 DEF TypeInv, TypeOK, Standing
<1> QED
  BY <1>3, <1>4, <1>5 DEF Restart, Load

\* A dialog opens.
LEMMA ShownTyped ==
  ASSUME TypeInv, NEW index \in Nat, NEW original \in TSEntry \cup {None},
         NEW config \in {Live, OfPanel}, ShowDialog(index, original, config),
         UNCHANGED <<Others, panel>>,
         config = OfPanel => original # None /\ panel # None
  PROVE  TypeInv'
<1> DEFINE x == [index |-> index, original |-> original, config |-> config,
                 over |-> panel # None]
<1>1. x \in Dialog /\ dialogs' = Append(dialogs, x)
  BY DEF Dialog, ShowDialog
<1>2. x.over = (panel # None) /\ x.config = config /\ x.original = original
  OBVIOUS
<1> HIDE DEF x
<1>3. /\ dialogs' \in Seq(Dialog)
      /\ \A d \in DOMAIN dialogs' :
           (d \in DOMAIN dialogs /\ dialogs'[d] = dialogs[d]) \/ dialogs'[d] = x
  BY <1>1, OnTop DEF TypeInv
<1>4. TypeOK'
  BY <1>3 DEF TypeInv, TypeOK, Others, loaded, keys, faults
<1>5. Standing'
  <2>1. plugin = "registered" /\ UNCHANGED <<plugin, globalConfig, panel>>
    BY DEF ShowDialog, Others, loaded
  <2>2. ASSUME NEW d \in DOMAIN dialogs'
        PROVE  /\ dialogs'[d].over => panel # None
               /\ dialogs'[d].config = OfPanel => dialogs'[d].over /\ dialogs'[d].original # None
    <3>1. CASE d \in DOMAIN dialogs /\ dialogs'[d] = dialogs[d]
      BY <3>1 DEF TypeInv, Standing
    <3>2. CASE dialogs'[d] = x
      BY <1>2, <3>2
    <3> QED
      BY <1>3, <3>1, <3>2
  <2> QED
    BY <2>1, <2>2 DEF TypeInv, Standing
<1> QED
  BY <1>4, <1>5 DEF TypeInv

\* The uppermost dialog is closed with OK, or cancelled.
LEMMA PoppedTyped ==
  ASSUME TypeInv, dialogs # <<>>, dialogs' = Front(dialogs)
  PROVE  /\ dialogs' \in Seq(Dialog)
         /\ \A d \in DOMAIN dialogs' : d \in DOMAIN dialogs /\ dialogs'[d] = dialogs[d]
BY Stack DEF TypeInv

\* openEntryDialog stores an entry.
LEMMA DialogOkTyped ==
  ASSUME TypeInv, dialogs # <<>>, NEW e \in TSEntry, DialogOk(Last(dialogs), e)
  PROVE  TypeInv'
<1> DEFINE dialog == Last(dialogs)
           below == Front(dialogs)
           s == Put(globalConfig, dialog.index, e)
<1>1. /\ Len(dialogs) \in DOMAIN dialogs /\ dialog = dialogs[Len(dialogs)] /\ dialog \in Dialog
      /\ below \in Seq(Dialog)
      /\ \A d \in DOMAIN below : d \in DOMAIN dialogs /\ below[d] = dialogs[d]
  BY Stack DEF TypeInv
<1>2. plugin = "registered" /\ globalConfig \in Config /\ dialog.index \in Nat
  BY <1>1, ViewTyped DEF Dialog
<1>3. s \in Config /\ Save(s)
  BY <1>2, PutKeeps DEF DialogOk
<1>4. /\ file' \in Config \cup {NoFile, Torn} /\ globalConfig' \in Config
      /\ globalGesturesToEntries' \in Keys \cup {None} /\ gestureMap' \subseteq Keystroke
      /\ saves' \in Nat /\ gaveUp' \in BOOLEAN
      /\ failed' \in BOOLEAN /\ unread' \in BOOLEAN /\ lost' \in BOOLEAN
  BY <1>3, SaveTyped DEF TypeInv
<1>5. UNCHANGED <<plugin, installer>>
  BY <1>3 DEF Save
<1>6. IF failed' THEN dialogs' = below /\ UNCHANGED panel
      ELSE /\ dialogs' = [d \in DOMAIN below |-> [below[d] EXCEPT !.config = Detached(@, s)]]
           /\ panel' = IF panel = None THEN None ELSE [panel EXCEPT !.config = Detached(@, s)]
  BY DEF DialogOk
<1>7. wanted' \subseteq TSEntry
  BY DEF DialogOk, Asked, TypeInv, TypeOK
<1>8. overlapped' \in BOOLEAN
  BY DEF DialogOk, TypeInv, TypeOK
<1> HIDE DEF dialog, below, s
<1>9. /\ panel' \in Panel \cup {None} /\ (panel # None => panel' # None)
  <2>1. CASE panel = None
    BY <1>6, <2>1
  <2>2. CASE panel # None
    <3>1. panel \in Panel
      BY <2>2, ViewTyped
    <3>2. [panel EXCEPT !.config = Detached(@, s)] \in Panel
      BY <1>3, <3>1 DEF Panel, Detached
    <3> QED
      BY <1>6, <2>2, <3>1, <3>2
  <2> QED
    BY <2>1, <2>2
<1>10. /\ dialogs' \in Seq(Dialog) /\ DOMAIN dialogs' = DOMAIN below
       /\ \A d \in DOMAIN dialogs' :
            /\ dialogs'[d].over = below[d].over /\ dialogs'[d].original = below[d].original
            /\ dialogs'[d].config = OfPanel => below[d].config = OfPanel
  <2>1. CASE failed'
    BY <1>1, <1>6, <2>1
  <2>2. CASE ~failed'
    BY <1>1, <1>3, <1>6, <2>2, DetachTyped
  <2> QED
    BY <2>1, <2>2
<1>11. TypeOK'
  BY <1>4, <1>5, <1>7, <1>8, <1>9, <1>10 DEF TypeInv, TypeOK
<1>12. Standing'
  BY <1>1, <1>2, <1>4, <1>5, <1>9, <1>10 DEF TypeInv, Standing
<1> QED
  BY <1>11, <1>12 DEF TypeInv

\* The list of the panel changes.
LEMMA PanelTyped ==
  ASSUME TypeInv, panel # None, NEW s \in Config, NEW removed \in SUBSET TSEntry,
         NEW added \in SUBSET TSEntry, ChangePanel(s, removed, added),
         dialogs' \in Seq(Dialog),
         \A d \in DOMAIN dialogs' : d \in DOMAIN dialogs /\ dialogs'[d] = dialogs[d]
  PROVE  TypeInv'
<1>1. /\ panel' \in Panel /\ panel' # None /\ globalConfig' \in Config
      /\ overlapped' \in BOOLEAN /\ plugin = "registered"
  BY ChangeTyped, ViewTyped
<1>2. UNCHANGED <<loaded, file, keys, saves, wanted, faults>>
  BY DEF ChangePanel
<1>3. TypeOK'
  BY <1>1, <1>2 DEF TypeInv, TypeOK, loaded, keys, faults
<1>4. Standing'
  BY <1>1, <1>2 DEF TypeInv, Standing, loaded
<1> QED
  BY <1>3, <1>4 DEF TypeInv

\* OK or Apply in the settings dialog.
LEMMA OnSaveTyped == ASSUME TypeInv, NEW close \in BOOLEAN, OnSave(close) PROVE TypeInv'
<1>1. /\ plugin = "registered" /\ panel \in Panel /\ PanelEntries \in Config
      /\ dialogs \in Seq(Dialog) /\ globalConfig \in Config
  BY ViewTyped, Stack DEF TypeInv, OnSave, PanelUsable
<1>2. /\ file' \in Config \cup {NoFile, Torn} /\ globalConfig' \in Config
      /\ globalGesturesToEntries' \in Keys \cup {None} /\ gestureMap' \subseteq Keystroke
      /\ saves' \in Nat /\ gaveUp' \in BOOLEAN
      /\ failed' \in BOOLEAN /\ unread' \in BOOLEAN /\ lost' \in BOOLEAN
  BY <1>1, SaveTyped DEF OnSave, TypeInv
<1>3. UNCHANGED <<plugin, installer>>
  BY DEF OnSave, Save
<1>4. /\ dialogs' \in Seq(Dialog)
      /\ DOMAIN dialogs' = DOMAIN dialogs
      /\ \A d \in DOMAIN dialogs' :
           /\ dialogs'[d].over = dialogs[d].over /\ dialogs'[d].original = dialogs[d].original
           /\ dialogs'[d].config = OfPanel => dialogs[d].config = OfPanel
  <2>1. CASE dialogs' = dialogs
    BY <1>1, <2>1
  <2>2. CASE dialogs' = [d \in DOMAIN dialogs |->
                           [dialogs[d] EXCEPT !.config = Detached(@, globalConfig)]]
    BY <1>1, <2>2, DetachTyped
  <2> QED
    BY <2>1, <2>2 DEF OnSave
<1>5. panel' \in Panel \cup {None}
  <2>1. [panel EXCEPT !.config = Live] \in Panel
        /\ [config |-> PanelEntries, removed |-> {}, added |-> {}] \in Panel
    BY <1>1 DEF Panel
  <2> QED
    BY <2>1 DEF OnSave
<1>6. wanted' \subseteq TSEntry
  BY <1>1 DEF OnSave, Panel, TypeInv, TypeOK
<1>7. overlapped' \in BOOLEAN
  BY DEF OnSave, TypeInv, TypeOK
<1>8. \A d \in DOMAIN dialogs : ~dialogs[d].over /\ dialogs[d].config # OfPanel
  BY DEF OnSave, PanelUsable, TypeInv, Standing
<1>9. TypeOK'
  BY <1>2, <1>3, <1>4, <1>5, <1>6, <1>7 DEF TypeInv, TypeOK
<1>10. Standing'
  BY <1>1, <1>2, <1>3, <1>4, <1>8 DEF TypeInv, Standing
<1> QED
  BY <1>9, <1>10 DEF TypeInv

LEMMA TypeNext == ASSUME TypeInv, [Next]_vars PROVE TypeInv'
<1>1. CASE Restart
  BY <1>1, LoadTyped
<1>2. CASE DeleteFile \/ Register
  BY <1>2 DEF DeleteFile, Register, loaded, keys, faults, TypeInv, TypeOK, Standing
<1>3. CASE InstallKeystrokes
  <2>1. plugin = "registered" /\ globalConfig \in Config
    BY <1>3, ViewTyped DEF InstallKeystrokes, Resumes
  <2>2. /\ globalGesturesToEntries' \in Keys \cup {None} /\ gestureMap' \subseteq Keystroke
        /\ gaveUp' \in BOOLEAN
    BY <1>3, <2>1, KeysTyped DEF InstallKeystrokes, keys, TypeInv, TypeOK
  <2> QED
    BY <1>3, <2>2 DEF InstallKeystrokes, faults, TypeInv, TypeOK, Standing
<1>4. CASE OpenCreate
  BY <1>4, ShownTyped DEF OpenCreate
<1>5. CASE OpenPanel
  <2>1. globalConfig \in Config
    BY <1>5, ViewTyped DEF OpenPanel
  <2>2. [config |-> globalConfig, removed |-> {}, added |-> {}] \in Panel
    BY <2>1 DEF Panel
  <2> QED
    BY <1>5, <2>2 DEF OpenPanel, Others, loaded, keys, faults, TypeInv, TypeOK, Standing
<1>6. CASE ClosePanel
  BY <1>6 DEF ClosePanel, PanelUsable, Others, loaded, keys, faults, TypeInv, TypeOK, Standing
<1>7. CASE DialogCancel
  <2>1. /\ dialogs' \in Seq(Dialog)
        /\ \A d \in DOMAIN dialogs' : d \in DOMAIN dialogs /\ dialogs'[d] = dialogs[d]
    BY <1>7, PoppedTyped DEF DialogCancel
  <2>2. plugin = "registered"
    <3>1. DOMAIN dialogs # {}
      BY <1>7, Stack DEF DialogCancel, TypeInv
    <3> QED
      BY <3>1, ViewTyped
  <2> QED
    BY <1>7, <2>1, <2>2 DEF DialogCancel, Others, loaded, keys, faults, TypeInv, TypeOK, Standing
<1>8. ASSUME NEW e \in TSEntry, dialogs # <<>>, DialogOk(Last(dialogs), e) PROVE TypeInv'
  BY <1>8, DialogOkTyped
<1>9. ASSUME NEW e \in TSEntry, dialogs # <<>>, DialogIndexError(Last(dialogs), e)
      PROVE  TypeInv'
  <2>1. /\ dialogs' \in Seq(Dialog)
        /\ \A d \in DOMAIN dialogs' : d \in DOMAIN dialogs /\ dialogs'[d] = dialogs[d]
    BY <1>9, PoppedTyped DEF DialogIndexError
  <2>2. plugin = "registered"
    BY <1>9, Stack, ViewTyped DEF TypeInv
  <2>3. wanted' \subseteq TSEntry /\ overlapped' \in BOOLEAN
    BY <1>9 DEF DialogIndexError, Asked, TypeInv, TypeOK
  <2>4. UNCHANGED <<loaded, file, globalConfig, keys, panel, saves, faults>>
    BY <1>9 DEF DialogIndexError
  <2>5. TypeOK'
    BY <2>1, <2>3, <2>4 DEF loaded, keys, faults, TypeInv, TypeOK
  <2>6. Standing'
    BY <2>1, <2>2, <2>4 DEF loaded, TypeInv, Standing
  <2> QED
    BY <2>5, <2>6 DEF TypeInv
<1>10. ASSUME NEW e \in TSEntry, dialogs # <<>>, OnEditOk(Last(dialogs), e) PROVE TypeInv'
  <2> DEFINE dialog == Last(dialogs)
  <2>1. /\ Len(dialogs) \in DOMAIN dialogs /\ dialog = dialogs[Len(dialogs)]
        /\ dialog \in Dialog /\ dialog.config = OfPanel
    BY <1>10, Stack DEF TypeInv, OnEditOk
  <2>2. panel # None /\ dialog.original \in TSEntry /\ dialog.index \in Nat
    BY <2>1 DEF TypeInv, Standing, Dialog
  <2>3. panel \in Panel /\ PanelEntries \in Config
    BY <2>2, ViewTyped
  <2>4. /\ Put(PanelEntries, dialog.index, e) \in Config
        /\ panel.removed \cup {dialog.original} \in SUBSET TSEntry
        /\ (panel.added \ {dialog.original}) \cup {e} \in SUBSET TSEntry
    BY <2>2, <2>3, PutKeeps DEF Panel
  <2>5. /\ dialogs' \in Seq(Dialog)
        /\ \A d \in DOMAIN dialogs' : d \in DOMAIN dialogs /\ dialogs'[d] = dialogs[d]
    BY <1>10, PoppedTyped DEF OnEditOk
  <2>6. ChangePanel(Put(PanelEntries, dialog.index, e), panel.removed \cup {dialog.original},
                    (panel.added \ {dialog.original}) \cup {e})
    BY <1>10 DEF OnEditOk
  <2> HIDE DEF dialog
  <2> QED
    BY <2>2, <2>4, <2>5, <2>6, PanelTyped
<1>11. ASSUME plugin = "registered", NEW i \in DOMAIN globalConfig, OpenEdit(i) PROVE TypeInv'
  <2>1. globalConfig \in Config
    BY <1>11, ViewTyped
  <2>2. i \in Nat /\ globalConfig[i] \in TSEntry
    BY <2>1, ConfigTyped
  <2> QED
    BY <1>11, <2>2, ShownTyped DEF OpenEdit
<1>12. ASSUME PanelUsable, NEW i \in DOMAIN PanelEntries, OnEditClick(i) \/ OnRemoveClick(i)
       PROVE  TypeInv'
  <2>1. panel # None /\ panel \in Panel /\ PanelEntries \in Config
    BY <1>12, ViewTyped DEF PanelUsable
  <2>2. i \in Nat /\ PanelEntries[i] \in TSEntry
    BY <2>1, ConfigTyped
  <2>3. CASE OnEditClick(i)
    <3>1. PanelEntries[i] # None
      BY <2>2
    <3> QED
      BY <2>1, <2>2, <2>3, <3>1, ShownTyped DEF OnEditClick
  <2>4. CASE OnRemoveClick(i)
    <3>1. /\ RemoveAt(PanelEntries, i) \in Config
          /\ panel.removed \cup {PanelEntries[i]} \in SUBSET TSEntry
          /\ panel.added \ {PanelEntries[i]} \in SUBSET TSEntry
      BY <2>1, <2>2, RemoveKeeps DEF Panel
    <3>2. dialogs' \in Seq(Dialog) /\ dialogs' = dialogs
      BY <2>4, Stack DEF OnRemoveClick, TypeInv
    <3> QED
      BY <2>1, <2>4, <3>1, <3>2, PanelTyped DEF OnRemoveClick
  <2> QED
    BY <1>12, <2>3, <2>4
<1>13. ASSUME NEW close \in BOOLEAN, OnSave(close) PROVE TypeInv'
  BY <1>13, OnSaveTyped
<1>14. CASE UNCHANGED vars
  BY <1>14 DEF vars, loaded, keys, faults, TypeInv, TypeOK, Standing
<1> QED
  BY <1>1, <1>2, <1>3, <1>4, <1>5, <1>6, <1>7, <1>8, <1>9, <1>10, <1>11, <1>12, <1>13, <1>14
  DEF Next, InDialog

\* Type correctness: however dialogs overlap and saves fail, the configuration
\* is a list of entries, the keystrokes are a table of entries, and every open
\* dialog of the panel has its panel.
THEOREM TypeCorrect == Spec => []TypeOK
<1>1. TypeInv => TypeOK
  BY DEF TypeInv
<1> QED
  BY <1>1, TypeInit, TypeNext, PTL DEF Spec

-----------------------------------------------------------------------------
(* What the steps do as long as nothing overlaps.                          *)

\* A dialog opens on top of the others.
LEMMA Shown ==
  ASSUME TypeInv, NEW index \in Nat, NEW original \in TSEntry \cup {None},
         NEW config \in {Live, OfPanel}, ShowDialog(index, original, config),
         UNCHANGED <<Others, panel>>
  PROVE  /\ \A d \in DOMAIN dialogs' :
              \/ d \in DOMAIN dialogs /\ dialogs'[d] = dialogs[d]
              \/ /\ dialogs'[d].index = index /\ dialogs'[d].original = original
                 /\ dialogs'[d].config = config
         /\ UNCHANGED <<Others, panel>> /\ PanelEntries' = PanelEntries
<1> DEFINE x == [index |-> index, original |-> original, config |-> config,
                 over |-> panel # None]
<1>1. x \in Dialog /\ dialogs' = Append(dialogs, x)
  BY DEF Dialog, ShowDialog
<1>2. x.index = index /\ x.config = config /\ x.original = original
  OBVIOUS
<1> HIDE DEF x
<1>3. \A d \in DOMAIN dialogs' :
        (d \in DOMAIN dialogs /\ dialogs'[d] = dialogs[d]) \/ dialogs'[d] = x
  BY <1>1, OnTop DEF TypeInv
<1> QED
  BY <1>2, <1>3 DEF Others, PanelEntries

\* The popup menu stores an entry while no other dialog is open.
LEMMA DialogOkAlone ==
  ASSUME UniqueInv, dialogs # <<>>, NEW e \in TSEntry, DialogOk(Last(dialogs), e), ~overlapped'
  PROVE  LET dialog == Last(dialogs)
             s == Put(globalConfig, dialog.index, e)
         IN /\ Len(dialogs) \in DOMAIN dialogs /\ dialog = dialogs[Len(dialogs)]
            /\ dialog \in Dialog /\ View(dialog) = globalConfig
            /\ globalConfig \in Config /\ Unique(globalConfig)
            /\ s \in Config /\ Unique(s) /\ Save(s)
            /\ wanted' = Asked(dialog, e)
            /\ panel = None /\ panel' = None /\ DOMAIN dialogs' = {}
<1> DEFINE dialog == Last(dialogs)
           s == Put(globalConfig, dialog.index, e)
<1>1. ~overlapped /\ Len(dialogs) <= 1 /\ panel = None
  <2>1. ~overlapped /\ ~(Len(dialogs) > 1) /\ panel = None
    BY DEF DialogOk
  <2>2. Len(dialogs) \in Nat
    BY Stack DEF UniqueInv, TypeInv
  <2> QED
    BY <2>1, <2>2
<1>2. /\ Len(dialogs) \in DOMAIN dialogs /\ dialog = dialogs[Len(dialogs)] /\ dialog \in Dialog
      /\ Front(dialogs) = <<>>
  BY <1>1, Stack DEF UniqueInv, TypeInv
<1>3. globalConfig \in Config /\ dialog.index \in Nat /\ plugin = "registered"
  BY <1>2, ViewTyped DEF Dialog, UniqueInv
<1>4. Unique(globalConfig)
  BY <1>1, <1>3, ConfigTyped DEF UniqueInv, UniqueEverywhere
<1>5. View(dialog) = globalConfig
  <2>1. dialog.config = Live
    BY <1>1, <1>2 DEF UniqueInv, UniqueEverywhere, DialogOk
  <2> QED
    BY <2>1 DEF View
<1>6. s \in Config /\ Unique(s)
  BY <1>3, <1>4, <1>5, PutKeeps DEF DialogOk, Confirm
<1>7. Save(s) /\ wanted' = Asked(dialog, e)
  BY DEF DialogOk
<1>8. panel' = None
  BY <1>1 DEF DialogOk
<1>9. DOMAIN dialogs' = {}
  <2>1. DOMAIN Front(dialogs) = {}
    BY <1>2
  <2>2. dialogs' = Front(dialogs)
        \/ dialogs' = [d \in DOMAIN Front(dialogs) |->
                         [Front(dialogs)[d] EXCEPT !.config = Detached(@, s)]]
    BY DEF DialogOk
  <2> QED
    BY <2>1, <2>2
<1> QED
  BY <1>1, <1>2, <1>3, <1>4, <1>5, <1>6, <1>7, <1>8, <1>9

\* A change in a panel that has its own list.
LEMMA ChangeAlone ==
  ASSUME TypeInv, panel # None, NEW s \in Config, NEW removed \in SUBSET TSEntry,
         NEW added \in SUBSET TSEntry, ChangePanel(s, removed, added), ~overlapped'
  PROVE  /\ PanelEntries' = s /\ panel'.removed = removed /\ panel'.added = added
         /\ panel.config # Live /\ panel'.config # Live
         /\ UNCHANGED <<loaded, file, globalConfig, keys, saves, wanted, overlapped, faults>>
<1>1. panel \in Panel /\ panel.config # Live
  BY ViewTyped DEF ChangePanel
<1>2. panel'.config = s /\ panel'.removed = removed /\ panel'.added = added
  BY <1>1 DEF ChangePanel, Panel
<1>3. s # Live
  BY ConfigTyped
<1>4. overlapped' = overlapped
  <2>1. overlapped' = (overlapped \/ panel.config = Live) /\ overlapped \in BOOLEAN
    BY DEF ChangePanel, TypeInv, TypeOK
  <2> QED
    BY <1>1, <2>1
<1>5. UNCHANGED <<loaded, file, globalConfig, keys, saves, wanted, faults>>
  BY <1>1 DEF ChangePanel
<1>6. PanelEntries' = s
  BY <1>2, <1>3 DEF PanelEntries
<1> QED
  BY <1>1, <1>2, <1>3, <1>4, <1>5, <1>6

\* The panel is saved while no dialog is open.
LEMMA OnSaveAlone ==
  ASSUME UniqueInv, NEW close \in BOOLEAN, OnSave(close), ~overlapped'
  PROVE  /\ panel # None /\ PanelEntries \in Config /\ Unique(PanelEntries)
         /\ Save(PanelEntries)
         /\ wanted' = Applied /\ DOMAIN dialogs' = {}
         /\ \/ panel' = None
            \/ /\ PanelEntries' = PanelEntries
               /\ \/ panel'.removed = panel.removed /\ panel'.added = panel.added
                  \/ panel'.removed = {} /\ panel'.added = {}
<1>1. ~overlapped /\ dialogs = <<>> /\ panel # None
  BY DEF OnSave, PanelUsable
<1>2. PanelEntries \in Config /\ panel \in Panel /\ PanelEntries # Live
  BY <1>1, ViewTyped, ConfigTyped DEF UniqueInv
<1>3. Unique(PanelEntries)
  BY <1>1 DEF UniqueInv, UniqueEverywhere
<1>4. Save(PanelEntries) /\ wanted' = Applied
  BY DEF OnSave, Applied
<1>5. DOMAIN dialogs' = {}
  <2>1. DOMAIN dialogs = {}
    BY <1>1
  <2>2. dialogs' = dialogs
        \/ dialogs' = [d \in DOMAIN dialogs |->
                         [dialogs[d] EXCEPT !.config = Detached(@, globalConfig)]]
    BY DEF OnSave
  <2> QED
    BY <2>1, <2>2
<1>6. CASE failed' /\ panel' = [panel EXCEPT !.config = Live]
  <2>1. /\ panel'.config = Live /\ globalConfig' = PanelEntries
        /\ panel'.removed = panel.removed /\ panel'.added = panel.added
    BY <1>2, <1>4, <1>6 DEF Panel, Save
  <2>2. panel' # None => PanelEntries' = PanelEntries
    BY <2>1 DEF PanelEntries
  <2> QED
    BY <1>1, <1>2, <1>3, <1>4, <1>5, <2>1, <2>2
<1>7. CASE panel' = [config |-> PanelEntries, removed |-> {}, added |-> {}]
  <2>1. panel'.config = PanelEntries /\ panel'.removed = {} /\ panel'.added = {}
    BY <1>7
  <2>2. PanelEntries' = PanelEntries
    <3> DEFINE s == PanelEntries
    <3>1. s # Live /\ panel'.config = s
      BY <1>2, <2>1
    <3> QED
      BY <3>1 DEF PanelEntries
  <2> QED
    BY <1>1, <1>2, <1>3, <1>4, <1>5, <2>1, <2>2
<1>8. CASE panel' = None
  BY <1>1, <1>2, <1>3, <1>4, <1>5, <1>8
<1> QED
  BY <1>6, <1>7, <1>8 DEF OnSave

\* The panel's dialog changes the panel's list.
LEMMA OnEditOkAlone ==
  ASSUME UniqueInv, dialogs # <<>>, NEW e \in TSEntry, OnEditOk(Last(dialogs), e), ~overlapped'
  PROVE  LET dialog == Last(dialogs)
             s == Put(PanelEntries, dialog.index, e)
         IN /\ Len(dialogs) \in DOMAIN dialogs /\ dialog = dialogs[Len(dialogs)]
            /\ dialog \in Dialog /\ dialog.original \in TSEntry /\ panel \in Panel /\ panel # None
            /\ View(dialog) = PanelEntries
            /\ PanelEntries \in Config /\ Unique(PanelEntries)
            /\ s \in Config /\ Unique(s) /\ PanelEntries' = s
            /\ panel'.removed = panel.removed \cup {dialog.original}
            /\ panel'.added = (panel.added \ {dialog.original}) \cup {e}
            /\ dialogs' = Front(dialogs)
            /\ UNCHANGED <<loaded, file, globalConfig, keys, saves, wanted, overlapped, faults>>
<1> DEFINE dialog == Last(dialogs)
           s == Put(PanelEntries, dialog.index, e)
<1>1. /\ Len(dialogs) \in DOMAIN dialogs /\ dialog = dialogs[Len(dialogs)]
      /\ dialog \in Dialog /\ dialog.config = OfPanel
  BY Stack DEF UniqueInv, TypeInv, OnEditOk
<1>2. panel # None /\ dialog.original \in TSEntry /\ dialog.index \in Nat
  BY <1>1 DEF UniqueInv, TypeInv, Standing, Dialog
<1>3. panel \in Panel /\ PanelEntries \in Config
  BY <1>2, ViewTyped DEF UniqueInv
<1>4. View(dialog) = PanelEntries
  BY <1>1 DEF View
<1>5. ~overlapped
  BY DEF OnEditOk, ChangePanel
<1>6. Unique(PanelEntries)
  BY <1>2, <1>5 DEF UniqueInv, UniqueEverywhere
<1>7. s \in Config /\ Unique(s)
  BY <1>2, <1>3, <1>4, <1>6, PutKeeps DEF OnEditOk, Confirm
<1> DEFINE removed == panel.removed \cup {dialog.original}
           added == (panel.added \ {dialog.original}) \cup {e}
<1>8. removed \in SUBSET TSEntry /\ added \in SUBSET TSEntry
  BY <1>2, <1>3 DEF Panel
<1>9. ChangePanel(s, removed, added) /\ dialogs' = Front(dialogs)
  BY DEF OnEditOk
<1>10. /\ PanelEntries' = s /\ panel'.removed = removed /\ panel'.added = added
       /\ UNCHANGED <<loaded, file, globalConfig, keys, saves, wanted, overlapped, faults>>
  <2> HIDE DEF s, removed, added
  <2> QED
    BY <1>2, <1>7, <1>8, <1>9, ChangeAlone DEF UniqueInv
<1> QED
  BY <1>1, <1>2, <1>3, <1>4, <1>6, <1>7, <1>9, <1>10

\* An entry is removed from the panel's list.
LEMMA RemoveAlone ==
  ASSUME UniqueInv, PanelUsable, NEW i \in DOMAIN PanelEntries, OnRemoveClick(i), ~overlapped'
  PROVE  LET s == RemoveAt(PanelEntries, i)
             e == PanelEntries[i]
         IN /\ panel # None /\ PanelEntries \in Config /\ Unique(PanelEntries)
            /\ s \in Config /\ Unique(s) /\ PanelEntries' = s
            /\ panel'.removed = panel.removed \cup {e} /\ panel'.added = panel.added \ {e}
            /\ UNCHANGED <<loaded, file, globalConfig, keys, saves, wanted, overlapped, faults,
                           dialogs>>
<1> DEFINE s == RemoveAt(PanelEntries, i)
           e == PanelEntries[i]
           removed == panel.removed \cup {e}
           added == panel.added \ {e}
<1>1. panel # None /\ panel \in Panel /\ PanelEntries \in Config /\ e \in TSEntry
  BY ViewTyped, ConfigTyped DEF UniqueInv, PanelUsable
<1>2. ~overlapped
  BY DEF OnRemoveClick, ChangePanel
<1>3. Unique(PanelEntries)
  BY <1>1, <1>2 DEF UniqueInv, UniqueEverywhere
<1>4. s \in Config /\ Unique(s)
  BY <1>1, <1>3, RemoveKeeps
<1>5. removed \in SUBSET TSEntry /\ added \in SUBSET TSEntry
  BY <1>1 DEF Panel
<1>6. ChangePanel(s, removed, added) /\ UNCHANGED dialogs
  BY DEF OnRemoveClick
<1>7. /\ PanelEntries' = s /\ panel'.removed = removed /\ panel'.added = added
      /\ UNCHANGED <<loaded, file, globalConfig, keys, saves, wanted, overlapped, faults>>
  <2> HIDE DEF s, removed, added
  <2> QED
    BY <1>1, <1>4, <1>5, <1>6, ChangeAlone DEF UniqueInv
<1> QED
  BY <1>1, <1>3, <1>4, <1>6, <1>7

-----------------------------------------------------------------------------
(* No clashes.                                                             *)

LEMMA UniqueInit == Init => UniqueInv
<1> SUFFICES ASSUME Init PROVE UniqueInv
  OBVIOUS
<1>1. TypeInv
  BY TypeInit
<1> QED
  BY <1>1 DEF Init, UniqueInv, UniqueEverywhere, Unique

\* Overlapping is remembered for good.
LEMMA StaysOverlapped == ASSUME TypeInv, [Next]_vars, overlapped PROVE overlapped'
<1>1. overlapped = TRUE
  BY DEF TypeInv, TypeOK
<1> QED
  BY <1>1 DEF Next, vars, Restart, DeleteFile, Register, InstallKeystrokes, OpenCreate, OpenPanel,
    ClosePanel, DialogCancel, InDialog, DialogOk, DialogIndexError, OnEditOk, OpenEdit,
    OnEditClick, OnRemoveClick, OnSave, ChangePanel, Others

LEMMA UniqueStep == ASSUME UniqueInv, [Next]_vars, ~overlapped' PROVE UniqueEverywhere'
<1>1. /\ TypeInv /\ ~overlapped
      /\ globalConfig # None => Unique(globalConfig)
      /\ file \in Config => Unique(file)
      /\ panel # None => Unique(PanelEntries)
      /\ \A d \in DOMAIN dialogs : dialogs[d].config \in {Live, OfPanel}
  BY StaysOverlapped DEF UniqueInv, UniqueEverywhere
<1>2. CASE Restart
  <2>1. Unique(<<>>) /\ panel' = None /\ DOMAIN dialogs' = {} /\ file' = file
    BY <1>2 DEF Restart, Load, Unique
  <2>2. globalConfig' # None => Unique(globalConfig')
    <3>1. CASE globalConfig' = Decoded /\ file # Torn
      <4>1. file = NoFile \/ file \in Config
        BY <1>1, <3>1 DEF TypeInv, TypeOK
      <4> QED
        BY <1>1, <2>1, <3>1, <4>1 DEF Decoded
    <3> QED
      BY <1>2, <2>1, <3>1 DEF Restart, Load
  <2> QED
    BY <1>1, <2>1, <2>2 DEF UniqueEverywhere
<1>3. CASE UNCHANGED <<globalConfig, panel, dialogs>> /\ file' \in {file, NoFile}
  BY <1>1, <1>3 DEF UniqueEverywhere, PanelEntries
<1>4. ASSUME NEW index \in Nat, NEW original \in TSEntry \cup {None},
             NEW config \in {Live, OfPanel}, ShowDialog(index, original, config),
             UNCHANGED <<Others, panel>>
      PROVE  UniqueEverywhere'
  <2>1. /\ \A d \in DOMAIN dialogs' :
             \/ d \in DOMAIN dialogs /\ dialogs'[d] = dialogs[d]
             \/ dialogs'[d].config = config
        /\ UNCHANGED <<Others, panel>> /\ PanelEntries' = PanelEntries
    BY <1>1, <1>4, Shown
  <2>2. \A d \in DOMAIN dialogs' : dialogs'[d].config \in {Live, OfPanel}
    BY <1>1, <2>1
  <2> QED
    BY <1>1, <2>1, <2>2 DEF UniqueEverywhere, Others
<1>5. CASE OpenPanel
  <2>1. globalConfig \in Config /\ globalConfig # Live /\ globalConfig # None
    BY <1>1, <1>5, ViewTyped, ConfigTyped DEF OpenPanel
  <2>2. PanelEntries' = globalConfig
    <3>1. panel'.config = globalConfig
      BY <1>5 DEF OpenPanel
    <3> QED
      BY <2>1, <3>1 DEF PanelEntries
  <2> QED
    BY <1>1, <1>5, <2>1, <2>2 DEF UniqueEverywhere, OpenPanel, Others
<1>6. CASE ClosePanel
  BY <1>1, <1>6 DEF UniqueEverywhere, ClosePanel, Others
<1>7. CASE DialogCancel
  <2>1. /\ \A d \in DOMAIN dialogs' : d \in DOMAIN dialogs /\ dialogs'[d] = dialogs[d]
        /\ UNCHANGED <<Others, panel>> /\ PanelEntries' = PanelEntries
    BY <1>1, <1>7, PoppedTyped DEF DialogCancel, Others, PanelEntries
  <2> QED
    BY <1>1, <2>1 DEF UniqueEverywhere, Others
<1>8. ASSUME NEW s \in Config, Unique(s), Save(s)
      PROVE  /\ globalConfig' # None => Unique(globalConfig')
             /\ file' \in Config => Unique(file')
  <2>1. Unique(<<>>) /\ NoFile \notin Config /\ Torn \notin Config
    BY DEF Unique
  <2>2. globalConfig' = s \/ globalConfig' = <<>>
    BY <1>8 DEF Save
  <2>3. file' = s \/ file' \in {file, NoFile, Torn}
    BY <1>8 DEF Save
  <2> QED
    BY <1>1, <1>8, <2>1, <2>2, <2>3
<1>9. ASSUME NEW e \in TSEntry, dialogs # <<>>, DialogOk(Last(dialogs), e)
      PROVE  UniqueEverywhere'
  <2>1. PICK s \in Config : Unique(s) /\ Save(s) /\ panel' = None /\ DOMAIN dialogs' = {}
    BY <1>9, DialogOkAlone
  <2> QED
    BY <1>8, <2>1 DEF UniqueEverywhere
<1>10. ASSUME NEW e \in TSEntry, dialogs # <<>>, OnEditOk(Last(dialogs), e)
       PROVE  UniqueEverywhere'
  <2>1. /\ UNCHANGED <<file, globalConfig>> /\ Unique(PanelEntries') /\ dialogs' = Front(dialogs)
    BY <1>10, OnEditOkAlone
  <2>2. \A d \in DOMAIN dialogs' : d \in DOMAIN dialogs /\ dialogs'[d] = dialogs[d]
    BY <1>1, <1>10, <2>1, PoppedTyped
  <2> QED
    BY <1>1, <2>1, <2>2 DEF UniqueEverywhere
<1>11. ASSUME PanelUsable, NEW i \in DOMAIN PanelEntries, OnRemoveClick(i)
       PROVE  UniqueEverywhere'
  <2>1. UNCHANGED <<file, globalConfig, dialogs>> /\ Unique(PanelEntries')
    BY <1>11, RemoveAlone
  <2> QED
    BY <1>1, <2>1 DEF UniqueEverywhere
<1>12. ASSUME NEW close \in BOOLEAN, OnSave(close) PROVE UniqueEverywhere'
  <2>1. /\ PanelEntries \in Config /\ Unique(PanelEntries) /\ Save(PanelEntries)
        /\ DOMAIN dialogs' = {} /\ (panel' = None \/ PanelEntries' = PanelEntries)
    BY <1>12, OnSaveAlone
  <2> QED
    BY <1>8, <2>1 DEF UniqueEverywhere
<1>13. CASE OpenCreate
  BY <1>4, <1>13 DEF OpenCreate
<1>14. ASSUME plugin = "registered", NEW i \in DOMAIN globalConfig, OpenEdit(i)
       PROVE  UniqueEverywhere'
  <2>1. i \in Nat /\ globalConfig[i] \in TSEntry
    BY <1>1, <1>14, ViewTyped, ConfigTyped
  <2> QED
    BY <1>4, <1>14, <2>1 DEF OpenEdit
<1>15. ASSUME PanelUsable, NEW i \in DOMAIN PanelEntries, OnEditClick(i) PROVE UniqueEverywhere'
  <2>1. i \in Nat /\ PanelEntries[i] \in TSEntry
    BY <1>1, <1>15, ViewTyped, ConfigTyped DEF PanelUsable
  <2> QED
    BY <1>4, <1>15, <2>1 DEF OnEditClick
<1>16. CASE DeleteFile \/ Register \/ InstallKeystrokes \/ UNCHANGED vars
  BY <1>3, <1>16 DEF DeleteFile, Register, InstallKeystrokes, vars
<1>17. ASSUME NEW e \in TSEntry, DialogIndexError(Last(dialogs), e) PROVE FALSE
  BY <1>17 DEF DialogIndexError
<1> QED
  BY <1>2, <1>5, <1>6, <1>7, <1>9, <1>10, <1>11, <1>12, <1>13, <1>14, <1>15, <1>16, <1>17
  DEF Next, InDialog

LEMMA UniqueNext == ASSUME UniqueInv, [Next]_vars PROVE UniqueInv'
BY TypeNext, UniqueStep DEF UniqueInv, UniqueEverywhere

\* No two entries share a name or a keystroke: for any number of entries, the
\* check of the edit dialog is made against the list that it changes, and no
\* save, failed save, restart or panel brings back another list.
THEOREM EntriesStayUnique == Spec => []EntriesAreUnique
<1>1. UniqueInv => EntriesAreUnique
  BY DEF UniqueInv, UniqueEverywhere, Unique, EntriesAreUnique
<1> QED
  BY <1>1, UniqueInit, UniqueNext, PTL DEF Spec

-----------------------------------------------------------------------------
(* Every keystroke finds its entry.                                        *)

\* A table that is made from a list without clashes, and one from an empty list.
LEMMA TableFinds ==
  ASSUME NEW s \in Config, Unique(s)
  PROVE  LET keyed == {e \in ToSet(s) : e.keystroke # NoKey}
             leads == KeysOf(s)
         IN /\ leads # None /\ DOMAIN leads = Bound(s)
            /\ Bound(s) = {e.keystroke : e \in keyed}
            /\ \A e \in keyed : leads[e.keystroke] = e
<1>1. /\ KeysOf(s) \in Keys /\ DOMAIN KeysOf(s) = Bound(s)
      /\ \A e \in ToSet(s) : e.keystroke # NoKey => KeysOf(s)[e.keystroke] = e
  BY KeysTyped
<1>2. KeysOf(s) # None
  BY <1>1
<1>3. Bound(s) = {e.keystroke : e \in {f \in ToSet(s) : f.keystroke # NoKey}}
  BY DEF Bound
<1> QED
  BY <1>1, <1>2, <1>3

LEMMA KeysInit == Init => KeysInv
BY UniqueInit DEF Init, KeysInv, KeysInstalled, KeystrokesFindEntries

LEMMA KeysStep == ASSUME KeysInv, [Next]_vars, UniqueInv' PROVE KeysInstalled'
<1>1. UniqueInv /\ TypeInv /\ KeysInstalled /\ TypeInv'
  BY DEF KeysInv, UniqueInv
<1> SUFFICES ASSUME ~overlapped' PROVE KeysInstalled'
  <2>1. CASE overlapped'
    <3>1. KeystrokesFindEntries'
      BY <2>1 DEF KeystrokesFindEntries
    <3>2. plugin' = "loading" /\ installer' # "waiting" =>
            /\ globalConfig' = <<>> /\ globalGesturesToEntries' = None
            /\ gestureMap' = {DefaultKey}
      <4>1. CASE Restart
        BY <4>1 DEF Restart, Load, Decoded
      <4>2. CASE UNCHANGED <<plugin, installer, globalConfig, keys>>
        BY <1>1, <4>2 DEF KeysInstalled, keys
      <4>3. CASE plugin' # "loading"
        BY <4>3
      <4>4. CASE plugin = "registered" /\ UNCHANGED plugin
        BY <4>4
      <4>5. ASSUME dialogs # <<>> PROVE plugin = "registered"
        BY <1>1, <4>5 DEF TypeInv, Standing
      <4>6. ASSUME panel # None PROVE plugin = "registered"
        BY <1>1, <4>6 DEF TypeInv, Standing
      <4> QED
        BY <4>1, <4>2, <4>3, <4>4, <4>5, <4>6
        DEF Next, vars, Restart, DeleteFile, Register, InstallKeystrokes, Resumes, OpenCreate,
          OpenPanel, ClosePanel, DialogCancel, InDialog, DialogOk, Save, DialogIndexError, OnEditOk,
          OpenEdit, OnEditClick, OnRemoveClick, OnSave, ChangePanel, PanelUsable, Others, loaded
    <3> QED
      BY <3>1, <3>2 DEF KeysInstalled
  <2> QED
    BY <2>1
<1>2. ~overlapped
  BY <1>1, StaysOverlapped
<1>3. CASE Restart
  <2>1. plugin' # "registered" /\ (plugin' = "loading" /\ installer' # "waiting" =>
            /\ globalConfig' = <<>> /\ globalGesturesToEntries' = None
            /\ gestureMap' = {DefaultKey})
    BY <1>3 DEF Restart, Load, Decoded
  <2> QED
    BY <2>1 DEF KeysInstalled, KeystrokesFindEntries
<1>4. CASE UNCHANGED <<plugin, installer, gaveUp, globalConfig, keys, faults>>
  BY <1>1, <1>2, <1>4 DEF KeysInstalled, KeystrokesFindEntries, keys, faults
<1>5. CASE Register
  <2>1. /\ plugin = "loading" /\ plugin' = "registered"
        /\ UNCHANGED <<installer, globalConfig, globalGesturesToEntries, gestureMap>>
    BY <1>5 DEF Register, keys
  <2>2. CASE installer = "waiting"
    BY <2>1, <2>2 DEF KeysInstalled, KeystrokesFindEntries
  <2>3. CASE installer # "waiting"
    <3>1. /\ globalConfig' = <<>> /\ globalGesturesToEntries' = None
          /\ gestureMap' = {DefaultKey}
      BY <1>1, <2>1, <2>3 DEF KeysInstalled
    <3>2. ToSet(globalConfig') = {}
      BY <3>1 DEF ToSet
    <3> QED
      BY <2>1, <3>1, <3>2 DEF KeysInstalled, KeystrokesFindEntries
  <2> QED
    BY <2>2, <2>3
<1>6. ASSUME NEW s \in Config, globalConfig' = s, globalGesturesToEntries' = KeysOf(s),
             gestureMap' = Bound(s), plugin' = "registered"
      PROVE  KeysInstalled'
  <2>1. Unique(s)
    BY <1>6, ConfigTyped DEF UniqueInv, UniqueEverywhere
  <2> QED
    BY <1>6, <2>1, TableFinds DEF KeysInstalled, KeystrokesFindEntries
<1>7. CASE InstallKeystrokes
  <2>1. plugin = "registered" /\ plugin' = "registered" /\ globalConfig' = globalConfig
    BY <1>7 DEF InstallKeystrokes, Resumes
  <2>2. globalConfig \in Config
    BY <1>1, <2>1, ViewTyped
  <2>3. \/ /\ globalGesturesToEntries' = KeysOf(globalConfig)
           /\ gestureMap' = Bound(globalConfig)
        \/ gaveUp' = TRUE
    BY <1>7 DEF InstallKeystrokes
  <2> QED
    BY <1>6, <2>1, <2>2, <2>3 DEF KeysInstalled, KeystrokesFindEntries
<1>8. ASSUME NEW s \in Config, Save(s), plugin = "registered" PROVE KeysInstalled'
  <2>1. plugin' = "registered"
    BY <1>8 DEF Save
  <2>2. \/ /\ globalConfig' = s /\ globalGesturesToEntries' = KeysOf(s)
           /\ gestureMap' = Bound(s)
        \/ failed' = TRUE \/ unread' = TRUE
    BY <1>8 DEF Save, Reinstalled
  <2> QED
    BY <1>6, <2>1, <2>2 DEF KeysInstalled, KeystrokesFindEntries
<1>9. ASSUME NEW e \in TSEntry, dialogs # <<>>, DialogOk(Last(dialogs), e) PROVE KeysInstalled'
  <2>1. /\ Len(dialogs) \in DOMAIN dialogs
        /\ \E s \in Config : Save(s)
    BY <1>1, <1>9, DialogOkAlone
  <2> QED
    BY <1>1, <1>8, <2>1, ViewTyped
<1>10. ASSUME NEW close \in BOOLEAN, OnSave(close) PROVE KeysInstalled'
  <2>1. panel # None /\ PanelEntries \in Config /\ Save(PanelEntries)
    BY <1>1, <1>10, OnSaveAlone
  <2> QED
    BY <1>1, <1>8, <2>1, ViewTyped
<1>11. ASSUME NEW e \in TSEntry, dialogs # <<>>, OnEditOk(Last(dialogs), e) PROVE KeysInstalled'
  BY <1>1, <1>4, <1>11, OnEditOkAlone DEF loaded
<1>12. ASSUME PanelUsable, NEW i \in DOMAIN PanelEntries, OnRemoveClick(i) PROVE KeysInstalled'
  BY <1>1, <1>4, <1>12, RemoveAlone DEF loaded
<1>13. CASE DeleteFile \/ OpenCreate \/ OpenPanel \/ ClosePanel \/ DialogCancel \/ UNCHANGED vars
  BY <1>4, <1>13 DEF DeleteFile, OpenCreate, OpenPanel, ClosePanel, DialogCancel, Others, loaded,
    vars
<1>14. ASSUME NEW i, OpenEdit(i) \/ OnEditClick(i) PROVE KeysInstalled'
  BY <1>4, <1>14 DEF OpenEdit, OnEditClick, Others, loaded
<1>15. ASSUME NEW e \in TSEntry, DialogIndexError(Last(dialogs), e) PROVE FALSE
  BY <1>15 DEF DialogIndexError
<1> QED
  BY <1>3, <1>5, <1>7, <1>9, <1>10, <1>11, <1>12, <1>13, <1>14, <1>15 DEF Next, InDialog

LEMMA KeysNext == ASSUME KeysInv, [Next]_vars PROVE KeysInv'
BY UniqueNext, KeysStep DEF KeysInv

\* Once installed, every keystroke is bound and leads to its entry, and no other is
\* bound or leads anywhere: for any number of entries and keystrokes, the table is
\* made from the list in force whenever that list changes and could be read, and a
\* start makes it before it is used, or leaves what the decorator bound.
THEOREM EveryKeystrokeFindsItsEntry == Spec => []KeystrokesFindEntries
<1>1. KeysInv => KeystrokesFindEntries
  BY DEF KeysInv, KeysInstalled
<1> QED
  BY <1>1, KeysInit, KeysNext, PTL DEF Spec
-----------------------------------------------------------------------------
(* What the user asks for is saved.                                        *)

LEMMA SavedInit == Init => SavedInv
<1> SUFFICES ASSUME Init PROVE WantedInMemory
  BY UniqueInit DEF SavedInv
<1>1. ToSet(<<>>) = {} /\ DOMAIN dialogs = {}
  BY DEF Init, ToSet
<1> QED
  BY <1>1 DEF Init, WantedInMemory, InMemory, Decoded

\* What is lost for good stays so.
LEMMA StaysLost == ASSUME TypeInv, [Next]_vars, lost PROVE lost'
<1>1. lost = TRUE
  BY DEF TypeInv, TypeOK
<1> QED
  BY <1>1 DEF Next, vars, Restart, DeleteFile, Register, InstallKeystrokes, OpenCreate, OpenPanel,
    ClosePanel, DialogCancel, InDialog, DialogOk, Save, DialogIndexError, OnEditOk, OpenEdit,
    OnEditClick, OnRemoveClick, OnSave, ChangePanel, Others, faults

LEMMA SavedStep == ASSUME SavedInv, [Next]_vars, UniqueInv' PROVE WantedInMemory'
<1>1. UniqueInv /\ TypeInv /\ TypeInv' /\ WantedInMemory
  BY DEF SavedInv, UniqueInv
<1> SUFFICES ASSUME ~overlapped', ~lost' PROVE WantedInMemory'
  BY DEF WantedInMemory
<1>0. /\ plugin # "failed" /\ (unread \/ InMemory)
      /\ \/ failed
         \/ file # Torn /\ ToSet(Decoded) = wanted /\ (unread \/ globalConfig = Decoded)
  BY <1>1, StaysOverlapped, StaysLost DEF WantedInMemory
<1>3. \A d \in DOMAIN dialogs : dialogs[d].config \in {Live, OfPanel}
  BY <1>1, StaysOverlapped DEF UniqueInv, UniqueEverywhere
<1>4. CASE Restart
  <2>1. /\ panel' = None /\ DOMAIN dialogs' = {} /\ UNCHANGED <<file, wanted>>
        /\ Decoded' = Decoded
    BY <1>4 DEF Restart, Load, Decoded
  <2>2. file # Torn /\ ToSet(Decoded) = wanted
    <3>1. ~failed
      BY <1>4 DEF Restart
    <3> QED
      BY <1>0, <3>1
  <2>3. plugin' = "loading" /\ (unread' = TRUE \/ globalConfig' = Decoded)
    BY <1>4, <2>2 DEF Restart, Load
  <2> QED
    BY <2>1, <2>2, <2>3 DEF WantedInMemory, InMemory
<1>5. ASSUME DeleteFile PROVE FALSE
  BY <1>0, <1>5 DEF DeleteFile
<1>21. ASSUME NEW e \in TSEntry, DialogIndexError(Last(dialogs), e) PROVE FALSE
  BY <1>21 DEF DialogIndexError
<1>22. ASSUME unread, NEW s, Save(s) PROVE FALSE
  BY <1>22 DEF Save
<1>23. CASE unread /\ ~Restart
  <2>1. \/ UNCHANGED <<plugin, file, wanted, failed, unread>>
        \/ plugin' = "registered" /\ UNCHANGED <<file, wanted, failed, unread>>
    BY <1>5, <1>21, <1>22, <1>23
    DEF Next, vars, Register, InstallKeystrokes, OpenCreate, OpenPanel, ClosePanel, DialogCancel,
      InDialog, DialogOk, OnEditOk, OpenEdit, OnEditClick, OnRemoveClick, OnSave, ChangePanel,
      Others, loaded, faults
  <2>2. Decoded' = Decoded
    BY <2>1 DEF Decoded
  <2> QED
    BY <1>0, <1>23, <2>1, <2>2 DEF WantedInMemory
<1> SUFFICES ASSUME ~unread, ~Restart PROVE WantedInMemory'
  BY <1>4, <1>23
<1>2. /\ plugin # "failed" /\ wanted = ToSet(globalConfig)
      /\ panel # None => ToSet(PanelEntries) = Applied
      /\ \A d \in DOMAIN dialogs : InPlace(dialogs[d], View(dialogs[d]))
      /\ \A c, d \in DOMAIN dialogs :
           dialogs[c].config = OfPanel /\ dialogs[d].config = OfPanel => c = d
      /\ failed \/ (file # Torn /\ ToSet(Decoded) = wanted /\ globalConfig = Decoded)
  BY <1>0 DEF InMemory
<1>6. ASSUME UNCHANGED <<file, globalConfig, dialogs, panel, wanted, faults>>,
             plugin' # "failed"
      PROVE  WantedInMemory'
  <2>1. \A x : View(x)' = View(x)
    BY <1>6 DEF View, PanelEntries
  <2>2. PanelEntries' = PanelEntries /\ Applied' = Applied /\ Decoded' = Decoded
    BY <1>6 DEF PanelEntries, Applied, Decoded
  <2> QED
    BY <1>2, <1>6, <2>1, <2>2 DEF WantedInMemory, InMemory, faults, View, InPlace
<1>7. ASSUME NEW index \in Nat, NEW original \in TSEntry \cup {None},
             NEW config \in {Live, OfPanel}, ShowDialog(index, original, config),
             UNCHANGED <<Others, panel>>,
             \A x : /\ x.index = index /\ x.original = original /\ x.config = config
                   => InPlace(x, View(x)),
             config = OfPanel => \A d \in DOMAIN dialogs : dialogs[d].config # OfPanel
      PROVE  WantedInMemory'
  <2> DEFINE new == [index |-> index, original |-> original, config |-> config,
                     over |-> panel # None]
  <2>1. new \in Dialog /\ dialogs' = Append(dialogs, new)
    BY <1>7 DEF Dialog, ShowDialog
  <2>2. new.index = index /\ new.original = original /\ new.config = config
    OBVIOUS
  <2> HIDE DEF new
  <2>3. /\ Len(dialogs) \in Nat /\ DOMAIN dialogs = 1..Len(dialogs)
        /\ DOMAIN dialogs' = 1..(Len(dialogs) + 1)
        /\ \A d \in 1..Len(dialogs) : dialogs'[d] = dialogs[d]
        /\ dialogs'[Len(dialogs) + 1] = new
    <3>1. dialogs \in Seq(Dialog) /\ Len(dialogs) \in Nat /\ DOMAIN dialogs = 1..Len(dialogs)
      BY <1>1, Stack DEF TypeInv
    <3>2. /\ dialogs' \in Seq(Dialog) /\ Len(dialogs') = Len(dialogs) + 1
          /\ \A d \in 1..Len(dialogs) : dialogs'[d] = dialogs[d]
          /\ dialogs'[Len(dialogs) + 1] = new
      BY <2>1, <3>1, AppendProperties
    <3> QED
      BY <3>1, <3>2, LenProperties
  <2>4. \A d \in DOMAIN dialogs' :
          (d \in DOMAIN dialogs /\ dialogs'[d] = dialogs[d]) \/ d = Len(dialogs) + 1
    BY <2>3
  <2>5. InPlace(new, View(new))
    BY <1>7, <2>2
  <2>6. \A d \in DOMAIN dialogs' : InPlace(dialogs'[d], View(dialogs'[d]))
    BY <1>2, <2>3, <2>4, <2>5
  <2>7. \A c, d \in DOMAIN dialogs' :
          dialogs'[c].config = OfPanel /\ dialogs'[d].config = OfPanel => c = d
    BY <1>2, <1>7, <2>2, <2>3, <2>4
  <2>8. /\ UNCHANGED <<plugin, file, globalConfig, panel, wanted, faults>>
        /\ PanelEntries' = PanelEntries /\ Applied' = Applied /\ Decoded' = Decoded
    BY <1>7 DEF Others, loaded, PanelEntries, Applied, Decoded
  <2>9. \A d \in DOMAIN dialogs' : InPlace(dialogs'[d], View(dialogs[d])')
    BY <2>6, <2>8 DEF View
  <2> QED
    BY <1>2, <2>7, <2>8, <2>9 DEF WantedInMemory, InMemory, faults, InPlace
<1>8. CASE OpenCreate
  BY <1>7, <1>8 DEF OpenCreate, InPlace
<1>9. ASSUME plugin = "registered", NEW i \in DOMAIN globalConfig, OpenEdit(i)
      PROVE  WantedInMemory'
  <2>1. globalConfig \in Config /\ i \in Nat /\ i # 0 /\ globalConfig[i] \in TSEntry
    BY <1>1, <1>9, ViewTyped, ConfigTyped
  <2>2. Live # OfPanel
    OBVIOUS
  <2>3. ASSUME NEW x, x.index = i, x.original = globalConfig[i], x.config = Live
        PROVE  InPlace(x, View(x))
    BY <2>1, <2>3 DEF InPlace, View
  <2> QED
    BY <1>7, <1>9, <2>1, <2>2, <2>3 DEF OpenEdit
<1>10. ASSUME PanelUsable, NEW i \in DOMAIN PanelEntries, OnEditClick(i)
       PROVE  WantedInMemory'
  <2>1. PanelEntries \in Config /\ i \in Nat /\ i # 0 /\ PanelEntries[i] \in TSEntry
    BY <1>1, <1>10, ViewTyped, ConfigTyped DEF PanelUsable
  <2>2. \A d \in DOMAIN dialogs : dialogs[d].config # OfPanel
    BY <1>1, <1>10 DEF PanelUsable, TypeInv, Standing
  <2>3. ASSUME NEW x, x.index = i, x.original = PanelEntries[i], x.config = OfPanel
        PROVE  InPlace(x, View(x))
    BY <2>1, <2>3 DEF InPlace, View
  <2> QED
    BY <1>7, <1>10, <2>1, <2>2, <2>3 DEF OnEditClick
<1>11. CASE OpenPanel
  <2>1. globalConfig \in Config /\ globalConfig # Live /\ plugin = "registered" /\ panel = None
    BY <1>1, <1>11, ViewTyped, ConfigTyped DEF OpenPanel
  <2>2. PanelEntries' = globalConfig /\ Applied' = wanted
    <3>1. /\ panel'.config = globalConfig /\ panel'.removed = {} /\ panel'.added = {}
          /\ UNCHANGED <<globalConfig, wanted>>
      BY <1>11 DEF OpenPanel, Others
    <3> QED
      BY <2>1, <3>1 DEF PanelEntries, Applied
  <2>3. ASSUME NEW d \in DOMAIN dialogs PROVE View(dialogs[d])' = View(dialogs[d])
    <3>1. dialogs[d].config = Live
      BY <1>1, <1>3, <2>1 DEF TypeInv, Standing
    <3> QED
      BY <1>11, <3>1 DEF View, OpenPanel, Others
  <2>4. UNCHANGED <<plugin, file, globalConfig, dialogs, wanted, faults>> /\ Decoded' = Decoded
    BY <1>11 DEF OpenPanel, Others, loaded, Decoded
  <2>5. \A d \in DOMAIN dialogs' : InPlace(dialogs'[d], View(dialogs[d])')
    BY <1>2, <2>3, <2>4
  <2> QED
    BY <1>2, <2>1, <2>2, <2>4, <2>5 DEF WantedInMemory, InMemory, faults, InPlace
<1>12. CASE ClosePanel
  <2>1. panel # None /\ panel' = None
        /\ UNCHANGED <<plugin, file, globalConfig, dialogs, wanted, faults>> /\ Decoded' = Decoded
    BY <1>12 DEF ClosePanel, PanelUsable, Others, loaded, Decoded
  <2>2. ASSUME NEW d \in DOMAIN dialogs PROVE View(dialogs[d])' = View(dialogs[d])
    <3>1. dialogs[d].config = Live
      BY <1>1, <1>3, <1>12 DEF ClosePanel, PanelUsable, TypeInv, Standing
    <3> QED
      BY <2>1, <3>1 DEF View
  <2>3. \A d \in DOMAIN dialogs' : InPlace(dialogs'[d], View(dialogs[d])')
    BY <1>2, <2>1, <2>2
  <2> QED
    BY <1>2, <2>1, <2>3 DEF WantedInMemory, InMemory, faults, InPlace
<1>13. ASSUME dialogs # <<>>, dialogs' = Front(dialogs), PanelEntries' # PanelEntries =>
                Last(dialogs).config = OfPanel,
              panel' # None => ToSet(PanelEntries') = Applied',
              UNCHANGED <<plugin, file, globalConfig, wanted, faults>>
       PROVE  WantedInMemory'
  <2>1. /\ Len(dialogs) \in DOMAIN dialogs /\ Last(dialogs) = dialogs[Len(dialogs)]
        /\ Len(dialogs) \in Nat /\ DOMAIN dialogs' = 1..(Len(dialogs) - 1)
        /\ \A d \in DOMAIN dialogs' : d \in DOMAIN dialogs /\ dialogs'[d] = dialogs[d]
    BY <1>1, <1>13, Stack DEF TypeInv
  <2>2. ASSUME NEW d \in DOMAIN dialogs' PROVE View(dialogs[d])' = View(dialogs[d])
    <3>1. d # Len(dialogs)
      BY <2>1
    <3>2. dialogs[d].config = OfPanel => PanelEntries' = PanelEntries
      BY <1>2, <1>13, <2>1, <3>1
    <3>3. /\ dialogs'[d].config = dialogs[d].config /\ globalConfig' = globalConfig
          /\ dialogs[d].config \in {Live, OfPanel}
      BY <1>3, <1>13, <2>1
    <3> QED
      BY <3>2, <3>3 DEF View
  <2>3. \A d \in DOMAIN dialogs' : InPlace(dialogs'[d], View(dialogs[d])')
    BY <1>2, <2>1, <2>2
  <2>4. \A c, d \in DOMAIN dialogs' :
          dialogs'[c].config = OfPanel /\ dialogs'[d].config = OfPanel => c = d
    BY <1>2, <2>1
  <2>5. Decoded' = Decoded
    BY <1>13 DEF Decoded
  <2> QED
    BY <1>2, <1>13, <2>3, <2>4, <2>5 DEF WantedInMemory, InMemory, faults, InPlace
<1>14. CASE DialogCancel
  <2>1. /\ PanelEntries' = PanelEntries /\ Applied' = Applied /\ panel' = panel
        /\ UNCHANGED <<plugin, file, globalConfig, wanted, faults>>
        /\ dialogs # <<>> /\ dialogs' = Front(dialogs)
    BY <1>14 DEF DialogCancel, Others, loaded, PanelEntries, Applied
  <2> QED
    BY <1>2, <1>13, <2>1
<1>15. ASSUME NEW e \in TSEntry, dialogs # <<>>, OnEditOk(Last(dialogs), e)
       PROVE  WantedInMemory'
  <2> DEFINE dialog == Last(dialogs)
             s == Put(PanelEntries, dialog.index, e)
  <2>1. /\ Len(dialogs) \in DOMAIN dialogs /\ dialog = dialogs[Len(dialogs)]
        /\ dialog \in Dialog /\ dialog.original \in TSEntry /\ panel \in Panel /\ panel # None
        /\ View(dialog) = PanelEntries
        /\ PanelEntries \in Config /\ Unique(PanelEntries) /\ PanelEntries' = s
        /\ panel'.removed = panel.removed \cup {dialog.original}
        /\ panel'.added = (panel.added \ {dialog.original}) \cup {e}
        /\ dialogs' = Front(dialogs)
        /\ UNCHANGED <<loaded, file, globalConfig, wanted, faults>>
    BY <1>1, <1>15, OnEditOkAlone
  <2>2. dialog.config = OfPanel
    BY <1>15 DEF OnEditOk
  <2>3. dialog.index \in DOMAIN PanelEntries /\ dialog.original = PanelEntries[dialog.index]
    <3>1. dialog.original # None
      BY <2>1
    <3> QED
      BY <1>2, <2>1, <3>1 DEF InPlace
  <2>4. ToSet(s) = (ToSet(PanelEntries) \ {dialog.original}) \cup {e}
    <3>1. dialog.index \in Nat
      BY <2>1 DEF Dialog
    <3> QED
      BY <2>1, <2>3, <3>1, PutKeeps
  <2>5. Applied' = (Applied \ {dialog.original}) \cup {e}
    BY <2>1 DEF Applied
  <2> HIDE DEF dialog, s
  <2>6. ToSet(PanelEntries') = Applied'
    BY <1>2, <2>1, <2>4, <2>5
  <2> QED
    BY <1>13, <1>15, <2>1, <2>2, <2>6 DEF dialog, loaded
<1>16. ASSUME PanelUsable, NEW i \in DOMAIN PanelEntries, OnRemoveClick(i)
       PROVE  WantedInMemory'
  <2> DEFINE s == RemoveAt(PanelEntries, i)
             e == PanelEntries[i]
  <2>1. /\ panel # None /\ PanelEntries \in Config /\ Unique(PanelEntries) /\ PanelEntries' = s
        /\ panel'.removed = panel.removed \cup {e} /\ panel'.added = panel.added \ {e}
        /\ UNCHANGED <<loaded, file, globalConfig, wanted, faults, dialogs>>
    BY <1>1, <1>16, RemoveAlone
  <2>2. ToSet(s) = ToSet(PanelEntries) \ {e}
    BY <2>1, RemoveKeeps
  <2>3. Applied' = Applied \ {e}
    BY <2>1 DEF Applied
  <2> HIDE DEF s, e
  <2>4. ToSet(PanelEntries') = Applied' /\ Decoded' = Decoded
    BY <1>2, <2>1, <2>2, <2>3 DEF Decoded
  <2>5. ASSUME NEW d \in DOMAIN dialogs PROVE View(dialogs[d])' = View(dialogs[d])
    <3>1. dialogs[d].config = Live
      BY <1>1, <1>3, <1>16 DEF PanelUsable, TypeInv, Standing
    <3> QED
      BY <2>1, <3>1 DEF View
  <2>6. \A d \in DOMAIN dialogs' : InPlace(dialogs'[d], View(dialogs[d])')
    BY <1>2, <2>1, <2>5
  <2> QED
    BY <1>2, <2>1, <2>4, <2>6 DEF WantedInMemory, InMemory, faults, InPlace, loaded
<1>17. ASSUME NEW s \in Config, Save(s), plugin = "registered", DOMAIN dialogs' = {},
              wanted' = ToSet(s), panel' # None => ToSet(PanelEntries') = Applied'
       PROVE  WantedInMemory'
  <2>1. plugin' = "registered" /\ s # NoFile /\ s # Torn
    BY <1>17, ConfigTyped DEF Save
  <2>2. \/ file' = s /\ (unread' = TRUE \/ globalConfig' = s)
        \/ failed' = TRUE /\ globalConfig' = s
    BY <1>17 DEF Save
  <2>3. file' = s => Decoded' = s
    BY <2>1 DEF Decoded
  <2>4. globalConfig' = s => InMemory'
    BY <1>17 DEF InMemory
  <2> QED
    BY <1>17, <2>1, <2>2, <2>3, <2>4 DEF WantedInMemory
<1>18. ASSUME NEW e \in TSEntry, dialogs # <<>>, DialogOk(Last(dialogs), e)
       PROVE  WantedInMemory'
  <2> DEFINE dialog == Last(dialogs)
             s == Put(globalConfig, dialog.index, e)
  <2>1. /\ Len(dialogs) \in DOMAIN dialogs /\ dialog = dialogs[Len(dialogs)]
        /\ dialog \in Dialog /\ View(dialog) = globalConfig
        /\ globalConfig \in Config /\ Unique(globalConfig)
        /\ s \in Config /\ Save(s) /\ wanted' = Asked(dialog, e)
        /\ panel' = None /\ DOMAIN dialogs' = {}
    BY <1>1, <1>18, DialogOkAlone
  <2>2. dialog.index \in Nat /\ plugin = "registered" /\ wanted = ToSet(globalConfig)
    BY <1>1, <1>2, <2>1, ViewTyped DEF Dialog
  <2>3. InPlace(dialog, globalConfig)
    BY <1>2, <2>1
  <2>4. ToSet(s) = wanted'
    <3>1. CASE dialog.index = 0
      <4>1. wanted \subseteq TSEntry /\ None \notin TSEntry /\ dialog.original = None
        BY <1>1, <2>3, <3>1 DEF InPlace, TypeInv, TypeOK
      <4>2. Asked(dialog, e) = wanted \cup {e}
        BY <4>1 DEF Asked
      <4>3. ToSet(s) = ToSet(globalConfig) \cup {e}
        BY <2>1, <2>2, <3>1, PutKeeps
      <4> QED
        BY <2>1, <2>2, <4>2, <4>3
    <3>2. CASE dialog.index # 0
      <4>1. dialog.index \in DOMAIN globalConfig /\ dialog.original = globalConfig[dialog.index]
        BY <2>3, <3>2 DEF InPlace
      <4>2. ToSet(s) = (ToSet(globalConfig) \ {dialog.original}) \cup {e}
        BY <2>1, <2>2, <4>1, PutKeeps
      <4> QED
        BY <2>1, <2>2, <4>2 DEF Asked
    <3> QED
      BY <3>1, <3>2
  <2> HIDE DEF s, dialog
  <2> QED
    BY <1>17, <2>1, <2>2, <2>4
<1>19. ASSUME NEW close \in BOOLEAN, OnSave(close) PROVE WantedInMemory'
  <2>1. /\ panel # None /\ PanelEntries \in Config /\ Save(PanelEntries)
        /\ wanted' = Applied /\ DOMAIN dialogs' = {}
        /\ \/ panel' = None
           \/ /\ PanelEntries' = PanelEntries
              /\ \/ panel'.removed = panel.removed /\ panel'.added = panel.added
                 \/ panel'.removed = {} /\ panel'.added = {}
    BY <1>1, <1>19, OnSaveAlone
  <2>2. ToSet(PanelEntries) = Applied /\ plugin = "registered"
    BY <1>1, <1>2, <2>1, ViewTyped
  <2>3. panel' # None => Applied' = Applied
    BY <2>1 DEF Applied
  <2> QED
    BY <1>17, <2>1, <2>2, <2>3
<1>20. CASE Register \/ InstallKeystrokes \/ UNCHANGED vars
  <2>1. /\ UNCHANGED <<file, globalConfig, dialogs, panel, wanted, faults>>
        /\ plugin' = plugin \/ plugin' = "registered"
    BY <1>20 DEF Register, InstallKeystrokes, loaded, vars
  <2> QED
    BY <1>2, <1>6, <2>1
<1> QED
  BY <1>5, <1>8, <1>9, <1>10, <1>11, <1>12, <1>14, <1>15, <1>16, <1>18, <1>19, <1>20, <1>21
  DEF Next, InDialog

LEMMA SavedNext == ASSUME SavedInv, [Next]_vars PROVE SavedInv'
BY UniqueNext, SavedStep DEF SavedInv

\* What the user creates, edits and removes is what the file holds: for any
\* number of entries, as long as no dialogs overlap, from every save that succeeds
\* to the next that fails, over restarts and over files that could not be read.
THEOREM WhatIsWantedIsSaved == Spec => []SavedIsWanted
<1>1. SavedInv => SavedIsWanted
  BY DEF SavedInv, WantedInMemory, SavedIsWanted
<1> QED
  BY <1>1, SavedInit, SavedNext, PTL DEF Spec
=============================================================================
