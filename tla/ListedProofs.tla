---------------------------- MODULE ListedProofs ----------------------------
(***************************************************************************)
(* What a command reads out of a bucket is what has been there all the     *)
(* time, and every file of it is visited once, for any keys and any size   *)
(* of a page, whoever changes the bucket between two pages, and whichever  *)
(* requests fail and are sent again.                                       *)
(***************************************************************************)
EXTENDS ListingProofs

-----------------------------------------------------------------------------
\* Pages.

\* A set of numbers has a least element.
LEMMA Least ==
    ASSUME NEW S, S \subseteq Nat, S # {}
    PROVE  \E m \in S : \A k \in S : m <= k
<1>0. S \subseteq Nat /\ S # {}
  OBVIOUS
<1>1. PICK m \in S : \A k \in S : ~(<<k, m>> \in OpToRel(<, Nat))
  BY <1>0, WFMin, NatLessThanWellFounded, Zenon
<1>2. \A k \in S : ~(k < m)
  BY <1>0, <1>1, Zenon DEF OpToRel
<1> QED BY <1>0, <1>2

\* A set of numbers below a bound has a greatest element.
LEMMA Greatest ==
    ASSUME NEW S, S \subseteq Nat, S # {}, NEW n \in Nat, \A e \in S : e <= n
    PROVE  Max(S) \in S
<1> DEFINE U == {m \in Nat : \A e \in S : e <= m}
<1>1. PICK m \in U : \A k \in U : m <= k
  <2>1. U \subseteq Nat /\ U # {}
    OBVIOUS
  <2> HIDE DEF U
  <2> QED BY <2>1, Least
<1>2. m \in S
  <2> SUFFICES ASSUME m \notin S PROVE FALSE
    OBVIOUS
  <2>1. \A e \in S : e \in Nat /\ e <= m /\ e # m
    BY <1>1
  <2>2. m - 1 \in Nat /\ \A e \in S : e <= m - 1
    <3>1. m \in Nat
      BY <1>1
    <3>2. \A e \in S : e <= m - 1
      BY <2>1, <3>1
    <3>3. PICK e \in S : TRUE
      OBVIOUS
    <3>4. e \in Nat /\ e <= m - 1
      BY <2>1, <3>2
    <3>5. m - 1 \in Nat
      BY <3>1, <3>4
    <3> QED BY <3>2, <3>5
  <2>3. m <= m - 1
    BY <1>1, <2>2
  <2> QED BY <1>1, <2>3
<1>3. \A e \in S : m >= e
  BY <1>1
<1> QED BY <1>2, <1>3 DEF Max

\* A page is the beginning of what it is taken from, and if something is left it has a last
\* node, which is one of its entries.
LEMMA PageBegins ==
    ASSUME NEW d \in Dir, NEW marker, Beyond(d, marker) \subseteq Nat
    PROVE  LET page == Page(d, marker) IN
           /\ page \subseteq Beyond(d, marker)
           /\ \A e \in page : \A f \in Beyond(d, marker) : f <= e => f \in page
           /\ IsTruncated(d, marker) => LastNode(page) \in page
<1> DEFINE S == Beyond(d, marker)
<1> DEFINE below(e) == {f \in S : f < e}
<1> DEFINE page == {e \in S : Cardinality(below(e)) < PageSize}
<1>0. S \subseteq Nat /\ PageSize \in Nat \ {0} /\ Page(d, marker) = page
  BY ListingAssumption DEF Page
<1>1. page \subseteq S
  OBVIOUS
<1> HIDE DEF S
<1>2. ASSUME NEW e \in S PROVE IsFiniteSet(below(e)) /\ Cardinality(below(e)) \in Nat
  <2>0. e \in Nat /\ \A f \in below(e) : f \in Nat /\ f < e
    BY <1>0
  <2>1. IsFiniteSet(0..e) /\ below(e) \subseteq 0..e
    <3> HIDE DEF below
    <3> QED BY <2>0, FS_Interval
  <2> HIDE DEF below
  <2> QED BY <2>1, FS_Subset, FS_CardinalityType
<1>3. ASSUME NEW e \in page, NEW f \in S, f <= e PROVE f \in page
  <2>0. e \in Nat /\ f \in Nat /\ f <= e
    BY <1>0, <1>1, <1>3
  <2>1. below(f) \subseteq below(e)
    <3> SUFFICES ASSUME NEW g \in S, g < f PROVE g < e
      OBVIOUS
    <3>1. g \in Nat
      BY <1>0
    <3> QED BY <2>0, <3>1
  <2>2. Cardinality(below(f)) <= Cardinality(below(e))
    <3> HIDE DEF below
    <3> QED BY <1>2, <2>1, FS_Subset
  <2>3. Cardinality(below(e)) < PageSize
    OBVIOUS
  <2>4. Cardinality(below(f)) \in Nat /\ Cardinality(below(e)) \in Nat
    BY <1>2
  <2> HIDE DEF below
  <2> QED BY <1>0, <2>2, <2>3, <2>4
<1>4. ASSUME S # page PROVE LastNode(page) \in page
  <2>1. PICK n \in S : n \notin page
    BY <1>4
  <2>2. \A e \in page : e \in Nat /\ e <= n
    BY <1>0, <1>3, <2>1
  <2>3. page # {}
    <3>1. PICK m \in S : \A k \in S : m <= k
      BY <1>0, <2>1, Least
    <3>2. \A f \in S : ~(f < m)
      BY <1>0, <3>1
    <3>3. below(m) = {}
      BY <3>2
    <3>4. Cardinality(below(m)) = 0
      BY <3>3, FS_EmptySet
    <3> HIDE DEF below
    <3> QED BY <1>0, <3>4

  <2>4. page \subseteq Nat /\ n \in Nat
    BY <1>0, <2>1
  <2> HIDE DEF page
  <2>5. CASE \E e \in page : IsDirEntry(e)
    <3> DEFINE D == {e \in page : IsDirEntry(e)}
    <3>1. D \subseteq Nat /\ D # {} /\ \A e \in D : e <= n
      BY <2>2, <2>4, <2>5
    <3>2. LastNode(page) = Max(D)
      BY <2>5 DEF LastNode
    <3>3. D \subseteq page
      OBVIOUS
    <3> HIDE DEF D
    <3> QED BY <2>4, <3>1, <3>2, <3>3, Greatest
  <2>6. CASE ~(\E e \in page : IsDirEntry(e))
    <3>1. LastNode(page) = Max(page)
      BY <2>6 DEF LastNode
    <3> QED BY <2>2, <2>3, <2>4, <3>1, Greatest
  <2> QED BY <2>5, <2>6
<1> QED BY <1>0, <1>1, <1>3, <1>4 DEF IsTruncated, S

-----------------------------------------------------------------------------
\* Entries and keys.

\* What d has in it if the bucket is b.
Entries(b, d) ==
    {FileEntry(k[Len(k)]) : k \in {k \in b : Front(k) = d}} \cup
    {PrefixEntry(k[Len(d) + 1]) :
       k \in {k \in b : Len(k) > Len(d) + 1 /\ SubSeq(k, 1, Len(d)) = d}}

\* A name can be read off its entry.
LEMMA Coding ==
    ASSUME NEW n \in Nat
    PROVE  /\ FileEntry(n) \in Nat /\ FileEntry(n) \div 2 = n /\ ~IsDirEntry(FileEntry(n))
           /\ PrefixEntry(n) \in Nat /\ PrefixEntry(n) \div 2 = n /\ IsDirEntry(PrefixEntry(n))
BY DEF FileEntry, PrefixEntry, IsDirEntry

\* The bucket that is listed.
LEMMA Present == \A d : Contents(d) \cup RolledUp(d) = Entries(bucket, d)
BY DEF Contents, RolledUp, Entries

\* A larger bucket has no fewer entries.
LEMMA Growing ==
    ASSUME NEW b, NEW c, b \subseteq c, NEW d
    PROVE  Entries(b, d) \subseteq Entries(c, d)
BY DEF Entries

\* A key without its last name is a directory, and the key is found in it.
LEMMA KeySplit ==
    ASSUME NEW k \in Key
    PROVE  /\ Front(k) \in Dir /\ k[Len(k)] \in Nat
           /\ k = Append(Front(k), k[Len(k)])
<1> DEFINE n == Len(k)
<1> DEFINE d == SubSeq(k, 1, n - 1)
<1>1. k \in Seq(Nat) /\ n \in Nat \ {0} /\ \A i \in 1..n : k[i] \in Nat
  BY DirType
<1>2. d \in Dir /\ Front(k) = d
  <2>1. n - 1 \in 0..(n - 1)
    BY <1>1
  <2> QED BY <2>1 DEF Dir, Front
<1>3. n \in 1..n
  BY <1>1
<1>4. d \in Seq(Nat) /\ Len(d) = n - 1 /\ \A i \in 1..(n - 1) : d[i] = k[i]
  <2> DEFINE m == n - 1
  <2>1. m \in Nat /\ \A i \in 1..m : k[i] \in Nat
    BY <1>1
  <2>2. m - 1 + 1 = m /\ \A i \in 1..m : 1 + i - 1 = i
    BY <2>1
  <2> HIDE DEF m
  <2>3. /\ SubSeq(k, 1, m) \in Seq(Nat)
        /\ Len(SubSeq(k, 1, m)) = IF 1 <= m THEN m - 1 + 1 ELSE 0
        /\ \A i \in 1..(m - 1 + 1) : SubSeq(k, 1, m)[i] = k[1 + i - 1]
    BY <1>1, <2>1, SubSeqProperties
  <2>4. SubSeq(k, 1, m) \in Seq(Nat) /\ Len(SubSeq(k, 1, m)) = m
        /\ \A i \in 1..m : SubSeq(k, 1, m)[i] = k[i]
    BY <2>1, <2>2, <2>3
  <2> QED BY <2>4 DEF m
<1> HIDE DEF d
<1> DEFINE p == Append(d, k[n])
<1>5. /\ p \in Seq(Nat) /\ Len(p) = n - 1 + 1 /\ p[n - 1 + 1] = k[n]
      /\ \A i \in 1..(n - 1) : p[i] = d[i]
  BY <1>1, <1>3, <1>4, AppendProperties
<1> HIDE DEF p, n
<1>6. Len(p) = n /\ p[n] = k[n]
  BY <1>1, <1>5
<1>7. \A i \in 1..n : p[i] = k[i]
  <2>1. \A i \in 1..n : i \in 1..(n - 1) \/ i = n
    BY <1>1
  <2> QED BY <1>4, <1>5, <1>6, <2>1
<1>8. p = k
  BY <1>1, <1>5, <1>6, <1>7, SeqEqual DEF n
<1> QED BY <1>1, <1>2, <1>3, <1>8 DEF p, n

\* The beginnings of a key are directories, and each is found in the one before.
LEMMA PrefixSplit ==
    ASSUME NEW k \in Key, NEW i \in 1..(Len(k) - 1)
    PROVE  /\ SubSeq(k, 1, i - 1) \in Dir /\ SubSeq(k, 1, i) \in Dir
           /\ Len(SubSeq(k, 1, i - 1)) = i - 1 /\ k[i] \in Nat
           /\ SubSeq(k, 1, i) = Append(SubSeq(k, 1, i - 1), k[i])
<1>1. k \in Seq(Nat) /\ Len(k) \in Nat /\ i \in Nat /\ i >= 1 /\ i < Len(k)
      /\ \A j \in 1..Len(k) : k[j] \in Nat
  BY DirType
<1>2. i \in 1..Len(k) /\ i - 1 \in 0..(Len(k) - 1) /\ i \in 0..(Len(k) - 1)
  BY <1>1
<1>3. ASSUME NEW m \in 0..(Len(k) - 1)
      PROVE  /\ SubSeq(k, 1, m) \in Seq(Nat) /\ Len(SubSeq(k, 1, m)) = m
             /\ \A j \in 1..m : SubSeq(k, 1, m)[j] = k[j]
  <2>1. m \in Nat /\ \A j \in 1..m : k[j] \in Nat
    BY <1>1
  <2>2. m - 1 + 1 = m /\ \A j \in 1..m : 1 + j - 1 = j
    BY <2>1
  <2>3. /\ SubSeq(k, 1, m) \in Seq(Nat)
        /\ Len(SubSeq(k, 1, m)) = IF 1 <= m THEN m - 1 + 1 ELSE 0
        /\ \A j \in 1..(m - 1 + 1) : SubSeq(k, 1, m)[j] = k[1 + j - 1]
    BY <1>1, <2>1, SubSeqProperties
  <2> QED BY <2>1, <2>2, <2>3
<1> DEFINE h == i - 1
<1> DEFINE d == SubSeq(k, 1, h)
<1> DEFINE c == SubSeq(k, 1, i)
<1> DEFINE p == Append(d, k[i])
<1>4. h \in Nat /\ h + 1 = i /\ h \in 0..(Len(k) - 1) /\ k[i] \in Nat
  BY <1>1, <1>2
<1>5. c \in Seq(Nat) /\ Len(c) = i /\ \A j \in 1..i : c[j] = k[j]
  BY <1>2, <1>3
<1>6. d \in Dir /\ c \in Dir
  <2>1. \A m \in 0..(Len(k) - 1) : SubSeq(k, 1, m) \in Dir
    BY DEF Dir
  <2> QED BY <1>2, <1>4, <2>1
<1> HIDE DEF h
<1>7. d \in Seq(Nat) /\ Len(d) = h /\ \A j \in 1..h : d[j] = k[j]
  BY <1>3, <1>4
<1> HIDE DEF c, d
<1>8. p \in Seq(Nat) /\ Len(p) = h + 1 /\ p[h + 1] = k[i] /\ \A j \in 1..h : p[j] = d[j]
  BY <1>4, <1>7, AppendProperties
<1> HIDE DEF p
<1>9. Len(p) = i /\ p[i] = k[i]
  BY <1>4, <1>8
<1>10. \A j \in 1..i : j \in 1..h \/ j = i
  BY <1>1, <1>4
<1>11. \A j \in 1..i : p[j] = c[j]
  BY <1>5, <1>7, <1>8, <1>9, <1>10
<1>12. p = c
  BY <1>5, <1>8, <1>9, <1>11, SeqEqual
<1> QED BY <1>4, <1>6, <1>7, <1>12 DEF h, c, d, p

\* Entries are those of Entry, which are numbers.
LEMMA EntryType ==
    /\ Entry \subseteq Nat
    /\ \A b, d : b \subseteq Key /\ d \in Dir => Entries(b, d) \subseteq Entry
<1>0. \A k \in Key : Len(k) \in Nat /\ DOMAIN k = 1..Len(k) /\ \A i \in 1..Len(k) : k[i] \in Nat
  BY DirType, LenProperties
<1>1. Name \subseteq Nat /\ \A k \in Key : \A i \in 1..Len(k) : k[i] \in Name
  BY <1>0 DEF Name, Range
<1>2. Entry \subseteq Nat
  BY <1>1, Coding DEF Entry
<1>3. ASSUME NEW b, b \subseteq Key, NEW d \in Dir PROVE Entries(b, d) \subseteq Entry
  <2>1. ASSUME NEW k \in b PROVE FileEntry(k[Len(k)]) \in Entry
    <3>1. k \in Key /\ Len(k) \in 1..Len(k)
      BY <1>3, DirType
    <3> QED BY <1>1, <3>1 DEF Entry
  <2>2. ASSUME NEW k \in b, Len(k) > Len(d) + 1 PROVE PrefixEntry(k[Len(d) + 1]) \in Entry
    <3>1. k \in Key /\ Len(k) \in Nat /\ Len(d) \in Nat
      BY <1>3, DirType, LenProperties
    <3>2. Len(d) + 1 \in 1..Len(k)
      BY <2>2, <3>1
    <3> QED BY <1>1, <3>1, <3>2 DEF Entry
  <2> QED BY <2>1, <2>2 DEF Entries
<1> QED BY <1>2, <1>3

\* A file is found in its directory.
LEMMA FileFound ==
    ASSUME NEW b, b \subseteq Key, NEW k \in b, k \in File
    PROVE  \E e \in Entries(b, Front(k)) :
             ~IsDirEntry(e) /\ Path(Front(k), e) = k /\ k # Append(Front(k), 0)
<1> DEFINE n == k[Len(k)]
<1> DEFINE d == Front(k)
<1>1. n \in Nat /\ n # 0 /\ d \in Dir /\ k = Append(d, n)
  BY KeySplit DEF File
<1>2. FileEntry(n) \in Entries(b, d)
  BY DEF Entries
<1> HIDE DEF n, d
<1>3. ~IsDirEntry(FileEntry(n)) /\ Path(d, FileEntry(n)) = k
  BY <1>1, Coding DEF Path
<1>4. k # Append(d, 0)
  <2>1. d \in Seq(Nat) /\ 0 \in Nat
    BY <1>1, DirType
  <2>2. /\ Append(d, n)[Len(d) + 1] = n
        /\ Append(d, 0)[Len(d) + 1] = 0
    BY <1>1, <2>1, AppendProperties
  <2> QED BY <1>1, <2>2
<1> QED BY <1>2, <1>3, <1>4 DEF d

\* A subdirectory is found in its directory.
LEMMA DirFound ==
    ASSUME NEW b, b \subseteq Key, NEW k \in b, NEW i \in 1..(Len(k) - 1)
    PROVE  \E e \in Entries(b, SubSeq(k, 1, i - 1)) :
             IsDirEntry(e) /\ Path(SubSeq(k, 1, i - 1), e) = SubSeq(k, 1, i)
<1> DEFINE d == SubSeq(k, 1, i - 1)
<1>0. k \in Key /\ Len(k) \in Nat /\ i \in Nat /\ i <= Len(k) - 1
  BY DirType
<1>1. /\ Len(d) = i - 1 /\ k[i] \in Nat
      /\ SubSeq(k, 1, i) = Append(d, k[i])
  BY <1>0, PrefixSplit
<1>2. d = SubSeq(k, 1, i - 1)
  OBVIOUS
<1> HIDE DEF d
<1>3. Len(d) + 1 = i /\ Len(k) > Len(d) + 1 /\ SubSeq(k, 1, Len(d)) = d
  BY <1>0, <1>1, <1>2
<1>4. PrefixEntry(k[i]) \in Entries(b, d)
  <2>1. PrefixEntry(k[Len(d) + 1]) \in Entries(b, d)
    BY <1>3 DEF Entries
  <2> QED BY <1>3, <2>1
<1>5. IsDirEntry(PrefixEntry(k[i])) /\ Path(d, PrefixEntry(k[i])) = SubSeq(k, 1, i)
  BY <1>1, Coding DEF Path
<1> QED BY <1>4, <1>5 DEF d

\* What is taken for a file is one.
LEMMA FileThere ==
    ASSUME NEW b, b \subseteq Key, NEW d \in Dir, NEW e \in Entries(b, d), ~IsDirEntry(e),
           Path(d, e) # Append(d, 0)
    PROVE  Path(d, e) \in b /\ Path(d, e) \in File
<1>1. ASSUME NEW k \in b, Len(k) > Len(d) + 1, e = PrefixEntry(k[Len(d) + 1]) PROVE FALSE
  <2>1. k \in Key /\ Len(k) \in Nat /\ Len(d) \in Nat
    BY DirType, LenProperties
  <2>2. Len(d) + 1 \in 1..Len(k)
    BY <1>1, <2>1
  <2>3. k[Len(d) + 1] \in Nat
    BY <2>1, <2>2, DirType
  <2> QED BY <1>1, <2>3, Coding
<1>2. PICK k \in b : Front(k) = d /\ e = FileEntry(k[Len(k)])
  BY <1>1 DEF Entries
<1>3. k \in Key /\ k[Len(k)] \in Nat /\ k = Append(d, k[Len(k)])
  BY <1>2, KeySplit
<1>4. Path(d, e) = k
  BY <1>2, <1>3, Coding DEF Path
<1>5. k[Len(k)] # 0
  BY <1>3, <1>4
<1> QED BY <1>3, <1>4, <1>5 DEF File

-----------------------------------------------------------------------------
\* The invariant: what has been listed, what has been visited, and what has failed.

\* The variables that IInv leaves open.
Typed ==
    /\ command \in Command
    /\ kept \subseteq bucket /\ bucket \subseteq ever /\ ever \subseteq Key
    /\ changes \in 0..MaxChanges
    /\ \A d \in Dir : /\ lister[d].pc \in Pc /\ lister[d].attempt \in 0..(MaxAttempts - 1)
                      /\ lister[d].marker \in Entry \cup {NoMarker}
    /\ \A k \in File : worker[k].pc \in Pc /\ worker[k].attempt \in 0..(MaxAttempts - 1)
    /\ public \subseteq File /\ desc_map \subseteq File
    /\ num \in Nat
    /\ failed \in BOOLEAN

\* Up to its marker a listing has everything that was there all the time.
Pages ==
    \A d \in Dir :
      /\ entries[d] \subseteq Entries(ever, d)
      /\ entries[d] # {} => lister[d].pc # "idle"
      /\ \A e \in Entries(kept, d) : e <= lister[d].marker => e \in entries[d]
      /\ lister[d].pc = "done" => Entries(kept, d) \subseteq entries[d]

\* Tasks that are given up are counted as failures; otherwise the root has been listed.
Failures ==
    /\ \A d \in Dir : lister[d].pc = "failed" => failed
    /\ \A k \in File : worker[k].pc = "failed" => failed
    /\ stage \in {"reset", "ended"} => failed \/ lister[Root].pc = "done"

\* The file k has been found by a command that visits files.
Visiting(k) ==
    /\ command \in {"publish", "ls"}
    /\ \E d \in Dir : lister[d].pc = "done" /\ k \in FilesOf(d)

\* What a directory has been found to hold is listed, and visited, in its turn.
Followed ==
    /\ command # "ls" => \A d \in Dir : lister[d].pc = "done" =>
                           \A c \in Dir : c \in SubdirsOf(d) => lister[c].pc # "idle"
    /\ ~failed => \A k \in File : worker[k].pc # "idle" <=> Visiting(k)

\* The files whose ACL has been set and counted.
Published == {k \in File : worker[k].pc = "done" /\ k \notin Excluded}

\* What has come of the visits.
Counted ==
    /\ command = "publish" =>
         /\ IsFiniteSet(Published) /\ num = Cardinality(Published)
         /\ \A k \in File : worker[k].pc \in {"running", "asked"} => k \notin Excluded
         /\ Published \cap kept \subseteq public
         /\ public \cap Excluded = {}
    /\ command = "ls" /\ ~failed => desc_map = {k \in File : worker[k].pc = "done"}

LInv == Typed /\ Pages /\ Failures /\ Followed /\ Counted

\* At first nothing has been listed or visited.
LEMMA LInitially == Init => LInv
<1> SUFFICES ASSUME Init PROVE LInv
  OBVIOUS
<1>0. /\ 0 \in 0..MaxChanges /\ 0 \in 0..(MaxAttempts - 1)
      /\ Command \subseteq CommandKind
  BY ListingAssumption
<1>1. /\ \A d \in Dir : /\ lister[d].pc = "idle" /\ lister[d].attempt = 0
                        /\ lister[d].marker = NoMarker /\ entries[d] = {}
      /\ \A k \in File : worker[k].pc = "idle" /\ worker[k].attempt = 0
  BY DEF Init, NoTask
<1>2. Typed
  BY <1>0, <1>1 DEF Init, Typed, Pc
<1>3. Pages
  <2> SUFFICES ASSUME NEW d \in Dir, NEW e \in Entries(kept, d) PROVE ~(e <= NoMarker)
    BY <1>1 DEF Pages
  <2>1. kept \subseteq Key
    BY DEF Init
  <2>2. e \in Nat
    BY <2>1, EntryType
  <2> QED BY <2>2 DEF NoMarker
<1>4. Failures /\ Followed
  BY <1>1 DEF Init, Failures, Followed, Visiting
<1>5. Counted
  <2>1. Published = {} /\ {k \in File : worker[k].pc = "done"} = {}
    BY <1>1 DEF Published
  <2>2. IsFiniteSet(Published) /\ num = Cardinality(Published)
    BY <2>1, FS_EmptySet DEF Init
  <2>3. public = {} /\ desc_map = {}
    BY DEF Init
  <2> QED BY <1>1, <2>1, <2>2, <2>3 DEF Counted
<1> QED BY <1>2, <1>3, <1>4, <1>5 DEF LInv

\* Nothing is greater than the marker of a listing that begins.
LEMMA BeyondNone ==
    ASSUME NEW b, b \subseteq Key, NEW d \in Dir, NEW e \in Entries(b, d)
    PROVE  ~(e <= NoMarker)
<1>1. e \in Nat
  BY EntryType
<1> QED BY <1>1 DEF NoMarker

\* A listing goes on, begins again or is given up, without anything new.
Moves(c) ==
    /\ UNCHANGED <<command, s3, entries, worker, public, num, desc_map>>
    /\ \A d \in Dir \ {c} : lister'[d] = lister[d]
    /\ lister[c].pc \in {"idle", "queued", "running", "asked"}
    /\ lister'[c].pc \in {"running", "asked", "failed"}
    /\ lister'[c].attempt \in 0..(MaxAttempts - 1)
    /\ lister'[c].marker \in {lister[c].marker, NoMarker}
    /\ failed' \in BOOLEAN /\ (failed => failed')
    /\ lister'[c].pc = "failed" => failed'
    /\ stage' \in {"reset", "ended"} => failed'

LEMMA MovesKeeps ==
    ASSUME LInv, NEW c \in Dir, Moves(c)
    PROVE  LInv'
<1>1. /\ UNCHANGED <<command, entries, worker, public, num, desc_map>>
      /\ UNCHANGED <<bucket, kept, ever, changes>>
  BY DEF Moves, s3
<1>2. \A d \in Dir : lister'[d].pc = "done" <=> lister[d].pc = "done"
  BY DEF Moves
<1>3. \A d \in Dir : lister'[d].pc = "idle" => lister[d].pc = "idle"
  BY DEF Moves
<1>4. Typed'
  <2>1. ASSUME NEW d \in Dir
        PROVE  /\ lister'[d].pc \in Pc /\ lister'[d].attempt \in 0..(MaxAttempts - 1)
               /\ lister'[d].marker \in Entry \cup {NoMarker}
    <3>1. CASE d = c
      BY <3>1 DEF Moves, LInv, Typed, Pc
    <3>2. CASE d # c
      BY <3>2 DEF Moves, LInv, Typed
    <3> QED BY <3>1, <3>2
  <2>2. failed' \in BOOLEAN
    BY DEF Moves, LInv, Typed
  <2> QED BY <1>1, <2>1, <2>2 DEF LInv, Typed
<1>5. Pages'
  <2>1. ASSUME NEW d \in Dir, NEW e \in Entries(kept, d), e <= lister'[d].marker
        PROVE  e \in entries[d]
    <3>1. kept \subseteq Key
      BY DEF LInv, Typed
    <3>2. lister'[d].marker \in {lister[d].marker, NoMarker}
      BY DEF Moves
    <3>3. lister'[d].marker = lister[d].marker
      BY <2>1, <3>1, <3>2, BeyondNone
    <3> QED BY <2>1, <3>3 DEF LInv, Pages
  <2> QED BY <1>1, <1>2, <1>3, <2>1 DEF LInv, Pages
<1>6. Failures'
  <2>1. \A d \in Dir : lister'[d].pc = "failed" => failed'
    BY DEF Moves, LInv, Failures
  <2>2. \A k \in File : worker'[k].pc = "failed" => failed'
    BY <1>1 DEF Moves, LInv, Failures
  <2>3. stage' \in {"reset", "ended"} => failed'
    BY DEF Moves
  <2> QED BY <2>1, <2>2, <2>3 DEF Failures
<1>7. Followed'
  <2>1. \A d : FilesOf(d)' = FilesOf(d) /\ SubdirsOf(d)' = SubdirsOf(d)
    BY <1>1 DEF FilesOf, SubdirsOf
  <2>2. \A k : Visiting(k)' <=> Visiting(k)
    BY <1>1, <1>2, <2>1 DEF Visiting
  <2>3. ~failed' => ~failed
    BY DEF Moves
  <2> QED BY <1>1, <1>2, <1>3, <2>1, <2>2, <2>3 DEF LInv, Followed
<1>8. Counted'
  <2>1. ~failed' => ~failed
    BY DEF Moves
  <2>2. Published' = Published
    BY <1>1 DEF Published
  <2> QED BY <1>1, <2>1, <2>2 DEF LInv, Counted
<1> QED BY <1>4, <1>5, <1>6, <1>7, <1>8 DEF LInv

\* The main thread before and after run(), and the requests for pages that are sent, or fail.
LEMMA ListerStep ==
    ASSUME IInv, LInv,
           \/ AnswerRegion \/ MainThrows
           \/ \E d \in Dir : AskPage(d) \/ PageWarns(d) \/ PageDies(d)
    PROVE  LInv'
<1>0. /\ Root \in Dir /\ failed \in BOOLEAN /\ MaxAttempts \in Nat \ {0}
      /\ \A d \in Dir : lister[d].attempt \in 0..(MaxAttempts - 1)
      /\ \A d \in Dir : lister[d] = [pc |-> lister[d].pc, attempt |-> lister[d].attempt,
                                     marker |-> lister[d].marker]
      /\ DOMAIN lister = Dir
  BY Clients, ListingAssumption DEF LInv, Typed, IInv, Form
<1>1. CASE AnswerRegion \/ MainThrows
  <2>1. lister[Root].pc \in {"idle", "running", "asked"}
    BY <1>0, <1>1 DEF AnswerRegion, MainThrows, IInv, Stages
  <2>2. Moves(Root)
    <3>1. CASE AnswerRegion
      <4>1. /\ lister' = [lister EXCEPT ![Root].pc = "running"] /\ stage' = "root"
            /\ UNCHANGED <<command, s3, entries, worker, public, num, desc_map, failed>>
        BY <3>1 DEF AnswerRegion, work
      <4> QED BY <1>0, <2>1, <4>1 DEF Moves
    <3>2. CASE MainThrows
      <4>1. /\ lister' = [lister EXCEPT ![Root].pc = "failed"] /\ failed'
            /\ UNCHANGED <<command, s3, entries, worker, public, num, desc_map>>
        BY <3>2 DEF MainThrows, work
      <4>2. failed' \in BOOLEAN
        BY <3>2 DEF MainThrows
      <4> QED BY <1>0, <2>1, <4>1, <4>2 DEF Moves
    <3> QED BY <1>1, <3>1, <3>2
  <2> QED BY <1>0, <2>2, MovesKeeps
<1>2. ASSUME NEW d \in Dir, AskPage(d) \/ PageWarns(d) \/ PageDies(d) PROVE LInv'
  <2>1. lister[d].pc \in {"queued", "running", "asked"}
    BY <1>2 DEF AskPage, PageWarns, PageDies
  <2>2. stage \notin {"reset", "ended"}
    BY <2>1 DEF IInv, Stages, Busy
  <2>3. Moves(d)
    <3>1. CASE AskPage(d)
      <4>1. /\ lister' = [lister EXCEPT ![d].pc = "asked"]
            /\ UNCHANGED <<command, s3, entries, worker, public, num, desc_map, failed, stage>>
        BY <3>1 DEF AskPage, work
      <4> QED BY <1>0, <2>1, <2>2, <4>1 DEF Moves
    <3>2. CASE PageWarns(d)
      <4>1. /\ lister' = [lister EXCEPT ![d] =
                            [pc |-> "running", attempt |-> @.attempt + 1, marker |-> NoMarker]]
            /\ UNCHANGED <<command, s3, entries, worker, public, num, desc_map, failed, stage>>
        BY <3>2 DEF PageWarns, work
      <4>2. lister[d].attempt + 1 \in 0..(MaxAttempts - 1)
        <5>1. ~(lister[d].attempt + 1 >= MaxAttempts) /\ lister[d].attempt \in 0..(MaxAttempts - 1)
          BY <1>0, <3>2 DEF PageWarns, LastAttempt
        <5> QED BY <1>0, <5>1
      <4>3. lister'[d] = [pc |-> "running", attempt |-> lister[d].attempt + 1, marker |-> NoMarker]
        BY <1>0, <4>1
      <4> QED BY <1>0, <2>1, <2>2, <4>1, <4>2, <4>3 DEF Moves
    <3>3. CASE PageDies(d)
      <4>1. /\ lister' = [lister EXCEPT ![d].pc = "failed"] /\ failed'
            /\ UNCHANGED <<command, s3, entries, worker, public, num, desc_map>>
        BY <3>3 DEF PageDies, work
      <4>2. failed' \in BOOLEAN
        BY <3>3 DEF PageDies
      <4> QED BY <1>0, <2>1, <4>1, <4>2 DEF Moves
    <3> QED BY <1>2, <3>1, <3>2, <3>3
  <2> QED BY <2>3, MovesKeeps
<1> QED BY <1>1, <1>2

\* The main thread goes on, and nothing else.
LEMMA StageStep ==
    ASSUME IInv, LInv, AskRegion \/ Return \/ Reset \/ Finished \/ UNCHANGED vars
    PROVE  LInv'
<1>1. /\ UNCHANGED <<command, lister, entries, worker, public, num, desc_map, failed>>
      /\ UNCHANGED <<bucket, kept, ever, changes>>
  BY DEF AskRegion, Return, Reset, Finished, vars, s3, work
<1>2. stage' \in {"reset", "ended"} => stage \in {"reset", "ended"} \/ lister[Root].pc = "done"
  BY DEF AskRegion, Return, Drained, Reset, Finished, vars, IInv, Stages
<1>3. Failures'
  BY <1>1, <1>2 DEF LInv, Failures
<1>4. Followed'
  <2>1. \A d : FilesOf(d)' = FilesOf(d) /\ SubdirsOf(d)' = SubdirsOf(d)
    BY <1>1 DEF FilesOf, SubdirsOf
  <2> QED BY <1>1, <2>1 DEF LInv, Followed, Visiting
<1>5. Typed'
  BY <1>1 DEF LInv, Typed
<1>6. Pages'
  BY <1>1 DEF LInv, Pages
<1>7. Counted'
  BY <1>1 DEF LInv, Counted, Published
<1> QED BY <1>3, <1>4, <1>5, <1>6, <1>7 DEF LInv

\* Somebody changes the bucket.
LEMMA ChangeStep ==
    ASSUME IInv, LInv, Change
    PROVE  LInv'
<1>1. /\ UNCHANGED <<command, stage, lister, entries, worker, num, desc_map, failed>>
      /\ changes' = changes + 1 /\ changes < MaxChanges
      /\ kept' = kept \cap bucket' /\ public' = public \cap bucket'
  BY DEF Change
<1>2. ever \subseteq ever' /\ bucket' \subseteq ever' /\ ever' \subseteq Key
  BY DEF Change, LInv, Typed
<1>3. Typed'
  <2>1. changes' \in 0..MaxChanges
    BY <1>1, ListingAssumption DEF LInv, Typed
  <2> QED BY <1>1, <1>2, <2>1 DEF LInv, Typed
<1>4. Pages'
  <2>1. \A d : /\ Entries(ever, d) \subseteq Entries(ever', d)
               /\ Entries(kept', d) \subseteq Entries(kept, d)
    BY <1>1, <1>2, Growing
  <2>2. \A d : Entries(kept, d)' = Entries(kept', d) /\ Entries(ever, d)' = Entries(ever', d)
    BY DEF Entries
  <2> QED BY <1>1, <2>1, <2>2 DEF LInv, Pages
<1>5. Failures'
  BY <1>1 DEF LInv, Failures
<1>6. Followed'
  <2>1. \A d : FilesOf(d)' = FilesOf(d) /\ SubdirsOf(d)' = SubdirsOf(d)
    BY <1>1 DEF FilesOf, SubdirsOf
  <2> QED BY <1>1, <2>1 DEF LInv, Followed, Visiting
<1>7. Counted'
  BY <1>1 DEF LInv, Counted, Published, Typed
<1> QED BY <1>3, <1>4, <1>5, <1>6, <1>7 DEF LInv

\* A page arrives: nothing between the old marker and the new one has been left out.
LEMMA AnswerListed ==
    ASSUME IInv, LInv, NEW d \in Dir, AnswerPage(d)
    PROVE  LInv'
<1> DEFINE marker == lister[d].marker
<1> DEFINE page == Page(d, marker)
<1> DEFINE found == entries[d] \cup page
<1>0. Root \in Dir /\ marker \in Entry \cup {NoMarker} /\ Entry \subseteq Nat
      /\ \A e \in Entry \cup {NoMarker} : e \in Int
  BY Clients, EntryType DEF LInv, Typed, NoMarker
<1>1. /\ UNCHANGED <<command, bucket, kept, ever, changes, public, num, desc_map, failed>>
      /\ entries' = [entries EXCEPT ![d] = found] /\ lister[d].pc = "asked"
  BY DEF AnswerPage, s3, Merged
<1>2. /\ kept \subseteq bucket /\ bucket \subseteq ever /\ ever \subseteq Key
      /\ Entries(kept, d) \subseteq Entries(bucket, d)
      /\ Entries(bucket, d) \subseteq Entries(ever, d) /\ Entries(bucket, d) \subseteq Entry
  BY Growing, EntryType DEF LInv, Typed
<1>3. Beyond(d, marker) = {e \in Entries(bucket, d) : e > marker}
  BY Present DEF Beyond
<1>4. /\ page \subseteq Beyond(d, marker)
      /\ \A e \in page : \A f \in Beyond(d, marker) : f <= e => f \in page
      /\ IsTruncated(d, marker) => LastNode(page) \in page
      /\ ~IsTruncated(d, marker) => page = Beyond(d, marker)
  <2>1. Beyond(d, marker) \subseteq Nat
    BY <1>0, <1>2, <1>3
  <2> HIDE DEF marker
  <2> QED BY <2>1, PageBegins DEF IsTruncated
<1>5. /\ \A e \in Entries(kept, d) : e <= marker => e \in entries[d]
      /\ entries[d] \subseteq Entries(ever, d)
  BY DEF LInv, Pages
<1> HIDE DEF page
<1>6. found \subseteq Entries(ever, d)
  BY <1>2, <1>3, <1>4, <1>5
<1>7. \A e \in Entries(kept, d) : e \in Int /\ (e \in entries[d] \/ e \in Beyond(d, marker))
  <2> SUFFICES ASSUME NEW e \in Entries(kept, d), e \notin entries[d]
               PROVE  e \in Int /\ e \in Beyond(d, marker)
    BY <1>0, <1>2
  <2>1. e \in Int /\ marker \in Int
    BY <1>0, <1>2
  <2>2. ~(e <= marker)
    BY <1>5
  <2> HIDE DEF marker
  <2>3. e > marker
    BY <2>1, <2>2
  <2> QED BY <1>2, <1>3, <2>1, <2>3
<1> HIDE DEF found, marker
<1>8. \A c \in Dir : entries'[c] = IF c = d THEN found ELSE entries[c]
  BY <1>1 DEF IInv, Form
<1>9. ASSUME /\ \A c \in Dir : lister'[c].pc \in Pc /\ lister'[c].attempt = lister[c].attempt
             /\ \A c \in Dir \ {d} : /\ lister'[c].marker = lister[c].marker
                                     /\ lister'[c].pc = lister[c].pc \/
                                          (lister'[c].pc = "queued" /\ lister[c].pc = "idle")
             /\ lister'[d].pc \in {"running", "done"}
             /\ lister'[d].marker \in Entry \cup {NoMarker}
             /\ \A e \in Entries(kept, d) : e <= lister'[d].marker => e \in found
             /\ lister'[d].pc = "done" => Entries(kept, d) \subseteq found
             /\ \A k \in File : /\ worker'[k].attempt = worker[k].attempt
                                /\ worker'[k].pc = worker[k].pc \/
                                     (worker'[k].pc = "queued" /\ worker[k].pc = "idle")
             /\ stage' \in {stage, "run"}
      PROVE  Typed' /\ Pages' /\ Failures' /\ Counted'
  <2>1. Typed'
    <3>1. \A c \in Dir : /\ lister'[c].pc \in Pc /\ lister'[c].attempt \in 0..(MaxAttempts - 1)
                         /\ lister'[c].marker \in Entry \cup {NoMarker}
      BY <1>9 DEF LInv, Typed
    <3>2. \A k \in File : worker'[k].pc \in Pc /\ worker'[k].attempt \in 0..(MaxAttempts - 1)
      BY <1>9 DEF LInv, Typed, Pc
    <3> QED BY <1>1, <3>1, <3>2 DEF LInv, Typed
  <2>2. Pages'
    <3> SUFFICES ASSUME NEW c \in Dir
                 PROVE  /\ entries'[c] \subseteq Entries(ever, c)
                        /\ entries'[c] # {} => lister'[c].pc # "idle"
                        /\ \A e \in Entries(kept, c) : e <= lister'[c].marker => e \in entries'[c]
                        /\ lister'[c].pc = "done" => Entries(kept, c) \subseteq entries'[c]
      BY <1>1 DEF Pages
    <3>1. CASE c = d
      BY <1>6, <1>8, <1>9, <3>1
    <3>2. CASE c # d
      BY <1>8, <1>9, <3>2 DEF LInv, Pages
    <3> QED BY <3>1, <3>2
  <2>3. Failures'
    <3>1. \A c \in Dir : lister'[c].pc = "failed" => lister[c].pc = "failed"
      BY <1>9
    <3>2. \A k \in File : worker'[k].pc = "failed" => worker[k].pc = "failed"
      BY <1>9
    <3>3. stage' \notin {"reset", "ended"}
      BY <1>1, <1>9 DEF IInv, Stages, Busy
    <3> QED BY <1>1, <3>1, <3>2, <3>3 DEF LInv, Failures
  <2>4. Counted'
    <3>1. /\ Published' = Published
          /\ {k \in File : worker'[k].pc = "done"} = {k \in File : worker[k].pc = "done"}
      BY <1>9 DEF Published
    <3>2. \A k \in File : worker'[k].pc \in {"running", "asked"} => worker[k].pc = worker'[k].pc
      BY <1>9
    <3> QED BY <1>1, <3>1, <3>2 DEF LInv, Counted
  <2> QED BY <2>1, <2>2, <2>3, <2>4
<1>10. CASE IsTruncated(d, marker)
  <2>1. /\ lister' = [lister EXCEPT ![d].pc = "running", ![d].marker = LastNode(page)]
        /\ UNCHANGED <<stage, worker>>
    BY <1>10 DEF AnswerPage, page, marker
  <2>2. /\ \A c \in Dir \ {d} : lister'[c] = lister[c]
        /\ lister'[d].pc = "running" /\ lister'[d].attempt = lister[d].attempt
        /\ lister'[d].marker = LastNode(page)
    <3> DEFINE once == [lister EXCEPT ![d].pc = "running"]
    <3>1. /\ once \in [Dir -> {once[c] : c \in Dir}] /\ \A c \in Dir \ {d} : once[c] = lister[c]
          /\ once[d] = [pc |-> "running", attempt |-> lister[d].attempt,
                        marker |-> lister[d].marker]
      BY DEF IInv, Form
    <3>2. lister' = [once EXCEPT ![d].marker = LastNode(page)]
      BY <2>1
    <3> HIDE DEF once
    <3> QED BY <3>1, <3>2
  <2>3. LastNode(page) \in Entry
    BY <1>2, <1>3, <1>4, <1>10
  <2>4. \A e \in Entries(kept, d) : e <= LastNode(page) => e \in found
    BY <1>4, <1>7, <1>10 DEF found
  <2>5. Typed' /\ Pages' /\ Failures' /\ Counted'
    <3>1. \A c \in Dir : lister'[c].pc \in Pc /\ lister'[c].attempt = lister[c].attempt
      BY <2>2 DEF LInv, Typed, Pc
    <3> QED BY <1>9, <2>1, <2>2, <2>3, <2>4, <3>1
  <2>6. Followed'
    <3>1. \A c \in Dir : lister'[c].pc = "done" => /\ lister[c].pc = "done" /\ c # d
                                                   /\ FilesOf(c)' = FilesOf(c)
                                                   /\ SubdirsOf(c)' = SubdirsOf(c)
      BY <1>8, <2>2 DEF FilesOf, SubdirsOf
    <3>2. \A c \in Dir : lister[c].pc = "done" => lister'[c].pc = "done"
      BY <1>1, <2>2
    <3>3. \A c \in Dir : lister[c].pc # "idle" => lister'[c].pc # "idle"
      BY <2>2
    <3>4. \A k \in File : Visiting(k)' <=> Visiting(k)
      BY <1>1, <3>1, <3>2 DEF Visiting
    <3> QED BY <1>1, <2>1, <3>1, <3>3, <3>4 DEF LInv, Followed
  <2> QED BY <2>5, <2>6 DEF LInv
<1>11. CASE ~IsTruncated(d, marker)
  <2>1. /\ lister' = [c \in Dir |->
                        IF c = d THEN [lister[d] EXCEPT !.pc = "done"]
                        ELSE IF c \in SubdirsToList(d, found)
                        THEN [lister[c] EXCEPT !.pc = "queued"] ELSE lister[c]]
        /\ worker' = [k \in File |->
                        IF k \in FilesToVisit(d, found)
                        THEN [worker[k] EXCEPT !.pc = "queued"] ELSE worker[k]]
        /\ stage' = "run"
    BY <1>11 DEF AnswerPage, Merged, found, page, marker
  <2>2. found \subseteq Nat
    BY <1>0, <1>2, <1>6, EntryType
  <2>3. /\ \A c \in SubdirsToList(d, found) : Front(c) = d /\ c # Root
        /\ \A k \in FilesToVisit(d, found) : Front(k) = d
    BY <2>2, InDir DEF SubdirsToList, FilesToVisit
  <2>4. /\ \A c \in Dir \ {Root} : Front(c) = d => lister[c].pc = "idle"
        /\ \A k \in File : Front(k) = d => worker[k].pc = "idle"
    BY <1>1 DEF IInv, Order, Found
  <2>5. /\ \A c \in Dir \ {d} : /\ lister'[c].marker = lister[c].marker
                                /\ lister'[c].attempt = lister[c].attempt
                                /\ lister'[c].pc = IF c \in SubdirsToList(d, found)
                                                   THEN "queued" ELSE lister[c].pc
        /\ lister'[d].pc = "done" /\ lister'[d].attempt = lister[d].attempt
        /\ lister'[d].marker = lister[d].marker
    BY <2>1 DEF IInv, Form
  <2>6. \A k \in File : /\ worker'[k].attempt = worker[k].attempt
                        /\ worker'[k].pc = IF k \in FilesToVisit(d, found)
                                           THEN "queued" ELSE worker[k].pc
    BY <2>1 DEF IInv, Form
  <2>7. Entries(kept, d) \subseteq found
    BY <1>4, <1>7, <1>11 DEF found
  <2>8. Typed' /\ Pages' /\ Failures' /\ Counted'
    <3>1. \A c \in Dir : lister'[c].pc \in Pc /\ lister'[c].attempt = lister[c].attempt
      BY <2>5 DEF LInv, Typed, Pc
    <3>2. \A c \in Dir \ {d} : lister'[c].pc = lister[c].pc \/
                                 (lister'[c].pc = "queued" /\ lister[c].pc = "idle")
      BY <2>3, <2>4, <2>5
    <3>3. \A k \in File : worker'[k].pc = worker[k].pc \/
                            (worker'[k].pc = "queued" /\ worker[k].pc = "idle")
      BY <2>3, <2>4, <2>6
    <3>4. lister'[d].marker \in Entry \cup {NoMarker}
      BY <1>0, <2>5 DEF marker
    <3> QED BY <1>9, <2>1, <2>5, <2>6, <2>7, <3>1, <3>2, <3>3, <3>4
  <2>9. Followed'
    <3>1. \A c \in Dir \ {d} : FilesOf(c)' = FilesOf(c) /\ SubdirsOf(c)' = SubdirsOf(c)
      BY <1>8 DEF FilesOf, SubdirsOf
    <3>2. /\ SubdirsToList(d, found) = IF command = "ls" THEN {} ELSE SubdirsOf(d)'
          /\ FilesToVisit(d, found) = IF command \in {"publish", "ls"} THEN FilesOf(d)' ELSE {}
      BY <1>8 DEF SubdirsToList, FilesToVisit, FilesOf, SubdirsOf
    <3>3. \A c \in Dir \ {d} : lister'[c].pc = "done" <=> lister[c].pc = "done"
      BY <2>3, <2>4, <2>5
    <3>4. \A c \in Dir : lister[c].pc # "idle" => lister'[c].pc # "idle"
      BY <2>5
    <3>5. command # "ls" => \A c \in Dir : c \in SubdirsOf(d)' => lister'[c].pc # "idle"
      BY <2>5, <3>2
    <3>6. \A k \in File : Visiting(k)' <=> Visiting(k) \/ k \in FilesToVisit(d, found)
      BY <1>1, <2>5, <3>1, <3>2, <3>3 DEF Visiting
    <3>7. \A k \in File : worker'[k].pc # "idle" <=>
                            worker[k].pc # "idle" \/ k \in FilesToVisit(d, found)
      BY <2>6
    <3> QED BY <1>1, <3>1, <3>3, <3>4, <3>5, <3>6, <3>7 DEF LInv, Followed
  <2> QED BY <2>8, <2>9 DEF LInv
<1> QED BY <1>10, <1>11

\* A file is visited: its ACL is counted when its request has been answered, and only then.
LEMMA VisitStep ==
    ASSUME IInv, LInv, NEW k \in File,
           SkipFile(k) \/ AskFile(k) \/ AnswerFile(k) \/ FileWarns(k) \/ FileDies(k)
    PROVE  LInv'
<1>0. /\ failed \in BOOLEAN /\ num \in Nat /\ MaxAttempts \in Nat \ {0}
      /\ worker[k].attempt \in 0..(MaxAttempts - 1)
      /\ worker = [l \in File |-> [pc |-> worker[l].pc, attempt |-> worker[l].attempt]]
  BY ListingAssumption DEF LInv, Typed, IInv, Form
<1>1. UNCHANGED <<command, bucket, kept, ever, changes, entries, lister>>
  BY DEF SkipFile, AskFile, AnswerFile, FileWarns, FileDies, s3
<1>2. worker[k].pc \in {"queued", "running", "asked"}
  BY DEF SkipFile, AskFile, AnswerFile, FileWarns, FileDies
<1>3. stage \notin {"reset", "ended"}
  BY <1>2 DEF IInv, Stages, Busy
<1>4. \A l : Visiting(l)' <=> Visiting(l)
  BY <1>1 DEF Visiting, FilesOf
<1>5. ASSUME NEW state \in {"done", "asked", "running", "failed"}, stage' = stage,
             \A l \in File \ {k} : worker'[l] = worker[l],
             worker'[k].pc = state, worker'[k].attempt \in 0..(MaxAttempts - 1),
             public' \subseteq File, desc_map' \subseteq File, num' \in Nat,
             failed' \in BOOLEAN, failed => failed', state = "failed" => failed'
      PROVE  Typed' /\ Pages' /\ Failures' /\ Followed'
  <2>1. Typed'
    <3>1. \A l \in File : worker'[l].pc \in Pc /\ worker'[l].attempt \in 0..(MaxAttempts - 1)
      <4> SUFFICES ASSUME NEW l \in File
                   PROVE  worker'[l].pc \in Pc /\ worker'[l].attempt \in 0..(MaxAttempts - 1)
        OBVIOUS
      <4>1. CASE l = k
        BY <1>5, <4>1 DEF Pc
      <4>2. CASE l # k
        BY <1>5, <4>2 DEF LInv, Typed
      <4> QED BY <4>1, <4>2
    <3> QED BY <1>1, <1>5, <3>1 DEF LInv, Typed
  <2>2. Pages'
    BY <1>1 DEF LInv, Pages
  <2>3. Failures'
    BY <1>1, <1>3, <1>5 DEF LInv, Failures
  <2>4. Followed'
    <3>1. \A d : SubdirsOf(d)' = SubdirsOf(d)
      BY <1>1 DEF SubdirsOf
    <3>2. \A l \in File : worker'[l].pc # "idle" <=> worker[l].pc # "idle"
      BY <1>2, <1>5
    <3> QED BY <1>1, <1>4, <1>5, <3>1, <3>2 DEF LInv, Followed
  <2> QED BY <2>1, <2>2, <2>3, <2>4
<1>6. ASSUME NEW state, \A l \in File \ {k} : worker'[l] = worker[l], worker'[k].pc = state,
             command = "publish" /\ state = "done" => k \in Excluded
      PROVE  command = "publish" => Published' = Published
  BY <1>2, <1>6 DEF Published
<1>7. CASE SkipFile(k)
  <2>1. /\ worker' = [worker EXCEPT ![k].pc = "done"] /\ command = "publish" /\ k \in Excluded
        /\ UNCHANGED <<stage, public, num, desc_map, failed>>
    BY <1>7 DEF SkipFile
  <2>2. /\ \A l \in File \ {k} : worker'[l] = worker[l]
        /\ worker'[k].pc = "done" /\ worker'[k].attempt = worker[k].attempt
    BY <1>0, <2>1
  <2>3. Typed' /\ Pages' /\ Failures' /\ Followed'
    BY <1>0, <1>5, <2>1, <2>2 DEF LInv, Typed
  <2>4. Published' = Published
    BY <1>6, <2>1, <2>2
  <2>5. Counted'
    BY <1>1, <2>1, <2>2, <2>4 DEF LInv, Counted
  <2> QED BY <2>3, <2>5 DEF LInv
<1>8. CASE AskFile(k)
  <2>1. /\ worker' = [worker EXCEPT ![k].pc = "asked"]
        /\ command = "publish" => k \notin Excluded
        /\ UNCHANGED <<stage, public, num, desc_map, failed>>
    BY <1>8 DEF AskFile
  <2>2. /\ \A l \in File \ {k} : worker'[l] = worker[l]
        /\ worker'[k].pc = "asked" /\ worker'[k].attempt = worker[k].attempt
    BY <1>0, <2>1
  <2>3. Typed' /\ Pages' /\ Failures' /\ Followed'
    BY <1>0, <1>5, <2>1, <2>2 DEF LInv, Typed
  <2>4. /\ command = "publish" => Published' = Published
        /\ {l \in File : worker'[l].pc = "done"} = {l \in File : worker[l].pc = "done"}
    BY <1>2, <1>6, <2>2
  <2>5. Counted'
    BY <1>1, <2>1, <2>2, <2>4 DEF LInv, Counted
  <2> QED BY <2>3, <2>5 DEF LInv
<1>9. CASE AnswerFile(k)
  <2>1. /\ worker' = [worker EXCEPT ![k].pc = "done"] /\ worker[k].pc = "asked"
        /\ UNCHANGED <<stage, failed>>
        /\ IF command = "publish"
           THEN public' = public \cup {k} /\ num' = num + 1 /\ UNCHANGED desc_map
           ELSE desc_map' = desc_map \cup {k} /\ UNCHANGED <<public, num>>
    BY <1>9 DEF AnswerFile
  <2>2. /\ \A l \in File \ {k} : worker'[l] = worker[l]
        /\ worker'[k].pc = "done" /\ worker'[k].attempt = worker[k].attempt
    BY <1>0, <2>1
  <2>3. Typed' /\ Pages' /\ Failures' /\ Followed'
    <3>1. public' \subseteq File /\ desc_map' \subseteq File /\ num' \in Nat
      BY <1>0, <2>1 DEF LInv, Typed
    <3> QED BY <1>0, <1>5, <2>1, <2>2, <3>1
  <2>4. ASSUME command = "publish"
        PROVE  /\ IsFiniteSet(Published') /\ num' = Cardinality(Published')
               /\ \A l \in File : worker'[l].pc \in {"running", "asked"} => l \notin Excluded
               /\ Published' \cap kept \subseteq public' /\ public' \cap Excluded = {}
    <3>1. k \notin Excluded /\ IsFiniteSet(Published) /\ num = Cardinality(Published)
          /\ Published \cap kept \subseteq public /\ public \cap Excluded = {}
      BY <2>1, <2>4 DEF LInv, Counted
    <3>2. Published' = Published \cup {k} /\ k \notin Published
      BY <2>1, <2>2, <3>1 DEF Published
    <3>3. IsFiniteSet(Published') /\ Cardinality(Published') = Cardinality(Published) + 1
      BY <3>1, <3>2, FS_AddElement
    <3>4. \A l \in File : worker'[l].pc \in {"running", "asked"} => l \notin Excluded
      BY <2>2, <2>4 DEF LInv, Counted
    <3> QED BY <2>1, <2>4, <3>1, <3>2, <3>3, <3>4
  <2>5. {l \in File : worker'[l].pc = "done"} = {l \in File : worker[l].pc = "done"} \cup {k}
    BY <2>1, <2>2
  <2>6. Counted'
    BY <1>1, <2>1, <2>4, <2>5 DEF LInv, Counted
  <2> QED BY <2>3, <2>6 DEF LInv
<1>10. ASSUME NEW state \in {"running", "failed"}, worker[k].pc = "asked", MayPublish(k),
              num' = num, desc_map' = desc_map, stage' = stage,
              \A l \in File \ {k} : worker'[l] = worker[l],
              worker'[k].pc = state, worker'[k].attempt \in 0..(MaxAttempts - 1),
              failed' \in BOOLEAN, failed => failed', state = "failed" => failed'
       PROVE  LInv'
  <2>1. public \subseteq public' /\ public' \subseteq public \cup {k}
        /\ (command # "publish" => public' = public)
    BY <1>10 DEF MayPublish
  <2>2. Typed' /\ Pages' /\ Failures' /\ Followed'
    <3>1. public' \subseteq File /\ desc_map' \subseteq File /\ num' \in Nat
      BY <1>0, <1>10, <2>1 DEF LInv, Typed
    <3> QED BY <1>5, <1>10, <3>1
  <2>3. /\ command = "publish" => Published' = Published
        /\ {l \in File : worker'[l].pc = "done"} = {l \in File : worker[l].pc = "done"}
    BY <1>2, <1>6, <1>10
  <2>4. ASSUME command = "publish"
        PROVE  /\ \A l \in File : worker'[l].pc \in {"running", "asked"} => l \notin Excluded
               /\ Published \cap kept \subseteq public' /\ public' \cap Excluded = {}
    <3>1. /\ k \notin Excluded /\ Published \cap kept \subseteq public /\ public \cap Excluded = {}
          /\ \A l \in File : worker[l].pc \in {"running", "asked"} => l \notin Excluded
      BY <1>10, <2>4 DEF LInv, Counted
    <3> QED BY <1>10, <2>1, <3>1
  <2>5. Counted'
    BY <1>1, <1>10, <2>1, <2>3, <2>4 DEF LInv, Counted
  <2> QED BY <2>2, <2>5 DEF LInv
<1>11. CASE FileWarns(k)
  <2>1. /\ worker' = [worker EXCEPT ![k] = [pc |-> "running", attempt |-> @.attempt + 1]]
        /\ worker[k].pc = "asked" /\ MayPublish(k) /\ ~LastAttempt(worker[k].attempt)
        /\ num' = num /\ UNCHANGED <<stage, desc_map, failed>>
    BY <1>11 DEF FileWarns, Warned
  <2>2. /\ \A l \in File \ {k} : worker'[l] = worker[l]
        /\ worker'[k].pc = "running" /\ worker'[k].attempt = worker[k].attempt + 1
    BY <1>0, <2>1
  <2>3. worker[k].attempt + 1 \in 0..(MaxAttempts - 1)
    BY <1>0, <2>1 DEF LastAttempt
  <2> QED BY <1>0, <1>10, <2>1, <2>2, <2>3
<1>12. CASE FileDies(k) /\ Parallel
  <2>1. /\ worker' = [worker EXCEPT ![k].pc = "failed"] /\ failed' /\ failed' \in BOOLEAN
        /\ worker[k].pc = "asked" /\ MayPublish(k) /\ num' = num /\ UNCHANGED <<stage, desc_map>>
    BY <1>12 DEF FileDies, Warned
  <2>2. /\ \A l \in File \ {k} : worker'[l] = worker[l]
        /\ worker'[k].pc = "failed" /\ worker'[k].attempt = worker[k].attempt
    BY <1>0, <2>1
  <2> QED BY <1>0, <1>10, <2>1, <2>2
<1>13. CASE FileDies(k) /\ ~Parallel
  <2>1. /\ worker' = [l \in File |-> NoTask] /\ failed' /\ failed' \in BOOLEAN
        /\ MayPublish(k) /\ num' = num /\ UNCHANGED desc_map /\ command = "ls"
    BY <1>13 DEF FileDies, Warned, Parallel
  <2>2. public' = public
    BY <2>1 DEF MayPublish
  <2>3. \A l \in File : worker'[l].pc = "idle" /\ worker'[l].attempt = 0
    BY <2>1 DEF NoTask
  <2>4. Typed'
    BY <1>0, <1>1, <2>1, <2>2, <2>3 DEF LInv, Typed, Pc
  <2>5. Pages'
    BY <1>1 DEF LInv, Pages
  <2>6. Failures' /\ Counted'
    BY <1>1, <2>1 DEF Failures, Counted
  <2>7. Followed'
    BY <1>1, <2>1 DEF Followed
  <2> QED BY <2>4, <2>5, <2>6, <2>7 DEF LInv
<1> QED BY <1>7, <1>8, <1>9, <1>11, <1>12, <1>13

\* What has been listed and visited is as LInv says in every reachable state.
LEMMA Listings == Spec => []LInv
<1>1. IInv /\ LInv /\ [Next]_vars => LInv'
  <2> SUFFICES ASSUME IInv, LInv, [Next]_vars PROVE LInv'
    OBVIOUS
  <2> QED BY ListerStep, StageStep, ChangeStep, AnswerListed, VisitStep DEF Next, Step
<1> QED BY LInitially, Invariance, <1>1, PTL DEF Spec

-----------------------------------------------------------------------------
\* What follows from it.

\* At the end of a command that succeeds all listings have ended well.
LEMMA AllEnded ==
    ASSUME IInv, LInv, Success
    PROVE  /\ lister[Root].pc = "done" /\ Root \in Dir
           /\ \A d \in Dir : lister[d].pc # "idle" => lister[d].pc = "done"
           /\ \A k \in File : worker[k].pc # "idle" => worker[k].pc = "done"
<1>1. /\ stage = "ended" /\ ~failed
      /\ \A d \in Dir : lister[d].pc \in Pc \ {"failed"} /\ lister[d].pc \notin Busy
      /\ \A k \in File : worker[k].pc \in Pc \ {"failed"} /\ worker[k].pc \notin Busy
  BY DEF Success, LInv, Failures, Typed, IInv, Stages
<1>2. lister[Root].pc = "done"
  BY <1>1 DEF LInv, Failures
<1> QED BY <1>1, <1>2, Clients DEF Pc, Busy

\* The directory of each file that has been there all the time has been listed: it and
\* the directories above it have been found one after the other.
LEMMA DirsListed ==
    ASSUME IInv, LInv, Success, NEW k \in kept \cap File, command = "ls" => Len(k) = 1
    PROVE  Front(k) \in Dir /\ lister[Front(k)].pc = "done"
<1>0. k \in Key /\ Len(k) \in Nat \ {0} /\ kept \subseteq Key
  BY DirType DEF LInv, Typed
<1>1. /\ lister[Root].pc = "done" /\ Root \in Dir
      /\ \A d \in Dir : lister[d].pc # "idle" => lister[d].pc = "done"
  BY AllEnded
<1> DEFINE Missing == {i \in 0..(Len(k) - 1) : lister[SubSeq(k, 1, i)].pc # "done"}
<1>2. Missing = {}
  <2> SUFFICES ASSUME Missing # {} PROVE FALSE
    OBVIOUS
  <2>1. PICK i \in Missing : \A j \in Missing : i <= j
    <3>1. Missing \subseteq Nat
      BY <1>0
    <3> HIDE DEF Missing
    <3> QED BY <3>1, Least
  <2>2. i \in Nat /\ i <= Len(k) - 1 /\ lister[SubSeq(k, 1, i)].pc # "done"
    BY <1>0, <2>1
  <2>3. i # 0
    <3>1. SubSeq(k, 1, 0) = Root
      BY <1>0, SubSeqEmpty DEF Root
    <3> QED BY <1>1, <2>2, <3>1
  <2>4. i \in 1..(Len(k) - 1) /\ i - 1 \in 0..(Len(k) - 1) /\ ~(i <= i - 1)
    BY <1>0, <2>2, <2>3
  <2>5. lister[SubSeq(k, 1, i - 1)].pc = "done"
    BY <2>1, <2>4
  <2> DEFINE d == SubSeq(k, 1, i - 1)
  <2> DEFINE c == SubSeq(k, 1, i)
  <2>6. PICK e \in Entries(kept, d) : IsDirEntry(e) /\ Path(d, e) = c
    BY <1>0, <2>4, DirFound
  <2>7. d \in Dir /\ c \in Dir
    BY <1>0, <2>4, PrefixSplit
  <2>8. command # "ls"
    <3>1. Len(k) # 1
      <4> DEFINE n == Len(k)
      <4>1. n \in Nat /\ i \in Nat /\ i <= n - 1 /\ i # 0
        BY <1>0, <2>2, <2>3
      <4> HIDE DEF n, Missing
      <4>2. n # 1
        BY <4>1
      <4> QED BY <4>2 DEF n
    <3> QED BY <3>1
  <2>9. lister[d].pc = "done" /\ lister[c].pc # "done"
    BY <2>2, <2>5
  <2> HIDE DEF c, d
  <2>10. c \in SubdirsOf(d)
    BY <2>6, <2>7, <2>9 DEF LInv, Pages, SubdirsOf
  <2>11. lister[c].pc # "idle"
    BY <2>7, <2>8, <2>9, <2>10 DEF LInv, Followed
  <2> QED BY <1>1, <2>7, <2>9, <2>11
<1>3. Len(k) - 1 \in 0..(Len(k) - 1) /\ Front(k) = SubSeq(k, 1, Len(k) - 1)
  BY <1>0 DEF Front
<1> QED BY <1>0, <1>2, <1>3, KeySplit

\* A command that succeeds has found every file that was in the bucket from its first step
\* to its last, and none that never was, for any keys, any size of a page, any changes
\* of the bucket between two pages and any pages asked for again (connection.cpp:278-356).
THEOREM ListingIsExact == Spec => []ListingExact
<1>1. ASSUME IInv, LInv PROVE ListingExact
  <2> SUFFICES ASSUME Success
               PROVE  /\ \A k \in kept \cap File : (command = "ls" => Len(k) = 1) => k \in Listed
                      /\ Listed \subseteq ever
    BY DEF ListingExact
  <2>0. kept \subseteq Key /\ ever \subseteq Key
    BY <1>1 DEF LInv, Typed
  <2>1. ASSUME NEW k \in kept \cap File, command = "ls" => Len(k) = 1 PROVE k \in Listed
    <3> DEFINE d == Front(k)
    <3>1. d \in Dir /\ lister[d].pc = "done"
      BY <1>1, <2>1, DirsListed
    <3>2. PICK e \in Entries(kept, d) : ~IsDirEntry(e) /\ Path(d, e) = k /\ k # Append(d, 0)
      BY <2>0, FileFound
    <3> HIDE DEF d
    <3>3. e \in entries[d]
      BY <1>1, <3>1 DEF LInv, Pages
    <3>4. k \in FilesOf(d)
      BY <3>2, <3>3 DEF FilesOf
    <3> QED BY <3>1, <3>4 DEF Listed
  <2>2. ASSUME NEW d \in Dir, NEW k \in FilesOf(d) PROVE k \in ever
    <3>1. PICK e \in entries[d] : ~IsDirEntry(e) /\ k = Path(d, e) /\ k # Append(d, 0)
      BY DEF FilesOf
    <3>2. e \in Entries(ever, d)
      BY <1>1, <3>1 DEF LInv, Pages
    <3> QED BY <2>0, <3>1, <3>2, FileThere
  <2> QED BY <2>1, <2>2 DEF Listed
<1> QED BY <1>1, Invariance, Listings, PTL

\* publish counts each file that it finds and includes exactly once, however often it has
\* sent the request, and makes no other file public; ls describes exactly the files that
\* it is about to print (sync.cpp:496-513, commands.cpp:469-500).
THEOREM AllAreVisited == Spec => []AllVisited
<1>1. ASSUME IInv, LInv PROVE AllVisited
  <2> SUFFICES ASSUME Success
               PROVE  /\ command = "publish" =>
                           /\ num = Cardinality(Listed \ Excluded)
                           /\ \A k \in Listed \ Excluded :
                                k \in bucket /\ k \in kept => k \in public
                           /\ public \cap Excluded = {}
                      /\ command = "ls" => FilesOf(Root) = desc_map
    BY DEF AllVisited
  <2>0. /\ lister[Root].pc = "done" /\ Root \in Dir /\ ~failed
        /\ \A d \in Dir : lister[d].pc # "idle" => lister[d].pc = "done"
        /\ \A k \in File : worker[k].pc # "idle" => worker[k].pc = "done"
    BY <1>1, AllEnded DEF Success
  <2>1. \A d \in Dir : FilesOf(d) \subseteq File
    <3> SUFFICES ASSUME NEW d \in Dir, NEW k \in FilesOf(d) PROVE k \in File
      OBVIOUS
    <3>1. PICK e \in entries[d] : ~IsDirEntry(e) /\ k = Path(d, e) /\ k # Append(d, 0)
      BY DEF FilesOf
    <3>2. e \in Entries(ever, d) /\ ever \subseteq Key
      BY <1>1, <3>1 DEF LInv, Pages, Typed
    <3> QED BY <3>1, <3>2, FileThere
  <2>2. \A d \in Dir : FilesOf(d) # {} => lister[d].pc = "done"
    <3>1. \A d \in Dir : FilesOf(d) # {} => entries[d] # {}
      BY DEF FilesOf
    <3> QED BY <1>1, <2>0, <3>1 DEF LInv, Pages
  <2>3. ASSUME command \in {"publish", "ls"}
        PROVE  Listed = {k \in File : worker[k].pc = "done"}
    <3>1. \A k \in File : worker[k].pc = "done" <=>
                            \E d \in Dir : lister[d].pc = "done" /\ k \in FilesOf(d)
      BY <1>1, <2>0, <2>3 DEF LInv, Followed, Visiting
    <3>2. \A k \in Listed : k \in File /\ \E d \in Dir : lister[d].pc = "done" /\ k \in FilesOf(d)
      BY <2>1, <2>2 DEF Listed
    <3> QED BY <3>1, <3>2 DEF Listed
  <2>4. ASSUME command = "publish"
        PROVE  /\ num = Cardinality(Listed \ Excluded)
               /\ \A k \in Listed \ Excluded : k \in bucket /\ k \in kept => k \in public
               /\ public \cap Excluded = {}
    <3>1. Listed \ Excluded = Published
      BY <2>3, <2>4 DEF Published
    <3> QED BY <1>1, <2>4, <3>1 DEF LInv, Counted
  <2>5. ASSUME command = "ls" PROVE FilesOf(Root) = desc_map
    <3>1. \A d \in Dir \ {Root} : FilesOf(d) = {}
      BY <1>1, <2>2, <2>5 DEF IInv, Serial
    <3>2. Listed = FilesOf(Root)
      BY <2>0, <3>1 DEF Listed
    <3> QED BY <1>1, <2>0, <2>3, <2>5, <3>2 DEF LInv, Counted
  <2> QED BY <2>4, <2>5
<1> QED BY <1>1, Invariance, Listings, PTL

\* A listing whose page has been answered, and that is to go on, has got further: to a
\* greater marker, or to the next attempt.
Advances ==
    \A d \in Dir : lister[d].pc = "asked" /\ lister'[d].pc = "running" =>
      \/ lister'[d].marker > lister[d].marker
      \/ lister'[d].attempt > lister[d].attempt

\* No page is asked for twice in one attempt, since the last node of a page, of whatever
\* prefixes and files it consists, lies beyond the marker (connection.cpp:278-356): what
\* CommandEnds needs, without the promise that requests are answered.
THEOREM ListingsAdvance == Spec => [][Advances]_vars
<1>1. ASSUME IInv, LInv, [Next]_vars PROVE [Advances]_vars
  <2> SUFFICES ASSUME NEW d \in Dir, lister[d].pc = "asked", lister'[d].pc = "running", Next
               PROVE  \/ lister'[d].marker > lister[d].marker
                      \/ lister'[d].attempt > lister[d].attempt
    BY <1>1 DEF Advances
  <2>0. /\ Root \in Dir
        /\ \A c \in Dir : lister[c] = [pc |-> lister[c].pc, attempt |-> lister[c].attempt,
                                       marker |-> lister[c].marker]
        /\ DOMAIN lister = Dir /\ lister[d].attempt \in Nat
    <3>1. lister[d].attempt \in 0..(MaxAttempts - 1)
      BY <1>1 DEF LInv, Typed
    <3> QED BY <1>1, <3>1, Clients DEF IInv, Form
  <2>1. \/ AnswerPage(d) /\ IsTruncated(d, lister[d].marker)
        \/ PageWarns(d)
    <3>1. CASE AskRegion \/ Return \/ Reset \/ Change \/ Finished
      BY <3>1 DEF AskRegion, Return, Reset, Change, Finished, vars
    <3>2. CASE AnswerRegion \/ MainThrows
      BY <1>1, <2>0, <3>2 DEF AnswerRegion, MainThrows, IInv, Stages
    <3>3. ASSUME NEW k \in File,
                 SkipFile(k) \/ AskFile(k) \/ AnswerFile(k) \/ FileWarns(k) \/ FileDies(k)
          PROVE  FALSE
      BY <3>3 DEF SkipFile, AskFile, AnswerFile, FileWarns, FileDies
    <3>4. ASSUME NEW c \in Dir, AskPage(c) \/ PageDies(c) PROVE FALSE
      BY <2>0, <3>4 DEF AskPage, PageDies
    <3>5. ASSUME NEW c \in Dir, PageWarns(c) PROVE c = d
      BY <2>0, <3>5 DEF PageWarns
    <3>6. ASSUME NEW c \in Dir, AnswerPage(c) PROVE c = d /\ IsTruncated(d, lister[d].marker)
      <4>1. CASE IsTruncated(c, lister[c].marker)
        <5>1. \A b \in Dir \ {c} : lister'[b] = lister[b]
          BY <2>0, <3>6, <4>1 DEF AnswerPage
        <5> QED BY <4>1, <5>1
      <4>2. CASE ~IsTruncated(c, lister[c].marker)
        <5> DEFINE found == Merged(c, Page(c, lister[c].marker))
        <5>1. lister' = [b \in Dir |->
                           IF b = c THEN [lister[c] EXCEPT !.pc = "done"]
                           ELSE IF b \in SubdirsToList(c, found)
                           THEN [lister[b] EXCEPT !.pc = "queued"] ELSE lister[b]]
          BY <3>6, <4>2 DEF AnswerPage
        <5> HIDE DEF found
        <5>2. lister'[d].pc \in {"done", "queued", lister[d].pc}
          BY <2>0, <5>1
        <5> QED BY <5>2
      <4> QED BY <4>1, <4>2
    <3> QED BY <3>1, <3>2, <3>3, <3>4, <3>5, <3>6 DEF Next, Step
  <2>2. CASE AnswerPage(d) /\ IsTruncated(d, lister[d].marker)
    <3> DEFINE marker == lister[d].marker
    <3> DEFINE page == Page(d, marker)
    <3>1. lister' = [lister EXCEPT ![d].pc = "running", ![d].marker = LastNode(page)]
      BY <2>2 DEF AnswerPage
    <3>2. lister'[d].marker = LastNode(page)
      <4> DEFINE once == [lister EXCEPT ![d].pc = "running"]
      <4>1. DOMAIN once = Dir
            /\ once[d] = [pc |-> "running", attempt |-> lister[d].attempt, marker |-> marker]
        BY <2>0
      <4>2. lister' = [once EXCEPT ![d].marker = LastNode(page)]
        BY <3>1
      <4> HIDE DEF once, page
      <4> QED BY <4>1, <4>2
    <3>3. Beyond(d, marker) \subseteq Nat /\ \A e \in Beyond(d, marker) : e > marker
      <4>1. bucket \subseteq Key
        BY <1>1 DEF IInv, Form
      <4>2. Entries(bucket, d) \subseteq Nat
        BY <4>1, EntryType
      <4> QED BY <4>2, Present DEF Beyond
    <3>4. LastNode(page) \in Beyond(d, marker)
      <4> HIDE DEF marker
      <4>1. IsTruncated(d, marker)
        BY <2>2 DEF marker
      <4> QED BY <3>3, <4>1, PageBegins
    <3> QED BY <3>2, <3>3, <3>4
  <2>3. CASE PageWarns(d)
    <3>1. lister'[d].attempt = lister[d].attempt + 1
      BY <2>0, <2>3 DEF PageWarns
    <3> QED BY <2>0, <3>1
  <2> QED BY <2>1, <2>2, <2>3
<1> QED BY <1>1, Invariance, Listings, PTL DEF Spec

-----------------------------------------------------------------------------
\* Types.

\* In each zone there are no more handles than clients.
Roomy == \A z \in Zone : Cardinality(InZone(z)) <= Cardinality(Client)

\* What a step does to the pool.
LEMMA PoolSteps ==
    ASSUME IInv, [Next]_vars
    PROVE  \/ UNCHANGED <<curls_, borrowed_curls_>>
           \/ \E c \in Client : ReleaseCurl(c)
           \/ \E c \in Client, z \in Zone : held[c] = {} /\ GetCurl(c, z)
           \/ ResetPool /\ DOMAIN borrowed_curls_ = {}
<1>0. /\ Main \in Client /\ Root \in Dir /\ Main = Lister(Root) /\ "s3" \in Zone /\ zone \in Zone
      /\ \A d \in Dir : Lister(d) \in Client
      /\ \A k \in File : Worker(k) \in Client
  BY Clients, ListingAssumption DEF IInv, Form
<1>1. CASE AskRegion
  BY <1>0, <1>1 DEF AskRegion, Borrowers
<1>2. CASE AnswerRegion \/ MainThrows
  BY <1>0, <1>2 DEF AnswerRegion, MainThrows
<1>3. ASSUME NEW d \in Dir, AskPage(d) \/ AnswerPage(d) \/ PageWarns(d) \/ PageDies(d)
      PROVE  \/ \E c \in Client : ReleaseCurl(c)
             \/ \E c \in Client, z \in Zone : held[c] = {} /\ GetCurl(c, z)
  <2>1. CASE AskPage(d)
    <3>1. held[Lister(d)] = {}
      BY <2>1 DEF AskPage, IInv, Lent, Stages
    <3> QED BY <1>0, <2>1, <3>1 DEF AskPage
  <2> QED BY <1>0, <1>3, <2>1 DEF AnswerPage, PageWarns, PageDies
<1>4. ASSUME NEW k \in File,
             SkipFile(k) \/ AskFile(k) \/ AnswerFile(k) \/ FileWarns(k) \/ FileDies(k)
      PROVE  \/ UNCHANGED <<curls_, borrowed_curls_>>
             \/ \E c \in Client : ReleaseCurl(c)
             \/ \E c \in Client, z \in Zone : held[c] = {} /\ GetCurl(c, z)
  <2>1. CASE AskFile(k)
    <3>1. held[Worker(k)] = {}
      BY <2>1 DEF AskFile, IInv, Lent
    <3> QED BY <1>0, <2>1, <3>1 DEF AskFile
  <2>2. CASE SkipFile(k)
    BY <2>2 DEF SkipFile, pool
  <2> QED BY <1>0, <1>4, <2>1, <2>2 DEF AnswerFile, FileWarns, FileDies
<1>5. CASE Reset
  <2>1. \A c \in Client : held[c] = {}
    BY <1>5, Clients DEF Reset, IInv, Stages, Lent, Busy
  <2> QED BY <1>5, <2>1 DEF Reset, IInv, PInv, Borrowed
<1>6. CASE Return \/ Change \/ Finished \/ UNCHANGED vars
  BY <1>6 DEF Return, Change, Finished, vars, pool
<1> QED BY <1>1, <1>2, <1>3, <1>4, <1>5, <1>6 DEF Next, Step

\* A client that borrows a handle has none: so a zone gets a new one only if it has less
\* of them than there are clients.
LEMMA RoomStays ==
    ASSUME IInv, Roomy, [Next]_vars
    PROVE  Roomy'
<1>0. PInv /\ IsFiniteSet(Client) /\ Cardinality(Client) \in Nat
  BY PoolAssumption, FS_CardinalityType DEF IInv
<1>1. CASE UNCHANGED <<curls_, borrowed_curls_>>
  BY <1>1 DEF Roomy, InZone, Free
<1>2. ASSUME NEW c \in Client, ReleaseCurl(c) PROVE Roomy'
  <2>1. \A z \in Zone : InZone(z)' = InZone(z)
    BY <1>0, <1>2, ZoneRelease
  <2> QED BY <2>1 DEF Roomy
<1>3. ASSUME NEW c \in Client, NEW z \in Zone, held[c] = {}, GetCurl(c, z) PROVE Roomy'
  <2> DEFINE S == Client \ {c}
  <2>1. /\ IsFiniteSet(S) /\ Cardinality(S) = Cardinality(Client) - 1
        /\ \A b \in Client : held[b] # {} => b \in S
    BY <1>0, <1>3, FS_RemoveElement
  <2> HIDE DEF S
  <2>2. /\ Cardinality(DOMAIN borrowed_curls_) <= Cardinality(S)
        /\ Cardinality(DOMAIN borrowed_curls_) \in Nat
    BY <1>0, <2>1, BorrowedBound, Finite
  <2>3. /\ \A y \in Zone \ {z} : InZone(y)' = InZone(y)
        /\ \/ InZone(z)' = InZone(z)
           \/ /\ Cardinality(InZone(z)') \in Nat
              /\ Cardinality(InZone(z)') <= Cardinality(DOMAIN borrowed_curls_) + 1
    BY <1>0, <1>3, ZoneBorrow
  <2>4. Cardinality(InZone(z)') <= Cardinality(Client)
    <3>1. CASE InZone(z)' = InZone(z)
      BY <3>1 DEF Roomy
    <3>2. CASE InZone(z)' # InZone(z)
      BY <1>0, <2>1, <2>2, <2>3, <3>2
    <3> QED BY <3>1, <3>2
  <2> QED BY <2>3, <2>4 DEF Roomy
<1>4. CASE ResetPool /\ DOMAIN borrowed_curls_ = {}
  <2>1. /\ \A z \in Zone : curls_'[z] = <<>>
        /\ borrowed_curls_' = borrowed_curls_ /\ DOMAIN <<>> = {}
    BY <1>4 DEF ResetPool
  <2>2. \A z \in Zone : InZone(z)' = {}
    BY <1>4, <2>1 DEF InZone, Free
  <2> QED BY <1>0, <2>2, FS_EmptySet DEF Roomy
<1> QED BY <1>1, <1>2, <1>3, <1>4, PoolSteps

\* The handles are those of Handle.
LEMMA PoolTyped ==
    ASSUME IInv, Roomy
    PROVE  PoolTypeOK
<1>0. /\ PInv /\ "s3" \in Zone /\ "other" \in Zone /\ Zone = {"s3", "other"}
      /\ Cardinality(Client) \in Nat
  BY ListingAssumption, PoolAssumption, FS_CardinalityType DEF IInv
<1> DEFINE A == InZone("s3")
<1> DEFINE B == InZone("other")
<1>1. error_bufs_ = A \cup B
  <2>1. Zone = {"s3", "other"} /\ PInv
    BY <1>0
  <2>2. error_bufs_ = Allocated /\ \A h \in DOMAIN borrowed_curls_ : borrowed_curls_[h] \in Zone
    BY <2>1 DEF PInv, Borrowed
  <2>3. Allocated = Free("s3") \cup Free("other") \cup DOMAIN borrowed_curls_
    BY <2>1 DEF Allocated
  <2> QED BY <2>1, <2>2, <2>3 DEF InZone
<1> DEFINE c == Cardinality(Client)
<1>2. /\ IsFiniteSet(A) /\ Cardinality(A) \in Nat /\ Cardinality(A) <= c
      /\ IsFiniteSet(B) /\ Cardinality(B) \in Nat /\ Cardinality(B) <= c
  BY <1>0, Finite DEF Roomy
<1>3. Cardinality(Zone) = 2
  <2>1. Zone = {"s3"} \cup {"other"} /\ "other" \notin {"s3"}
    BY <1>0
  <2>2. IsFiniteSet({"s3"}) /\ Cardinality({"s3"}) = 1
    BY FS_Singleton
  <2> QED BY <2>1, <2>2, FS_AddElement
<1>4. PICK n \in Nat : error_bufs_ = 1..n /\ Cardinality(error_bufs_) = n
  <2>1. PICK n \in Nat : error_bufs_ = 1..n
    BY <1>0 DEF PInv
  <2> QED BY <2>1, FS_Interval
<1> HIDE DEF A, B
<1>5. /\ Cardinality(A \cup B) = Cardinality(A) + Cardinality(B) - Cardinality(A \cap B)
      /\ IsFiniteSet(A \cap B)
  BY <1>2, FS_Union, FS_Intersection
<1>6. Cardinality(A \cap B) \in Nat
  BY <1>5, FS_CardinalityType
<1> HIDE DEF c
<1>7. n <= c * 2 /\ c \in Nat
  BY <1>0, <1>1, <1>2, <1>4, <1>5, <1>6 DEF c
<1>8. error_bufs_ \subseteq Handle
  <2>1. Handle = 1..(c * 2)
    BY <1>3 DEF Handle, c
  <2> QED BY <1>4, <1>7, <2>1
<1>9. \A z \in Zone : curls_[z] \in Seq(Handle)
  <2> SUFFICES ASSUME NEW z \in Zone PROVE curls_[z] \in Seq(Handle)
    OBVIOUS
  <2>1. curls_[z] \in Seq(Nat) /\ DOMAIN curls_[z] = 1..Len(curls_[z])
    BY <1>0, LenProperties DEF PInv
  <2>2. Free(z) \subseteq Handle
    BY <1>0, <1>8 DEF PInv, Allocated
  <2>3. \A i \in 1..Len(curls_[z]) : curls_[z][i] \in Handle
    BY <2>1, <2>2 DEF Free
  <2> DEFINE s == curls_[z]
  <2>4. Len(s) \in Nat /\ s \in [1..Len(s) -> Handle]
    BY <2>1, <2>3, LenProperties
  <2> HIDE DEF s
  <2>5. s \in Seq(Handle)
    BY <2>4, SeqDef
  <2> QED BY <2>5 DEF s
<1>10. DOMAIN borrowed_curls_ \subseteq Handle
  BY <1>0, <1>8 DEF PInv, Allocated
<1>11. \A b \in Client : held[b] \in {{}} \cup {{h} : h \in Handle}
  <2> SUFFICES ASSUME NEW b \in Client, NEW h \in held[b] PROVE held[b] = {h} /\ h \in Handle
    OBVIOUS
  <2> QED BY <1>0, <1>10 DEF PInv, Borrowed
<1> QED BY <1>0, <1>8, <1>9, <1>10, <1>11 DEF PoolTypeOK, PInv, Borrowed

\* The types of all variables, for any keys, commands and numbers of threads.
THEOREM TypeCorrect == Spec => []TypeOK
<1>1. Init => Roomy
  <2> SUFFICES ASSUME Init PROVE Roomy
    OBVIOUS
  <2>1. DOMAIN <<>> = {} /\ Cardinality(Client) \in Nat
    BY PoolAssumption, FS_CardinalityType
  <2>2. \A z \in Zone : InZone(z) = {}
    BY <2>1 DEF Init, PoolInit, InZone, Free
  <2> QED BY <2>1, <2>2, FS_EmptySet DEF Roomy
<1>2. IInv /\ Roomy /\ [Next]_vars => Roomy'
  BY RoomStays
<1>3. IInv /\ Roomy /\ LInv => TypeOK
  <2> SUFFICES ASSUME IInv, Roomy, LInv PROVE TypeOK
    OBVIOUS
  <2>1. PoolTypeOK
    BY PoolTyped
  <2>2. lister \in [Dir -> [pc : Pc, attempt : 0..(MaxAttempts - 1),
                            marker : Entry \cup {NoMarker}]]
    BY DEF IInv, Form, LInv, Typed
  <2>3. worker \in [File -> [pc : Pc, attempt : 0..(MaxAttempts - 1)]]
    BY DEF IInv, Form, LInv, Typed
  <2>4. entries \in [Dir -> SUBSET Entry]
    <3>1. \A d \in Dir : Entries(ever, d) \subseteq Entry /\ entries[d] \subseteq Entries(ever, d)
      BY EntryType DEF LInv, Typed, Pages
    <3> QED BY <3>1 DEF IInv, Form
  <2> QED BY <2>1, <2>2, <2>3, <2>4 DEF TypeOK, IInv, Form, LInv, Typed
<1> QED BY <1>1, <1>2, <1>3, Invariance, Listings, PTL DEF Spec
=============================================================================
