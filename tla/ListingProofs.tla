---------------------------- MODULE ListingProofs ----------------------------
(***************************************************************************)
(* The handles of conn_context are sound for any bucket and any number of  *)
(* tasks, whatever is retried or given up: none is lost, used by two       *)
(* requests or freed while a request has it, and there are never more of   *)
(* them than threads, and one.                                             *)
(***************************************************************************)
EXTENDS Listing, FiniteSetTheorems, SequenceTheorems, TLAPS

-----------------------------------------------------------------------------
\* The pool.

\* A stack has no handle twice.
Distinct(s) == \A i, j \in DOMAIN s : i # j => s[i] # s[j]

\* What a client has borrowed is one handle, and nobody else's.
Borrowed ==
    /\ DOMAIN borrowed_curls_ = UNION {held[c] : c \in Client}
    /\ \A h \in DOMAIN borrowed_curls_ : borrowed_curls_[h] \in Zone
    /\ \A c \in Client : \A g, h \in held[c] : g = h
    /\ \A c, d \in Client : c # d => held[c] \cap held[d] = {}

\* Handles are numbered as they are made, and are free or borrowed.
PInv ==
    /\ curls_ \in [Zone -> Seq(Nat)]
    /\ held \in [Client -> SUBSET Nat]
    /\ Borrowed
    /\ \E n \in Nat : error_bufs_ = 1..n
    /\ error_bufs_ = Allocated
    /\ \A z \in Zone :
         /\ Distinct(curls_[z])
         /\ Free(z) \cap DOMAIN borrowed_curls_ = {}
         /\ \A y \in Zone \ {z} : Free(z) \cap Free(y) = {}

\* The handles in a stack without its top, and with another one on it.
LEMMA Stack ==
    ASSUME NEW s \in Seq(Nat), Distinct(s)
    PROVE  /\ s # <<>> =>
                LET t == SubSeq(s, 1, Len(s) - 1) IN
                /\ t \in Seq(Nat) /\ Distinct(t)
                /\ s[Len(s)] \in {s[i] : i \in DOMAIN s}
                /\ {t[i] : i \in DOMAIN t} = {s[i] : i \in DOMAIN s} \ {s[Len(s)]}
           /\ \A h \in Nat \ {s[i] : i \in DOMAIN s} :
                LET t == Append(s, h) IN
                /\ t \in Seq(Nat) /\ Distinct(t)
                /\ {t[i] : i \in DOMAIN t} = {s[i] : i \in DOMAIN s} \cup {h}
<1>0. Len(s) \in Nat /\ DOMAIN s = 1..Len(s) /\ \A i \in 1..Len(s) : s[i] \in Nat
  BY LenProperties, ElementOfSeq
<1>1. ASSUME s # <<>>
      PROVE  LET t == SubSeq(s, 1, Len(s) - 1) IN
             /\ t \in Seq(Nat) /\ Distinct(t)
             /\ s[Len(s)] \in {s[i] : i \in DOMAIN s}
             /\ {t[i] : i \in DOMAIN t} = {s[i] : i \in DOMAIN s} \ {s[Len(s)]}
  <2> DEFINE k == Len(s) - 1
  <2> DEFINE t == SubSeq(s, 1, k)
  <2>1. Len(s) = k + 1 /\ k \in Nat
    BY <1>1, EmptySeq
  <2> HIDE DEF k
  <2>2. t \in Seq(Nat) /\ Len(t) = k /\ \A i \in 1..k : t[i] = s[i]
    <3>1. \A i \in 1..k : s[i] \in Nat
      BY <1>0, <2>1
    <3>2. /\ t \in Seq(Nat) /\ Len(t) = IF 1 <= k THEN k - 1 + 1 ELSE 0
          /\ \A i \in 1..(k - 1 + 1) : t[i] = s[1 + i - 1]
      BY <2>1, <3>1, SubSeqProperties
    <3> HIDE DEF t
    <3>3. /\ k - 1 + 1 = k
          /\ \A i \in 1..k : 1 + i - 1 = i
      BY <2>1
    <3> QED BY <2>1, <3>2, <3>3
  <2>3. DOMAIN t = 1..k
    BY <2>2, LenProperties
  <2> HIDE DEF t
  <2>4. Distinct(t)
    <3>1. \A i, j \in 1..k : i \in DOMAIN s /\ j \in DOMAIN s
      BY <1>0, <2>1
    <3> QED BY <2>2, <2>3, <3>1 DEF Distinct
  <2>5. /\ \A i \in 1..(k + 1) : s[i] = s[k + 1] => i = k + 1
        /\ \A i \in 1..(k + 1) : i \in 1..k \/ i = k + 1
        /\ \A i \in 1..k : i \in 1..(k + 1) /\ i # k + 1
    BY <1>0, <2>1 DEF Distinct
  <2>6. {t[i] : i \in DOMAIN t} = {s[i] : i \in DOMAIN s} \ {s[Len(s)]}
    BY <1>0, <2>1, <2>2, <2>3, <2>5
  <2>7. s[Len(s)] \in {s[i] : i \in DOMAIN s}
    BY <1>0, <2>1
  <2> QED BY <2>2, <2>4, <2>6, <2>7 DEF t, k
<1>2. ASSUME NEW h \in Nat \ {s[i] : i \in DOMAIN s}
      PROVE  LET t == Append(s, h) IN
             /\ t \in Seq(Nat) /\ Distinct(t)
             /\ {t[i] : i \in DOMAIN t} = {s[i] : i \in DOMAIN s} \cup {h}
  <2> DEFINE t == Append(s, h)
  <2>1. /\ t \in Seq(Nat) /\ Len(t) = Len(s) + 1 /\ t[Len(s) + 1] = h
        /\ \A i \in 1..Len(s) : t[i] = s[i]
    BY AppendProperties
  <2>2. DOMAIN t = 1..(Len(s) + 1)
    BY <2>1, LenProperties
  <2> HIDE DEF t
  <2>3. \A i \in 1..Len(s) : s[i] # h
    BY <1>0
  <2>4. \A i \in 1..(Len(s) + 1) : i \in 1..Len(s) \/ i = Len(s) + 1
    BY <1>0
  <2>5. Distinct(t)
    BY <1>0, <2>1, <2>2, <2>3, <2>4 DEF Distinct
  <2>6. {t[i] : i \in DOMAIN t} = {s[i] : i \in DOMAIN s} \cup {h}
    BY SMTT(30), <1>0, <2>1, <2>2, <2>4
  <2> QED BY <2>1, <2>5, <2>6 DEF t
<1> QED BY <1>1, <1>2

\* At first nothing has been made.
LEMMA PoolStart == PoolInit => PInv /\ \A c \in Client : held[c] = {}
<1> SUFFICES ASSUME PoolInit PROVE PInv /\ \A c \in Client : held[c] = {}
  OBVIOUS
<1>1. <<>> \in Seq(Nat) /\ DOMAIN <<>> = {}
  OBVIOUS
<1>2. \A z \in Zone : curls_[z] = <<>> /\ Free(z) = {}
  BY <1>1 DEF PoolInit, Free
<1>3. error_bufs_ = 1..0
  BY DEF PoolInit
<1>4. Allocated = {}
  BY <1>1, <1>2 DEF Allocated, PoolInit
<1> QED BY <1>1, <1>2, <1>3, <1>4 DEF PInv, Borrowed, Distinct, PoolInit

\* Most steps leave the pool alone.
LEMMA SamePool == PInv /\ UNCHANGED pool => PInv'
<1> SUFFICES ASSUME PInv, UNCHANGED pool PROVE PInv'
  OBVIOUS
<1>1. UNCHANGED <<curls_, error_bufs_, borrowed_curls_, held>>
  BY DEF pool
<1>2. Allocated' = Allocated /\ \A z \in Zone : Free(z)' = Free(z)
  BY <1>1 DEF Allocated, Free
<1> QED BY <1>1, <1>2 DEF PInv, Borrowed

\* A request borrows a handle that is free, or a new one.
LEMMA Borrow ==
    ASSUME PInv, NEW c \in Client, held[c] = {}, NEW z \in Zone, GetCurl(c, z)
    PROVE  PInv' /\ held'[c] # {} /\ \A d \in Client \ {c} : held'[d] = held[d]
<1>0. /\ curls_[z] \in Seq(Nat) /\ Distinct(curls_[z])
      /\ \A y \in Zone : curls_[y] \in Seq(Nat)
  BY DEF PInv
<1>1. PICK n \in Nat : error_bufs_ = 1..n /\ Cardinality(error_bufs_) = n
  <2>1. PICK n \in Nat : error_bufs_ = 1..n
    BY DEF PInv
  <2> QED BY <2>1, FS_Interval
<1>2. ASSUME NEW h \in Nat, Lend(c, z, h), h \notin DOMAIN borrowed_curls_
      PROVE  /\ held' \in [Client -> SUBSET Nat] /\ Borrowed'
             /\ DOMAIN borrowed_curls_' = DOMAIN borrowed_curls_ \cup {h}
             /\ held'[c] # {} /\ \A d \in Client \ {c} : held'[d] = held[d]
  <2>1. /\ held' = [held EXCEPT ![c] = {h}] /\ held \in [Client -> SUBSET Nat] /\ Borrowed
        /\ DOMAIN borrowed_curls_' = DOMAIN borrowed_curls_ \cup {h}
    BY <1>2 DEF Lend, PInv
  <2>2. \A d \in Client : held'[d] = IF d = c THEN {h} ELSE held[d]
    BY <2>1
  <2>3. \A g \in DOMAIN borrowed_curls_' : borrowed_curls_'[g] \in Zone
    BY <1>2, <2>1 DEF Lend, Borrowed
  <2>4. DOMAIN borrowed_curls_' = UNION {held'[d] : d \in Client}
    BY <2>1, <2>2 DEF Borrowed
  <2>5. \A d \in Client : h \notin held[d]
    BY <1>2, <2>1 DEF Borrowed
  <2>6. /\ \A d \in Client : \A g1, g2 \in held'[d] : g1 = g2
        /\ \A d1, d2 \in Client : d1 # d2 => held'[d1] \cap held'[d2] = {}
    BY <2>1, <2>2, <2>5 DEF Borrowed
  <2> QED BY <2>1, <2>2, <2>3, <2>4, <2>6 DEF Borrowed
<1>3. CASE curls_[z] # <<>>
  <2> DEFINE h == curls_[z][Len(curls_[z])]
  <2>1. /\ Lend(c, z, h) /\ curls_' = [curls_ EXCEPT ![z] = Popped(z)]
        /\ error_bufs_' = error_bufs_
    BY <1>3 DEF GetCurl
  <2>2. /\ Popped(z) \in Seq(Nat) /\ Distinct(Popped(z))
        /\ h \in Free(z)
        /\ {Popped(z)[i] : i \in DOMAIN Popped(z)} = Free(z) \ {h}
    BY <1>0, <1>3, Stack DEF Popped, Free
  <2>3. h \in Nat /\ h \notin DOMAIN borrowed_curls_
    <3>1. h \in Free(z)
      BY <2>2
    <3> HIDE DEF h
    <3>2. h \in error_bufs_ /\ h \notin DOMAIN borrowed_curls_
      BY <3>1 DEF PInv, Allocated
    <3> QED BY <1>1, <3>2
  <2> HIDE DEF h
  <2>4. \A y \in Zone : curls_'[y] = IF y = z THEN Popped(z) ELSE curls_[y]
    BY <2>1 DEF PInv
  <2>5. \A y \in Zone : Free(y)' = IF y = z THEN Free(z) \ {h} ELSE Free(y)
    BY <2>2, <2>4 DEF Free
  <2>6. DOMAIN borrowed_curls_' = DOMAIN borrowed_curls_ \cup {h}
    BY <1>2, <2>1, <2>3
  <2>7. Allocated' = Allocated
    BY <2>2, <2>5, <2>6 DEF Allocated
  <2>8. curls_' \in [Zone -> Seq(Nat)]
    BY <2>1, <2>2 DEF PInv
  <2>9. \A y \in Zone :
          /\ Distinct(curls_'[y])
          /\ Free(y)' \cap DOMAIN borrowed_curls_' = {}
          /\ \A x \in Zone \ {y} : Free(y)' \cap Free(x)' = {}
    <3>1. \A y \in Zone : Distinct(curls_[y]) /\ Free(y) \cap DOMAIN borrowed_curls_ = {}
      BY DEF PInv
    <3>2. \A y, x \in Zone : x # y => Free(y) \cap Free(x) = {}
      BY DEF PInv
    <3>3. \A y \in Zone : Distinct(curls_'[y])
      BY <2>2, <2>4, <3>1
    <3>4. \A y \in Zone : Free(y)' \cap DOMAIN borrowed_curls_' = {}
      BY <2>2, <2>5, <2>6, <3>1, <3>2
    <3>5. \A y, x \in Zone : x # y => Free(y)' \cap Free(x)' = {}
      BY <2>5, <3>2
    <3> QED BY <3>3, <3>4, <3>5
  <2> QED BY <1>1, <1>2, <2>1, <2>3, <2>7, <2>8, <2>9 DEF PInv
<1>4. CASE curls_[z] = <<>>
  <2> DEFINE h == n + 1
  <2>1. Lend(c, z, h) /\ error_bufs_' = error_bufs_ \cup {h} /\ curls_' = curls_
    BY <1>1, <1>4 DEF GetCurl
  <2>2. h \in Nat /\ h \notin error_bufs_ /\ error_bufs_' = 1..h
    BY <1>1, <2>1
  <2> HIDE DEF h
  <2>3. h \notin DOMAIN borrowed_curls_ /\ \A y \in Zone : h \notin Free(y)
    BY <2>2 DEF PInv, Allocated
  <2>4. \A y \in Zone : Free(y)' = Free(y)
    BY <2>1 DEF Free
  <2>5. DOMAIN borrowed_curls_' = DOMAIN borrowed_curls_ \cup {h}
    BY <1>2, <2>1, <2>2, <2>3
  <2>6. Allocated' = Allocated \cup {h}
    BY <2>4, <2>5 DEF Allocated
  <2>7. \A y \in Zone :
          /\ Distinct(curls_'[y])
          /\ Free(y)' \cap DOMAIN borrowed_curls_' = {}
          /\ \A x \in Zone \ {y} : Free(y)' \cap Free(x)' = {}
    BY <2>1, <2>3, <2>4, <2>5 DEF PInv
  <2> QED BY <1>2, <2>1, <2>2, <2>3, <2>6, <2>7 DEF PInv
<1> QED BY <1>3, <1>4

\* The end of a request puts its handle back on the stack it came from.
LEMMA Release ==
    ASSUME PInv, NEW c \in Client, ReleaseCurl(c)
    PROVE  /\ PInv' /\ held'[c] = {} /\ \A d \in Client \ {c} : held'[d] = held[d]
           /\ held[c] # {}
<1>1. PICK h \in held[c] :
        /\ curls_' = [curls_ EXCEPT ![borrowed_curls_[h]] = Returned(borrowed_curls_[h], h)]
        /\ borrowed_curls_' = [g \in DOMAIN borrowed_curls_ \ {h} |-> borrowed_curls_[g]]
  BY DEF ReleaseCurl
<1>2. held' = [held EXCEPT ![c] = {}] /\ error_bufs_' = error_bufs_
  BY DEF ReleaseCurl
<1>3. h \in Nat /\ h \in DOMAIN borrowed_curls_ /\ borrowed_curls_[h] \in Zone
  BY DEF PInv, Borrowed
<1> DEFINE z == borrowed_curls_[h]
<1>4. z \in Zone /\ curls_[z] \in Seq(Nat) /\ Distinct(curls_[z]) /\ h \notin Free(z)
  BY <1>3 DEF PInv
<1>5. curls_' = [curls_ EXCEPT ![z] = Returned(z, h)]
  BY <1>1
<1> HIDE DEF z
<1>6. /\ Returned(z, h) \in Seq(Nat) /\ Distinct(Returned(z, h))
      /\ {Returned(z, h)[i] : i \in DOMAIN Returned(z, h)} = Free(z) \cup {h}
  BY <1>3, <1>4, Stack DEF Returned, Free
<1>7. \A y \in Zone : curls_'[y] = IF y = z THEN Returned(z, h) ELSE curls_[y]
  BY <1>4, <1>5 DEF PInv
<1>8. \A y \in Zone : Free(y)' = IF y = z THEN Free(z) \cup {h} ELSE Free(y)
  BY <1>6, <1>7 DEF Free
<1>9. DOMAIN borrowed_curls_' = DOMAIN borrowed_curls_ \ {h}
  BY <1>1
<1>10. Allocated' = Allocated
  BY <1>3, <1>4, <1>8, <1>9 DEF Allocated
<1>11. \A d \in Client : held'[d] = IF d = c THEN {} ELSE held[d]
  BY <1>2 DEF PInv
<1>12. held[c] = {h} /\ \A d \in Client \ {c} : h \notin held[d]
  BY DEF PInv, Borrowed
<1>13. Borrowed'
  <2>1. DOMAIN borrowed_curls_' = UNION {held'[d] : d \in Client}
    <3>1. DOMAIN borrowed_curls_ = UNION {held[d] : d \in Client}
      BY DEF PInv, Borrowed
    <3>2. \A g \in DOMAIN borrowed_curls_' : \E d \in Client : g \in held'[d]
      BY <1>9, <1>11, <1>12, <3>1
    <3>3. \A d \in Client : \A g \in held'[d] : g \in DOMAIN borrowed_curls_'
      BY <1>9, <1>11, <1>12, <3>1
    <3> QED BY <3>2, <3>3
  <2>2. \A g \in DOMAIN borrowed_curls_' : borrowed_curls_'[g] \in Zone
    BY <1>1, <1>9 DEF PInv, Borrowed
  <2> QED BY <1>11, <2>1, <2>2 DEF PInv, Borrowed
<1>14. \A y \in Zone :
         /\ Distinct(curls_'[y])
         /\ Free(y)' \cap DOMAIN borrowed_curls_' = {}
         /\ \A x \in Zone \ {y} : Free(y)' \cap Free(x)' = {}
  <2>1. \A y \in Zone :
          Distinct(curls_[y]) /\ Free(y) \cap DOMAIN borrowed_curls_ = {} /\ h \notin Free(y)
    BY <1>3 DEF PInv
  <2>2. \A y, x \in Zone : x # y => Free(y) \cap Free(x) = {}
    BY DEF PInv
  <2>3. \A y \in Zone : Distinct(curls_'[y])
    BY <1>6, <1>7, <2>1
  <2>4. \A y \in Zone : Free(y)' \cap DOMAIN borrowed_curls_' = {}
    BY <1>8, <1>9, <2>1
  <2>5. \A y, x \in Zone : x # y => Free(y)' \cap Free(x)' = {}
    BY <1>8, <2>1, <2>2
  <2> QED BY <2>3, <2>4, <2>5
<1>15. curls_' \in [Zone -> Seq(Nat)] /\ held' \in [Client -> SUBSET Nat]
  BY <1>2, <1>5, <1>6 DEF PInv
<1> QED BY <1>2, <1>10, <1>11, <1>12, <1>13, <1>14, <1>15 DEF PInv

\* reset() frees everything if nobody has borrowed anything.
LEMMA Emptied ==
    ASSUME PInv, ResetPool, \A c \in Client : held[c] = {}
    PROVE  PInv' /\ \A c \in Client : held'[c] = {}
<1>1. DOMAIN borrowed_curls_ = {}
  BY DEF PInv, Borrowed
<1>2. <<>> \in Seq(Nat) /\ DOMAIN <<>> = {}
  OBVIOUS
<1>3. /\ held' = held /\ borrowed_curls_' = borrowed_curls_ /\ error_bufs_' = 1..0
      /\ curls_' = [z \in Zone |-> <<>>]
  BY DEF ResetPool
<1>4. \A z \in Zone : curls_'[z] = <<>> /\ Free(z)' = {}
  BY <1>2, <1>3 DEF Free
<1>5. Allocated' = {}
  BY <1>1, <1>3, <1>4 DEF Allocated
<1> QED BY <1>1, <1>2, <1>3, <1>4, <1>5 DEF PInv, Borrowed, Distinct

\* PInv is stronger than what the asserts of the code ask for.
LEMMA PoolIsSound == PInv => PoolSound
<1> SUFFICES ASSUME PInv PROVE PoolSound
  OBVIOUS
<1>1. ASSUME NEW z \in Zone PROVE Cardinality(Free(z)) = Len(curls_[z])
  <2> DEFINE s == curls_[z]
  <2>1. Len(s) \in Nat /\ DOMAIN s = 1..Len(s) /\ s \in [1..Len(s) -> Nat] /\ Distinct(s)
    BY LenProperties DEF PInv
  <2> HIDE DEF s
  <2>2. s \in Bijection(1..Len(s), {s[i] : i \in DOMAIN s})
    BY <2>1 DEF Bijection, Injection, Surjection, IsInjective, Distinct
  <2>3. Cardinality({s[i] : i \in DOMAIN s}) = Len(s)
    BY <2>1, <2>2, FS_CountingElements DEF ExistsBijection
  <2> QED BY <2>3 DEF s, Free
<1>2. \A c, d \in Borrowers : c # d => held[c] # held[d]
  BY DEF PInv, Borrowed, Borrowers
<1> QED BY <1>1, <1>2 DEF PInv, Borrowed, PoolSound

-----------------------------------------------------------------------------
\* The tasks.

\* The fields of the tasks, without their bounds.
Form ==
    /\ lister = [d \in Dir |-> [pc |-> lister[d].pc, attempt |-> lister[d].attempt,
                                marker |-> lister[d].marker]]
    /\ worker = [k \in File |-> [pc |-> worker[k].pc, attempt |-> worker[k].attempt]]
    /\ entries \in [Dir -> SUBSET Nat]
    /\ bucket \subseteq Key
    /\ zone \in Zone
    /\ command \in CommandKind
    /\ stage \in {"region", "root", "run", "reset", "ended"}

\* A handle is held by those who wait for an answer.
Lent ==
    /\ \A d \in Dir : lister[d].pc = "asked" => held[Lister(d)] # {}
    /\ \A d \in Dir : held[Lister(d)] # {} =>
         lister[d].pc = "asked" \/ (d = Root /\ stage = "region")
    /\ \A k \in File : held[Worker(k)] # {} <=> worker[k].pc = "asked"

Busy == {"queued", "running", "asked"}

\* The main thread lists the root, and resets the pool when nothing is left.
Stages ==
    /\ stage = "region" => \A d \in Dir : lister[d].pc = "idle"
    /\ stage = "root" => lister[Root].pc \in {"running", "asked"}
    /\ stage = "run" => lister[Root].pc = "done"
    /\ stage \in {"reset", "ended"} =>
         /\ \A d \in Dir : lister[d].pc \notin Busy
         /\ \A k \in File : worker[k].pc \notin Busy

\* What is in a directory has its task when the directory has been listed.
Found(p) ==
    /\ lister[Root].pc = "done"
    /\ \E d \in Dir : Front(p) = d /\ lister[d].pc = "done"

Order ==
    /\ \A d \in Dir \ {Root} : lister[d].pc # "idle" => Found(d)
    /\ \A k \in File : worker[k].pc # "idle" => Found(k)

\* The main thread alone sends one request at a time.
Serial ==
    /\ command = "ls" => \A d \in Dir \ {Root} : lister[d].pc = "idle"
    /\ ~Parallel =>
         /\ \A k \in File : worker[k].pc # "running"
         /\ \A k, l \in File : worker[k].pc = "asked" /\ worker[l].pc = "asked" => k = l

IInv == PInv /\ Form /\ Lent /\ Stages /\ Order /\ Serial

\* Each task and the main thread is a client of its own.
LEMMA Clients ==
    /\ Root \in Dir /\ Main = Lister(Root)
    /\ \A d \in Dir : Lister(d) \in Client
    /\ \A k \in File : Worker(k) \in Client
    /\ \A c \in Client : (\E d \in Dir : c = Lister(d)) \/ (\E k \in File : c = Worker(k))
    /\ \A d, e \in Dir : Lister(d) = Lister(e) => d = e
    /\ \A k, l \in File : Worker(k) = Worker(l) => k = l
    /\ \A d \in Dir, k \in File : Lister(d) # Worker(k)
<1>1. Root \in Dir
  <2>1. PICK k \in Key : k \in Seq(Nat) /\ k # <<>>
    BY ListingAssumption DEF Root
  <2>2. 0 \in 0..(Len(k) - 1)
    BY <2>1, EmptySeq
  <2>3. SubSeq(k, 1, 0) = Root
    BY SubSeqEmpty DEF Root
  <2> QED BY <2>2, <2>3 DEF Dir
<1>2. Client = AllClients
  BY ListingAssumption
<1> QED BY <1>1, <1>2 DEF AllClients, Lister, Worker, Main

\* Directories are sequences of numbers, and so are keys.
LEMMA DirType ==
    /\ Dir \subseteq Seq(Nat)
    /\ \A k \in Key : k \in Seq(Nat) /\ Len(k) \in Nat \ {0} /\ \A i \in 1..Len(k) : k[i] \in Nat
<1>1. ASSUME NEW k \in Key
      PROVE  k \in Seq(Nat) /\ Len(k) \in Nat \ {0} /\ \A i \in 1..Len(k) : k[i] \in Nat
  BY ListingAssumption, EmptySeq, ElementOfSeq DEF Root
<1>2. ASSUME NEW k \in Key, NEW n \in 0..(Len(k) - 1) PROVE SubSeq(k, 1, n) \in Seq(Nat)
  <2>1. \A i \in 1..n : k[i] \in Nat
    BY <1>1
  <2> QED BY <1>1, <2>1, SubSeqProperties
<1>3. Dir \subseteq Seq(Nat)
  <2> SUFFICES ASSUME NEW d \in Dir PROVE d \in Seq(Nat)
    OBVIOUS
  <2>1. PICK k \in Key : d \in {SubSeq(k, 1, n) : n \in 0..(Len(k) - 1)}
    BY Zenon DEF Dir
  <2>2. PICK n \in 0..(Len(k) - 1) : d = SubSeq(k, 1, n)
    BY <2>1
  <2> QED BY <1>2, <2>2
<1> QED BY <1>1, <1>3

\* A page has numbers for its entries.
LEMMA PageType ==
    ASSUME bucket \subseteq Key, NEW d \in Dir, NEW marker
    PROVE  Page(d, marker) \subseteq Nat
<1>1. Contents(d) \subseteq Nat
  BY DirType DEF Contents, FileEntry
<1>2. RolledUp(d) \subseteq Nat
  <2> SUFFICES ASSUME NEW k \in Key, Len(k) > Len(d) + 1 PROVE PrefixEntry(k[Len(d) + 1]) \in Nat
    BY DEF RolledUp
  <2>1. Len(d) \in Nat /\ Len(k) \in Nat
    BY DirType, LenProperties
  <2>2. k[Len(d) + 1] \in Nat
    BY <2>1, DirType
  <2> QED BY <2>2 DEF PrefixEntry
<1> QED BY <1>1, <1>2 DEF Page, Beyond

\* What is found in d is in d.
LEMMA InDir ==
    ASSUME NEW d \in Dir, NEW e \in Nat
    PROVE  Front(Path(d, e)) = d /\ Path(d, e) # Root
<1>1. d \in Seq(Nat) /\ Len(d) \in Nat /\ e \div 2 \in Nat
  BY DirType, LenProperties
<1> DEFINE p == Path(d, e)
<1>2. p \in Seq(Nat) /\ Len(p) = Len(d) + 1 /\ p # <<>> /\ \A i \in 1..Len(d) : p[i] = d[i]
  BY <1>1, AppendProperties DEF Path
<1> HIDE DEF p
<1>3. \A i \in 1..(Len(p) - 1) : p[i] \in Nat
  BY <1>1, <1>2, ElementOfSeq
<1>4. /\ Front(p) \in Seq(Nat) /\ Len(Front(p)) = IF 1 <= Len(p) - 1 THEN Len(p) - 1 - 1 + 1 ELSE 0
      /\ \A i \in 1..(Len(p) - 1 - 1 + 1) : Front(p)[i] = p[1 + i - 1]
  BY <1>1, <1>2, <1>3, SubSeqProperties DEF Front
<1>5. Len(Front(p)) = Len(d)
  BY <1>1, <1>2, <1>4
<1>6. \A i \in 1..Len(d) : Front(p)[i] = d[i]
  <2> SUFFICES ASSUME NEW i \in 1..Len(d) PROVE Front(p)[i] = d[i]
    OBVIOUS
  <2>1. i \in 1..(Len(p) - 1 - 1 + 1) /\ 1 + i - 1 = i
    BY <1>1, <1>2
  <2> QED BY <1>2, <1>4, <2>1
<1>7. Front(p) = d
  BY <1>1, <1>4, <1>5, <1>6, SeqEqual
<1> QED BY <1>2, <1>7 DEF p, Root

-----------------------------------------------------------------------------
\* What is true at first.
LEMMA Initially == Init => IInv
<1> SUFFICES ASSUME Init PROVE IInv
  OBVIOUS
<1>1. PInv /\ \A c \in Client : held[c] = {}
  BY PoolStart DEF Init
<1>2. Form
  BY ListingAssumption DEF Init, Form, NoTask
<1>3. Lent /\ Stages /\ Order /\ Serial
  BY <1>1, Clients DEF Init, NoTask, Lent, Stages, Order, Serial
<1> QED BY <1>1, <1>2, <1>3 DEF IInv

\* The main thread, before and after run().
LEMMA MainStep ==
    ASSUME IInv, AskRegion \/ AnswerRegion \/ MainThrows \/ Return \/ Reset
    PROVE  IInv'
<1> USE DEF IInv
<1>0. "s3" \in Zone /\ Main \in Client /\ Root \in Dir /\ Main = Lister(Root)
  BY ListingAssumption, Clients
<1>1. CASE AskRegion
  <2>1. held[Main] = {}
    BY <1>0, <1>1 DEF AskRegion, Borrowers
  <2>2. PInv' /\ held'[Main] # {} /\ \A d \in Client \ {Main} : held'[d] = held[d]
    BY <1>0, <1>1, <2>1, Borrow DEF AskRegion
  <2>3. Lent'
    BY <1>0, <1>1, <2>1, <2>2, Clients DEF AskRegion, Lent, work, Stages
  <2> QED BY <1>1, <2>2, <2>3
          DEF AskRegion, Form, Stages, Order, Found, Serial, Parallel, FilesOf, work, s3
<1>2. CASE AnswerRegion
  <2>1. PInv' /\ held'[Main] = {} /\ \A d \in Client \ {Main} : held'[d] = held[d]
    BY <1>0, <1>2, Release DEF AnswerRegion
  <2>2. /\ \A d \in Dir : lister[d].pc = "idle"
        /\ \A d \in Dir : lister'[d].pc = IF d = Root THEN "running" ELSE "idle"
        /\ worker' = worker /\ entries' = entries /\ command' = command /\ stage' = "root"
    BY <1>0, <1>2 DEF AnswerRegion, Form, Stages, work
  <2>3. Form'
    <3>1. /\ zone' \in Zone /\ UNCHANGED <<bucket, entries, worker, command>>
          /\ lister' = [lister EXCEPT ![Root].pc = "running"] /\ stage' = "root"
      BY <1>2, ListingAssumption DEF AnswerRegion, work, s3
    <3> QED BY <1>0, <3>1 DEF Form
  <2>4. \A k \in File : worker[k].pc = "idle"
    BY <1>0, <2>2 DEF Order, Found
  <2>5. Lent'
    BY <1>0, <2>1, <2>2, <2>4, Clients DEF Lent
  <2> QED BY <1>0, <2>1, <2>2, <2>3, <2>4, <2>5 DEF Stages, Order, Serial
<1>3. CASE MainThrows
  <2>1. PInv' /\ held'[Main] = {} /\ \A d \in Client \ {Main} : held'[d] = held[d]
    BY <1>0, <1>3, Release DEF MainThrows
  <2>2. /\ \A k \in File : worker[k].pc = "idle"
        /\ \A d \in Dir \ {Root} : lister[d].pc = "idle"
    BY <1>0, <1>3 DEF MainThrows, Stages, Order, Found
  <2>3. /\ \A d \in Dir : lister'[d].pc = IF d = Root THEN "failed" ELSE "idle"
        /\ worker' = worker /\ entries' = entries /\ command' = command /\ stage' = "reset"
    BY <1>0, <1>3, <2>2 DEF MainThrows, Form, work
  <2>4. Form'
    BY <1>0, <1>3 DEF MainThrows, Form, work, s3
  <2>5. Lent'
    BY <1>0, <2>1, <2>2, <2>3, Clients DEF Lent
  <2> QED BY <1>0, <2>1, <2>2, <2>3, <2>4, <2>5 DEF Stages, Order, Serial, Busy
<1>4. CASE Return
  <2>1. /\ \A d \in Dir : lister[d].pc \notin Busy
        /\ \A k \in File : worker[k].pc \notin Busy
        /\ stage' = "reset"
    BY <1>4 DEF Return, Drained, Pending, Busy
  <2>2. /\ UNCHANGED <<curls_, error_bufs_, borrowed_curls_, held, command, lister, worker, entries>>
        /\ UNCHANGED <<zone, bucket>> /\ stage # "region"
    BY <1>4 DEF Return, Drained, pool, work, s3
  <2>3. PInv'
    BY <2>2, SamePool DEF pool
  <2> QED BY <2>1, <2>2, <2>3
          DEF Form, Lent, Stages, Order, Found, Serial, Parallel, FilesOf
<1>5. CASE Reset
  <2>1. \A c \in Client : held[c] = {}
    BY <1>5, Clients DEF Reset, Stages, Lent, Busy
  <2>2. PInv' /\ \A c \in Client : held'[c] = {}
    BY <1>5, <2>1, Emptied DEF Reset
  <2>3. UNCHANGED <<command, lister, worker, entries, zone, bucket>> /\ stage = "reset" /\ stage' = "ended"
    BY <1>5 DEF Reset, work, s3
  <2>4. Lent'
    BY <2>1, <2>2, <2>3, Clients DEF Lent
  <2> QED BY <2>2, <2>3, <2>4
          DEF Form, Stages, Order, Found, Serial, Parallel, FilesOf
<1> QED BY <1>1, <1>2, <1>3, <1>4, <1>5

\* A listing: the request for a page, and its failures.
LEMMA PageStep ==
    ASSUME IInv, NEW d \in Dir, AskPage(d) \/ PageWarns(d) \/ PageDies(d)
    PROVE  IInv'
<1> USE DEF IInv
<1>0. Root \in Dir /\ Lister(d) \in Client /\ zone \in Zone /\ d \in Dir
  BY Clients DEF Form
<1>1. /\ UNCHANGED <<command, stage, zone, bucket, entries, worker>>
      /\ Parallel' = Parallel
  BY DEF AskPage, PageWarns, PageDies, work, s3, Parallel, FilesOf
<1>2. CASE AskPage(d)
  <2>1. lister[d].pc \in {"queued", "running"} /\ stage \notin {"region", "reset", "ended"}
    BY <1>2 DEF AskPage, Stages, Form, Busy
  <2>2. PInv' /\ held'[Lister(d)] # {} /\ \A c \in Client \ {Lister(d)} : held'[c] = held[c]
    <3>1. held[Lister(d)] = {}
      BY <2>1 DEF Lent
    <3> QED BY <1>0, <1>2, <3>1, Borrow DEF AskPage
  <2>3. \A c \in Dir : lister'[c].pc = IF c = d THEN "asked" ELSE lister[c].pc
    BY <1>2 DEF AskPage, Form
  <2>4. Form'
    BY SMTT(30), <1>1, <1>2 DEF AskPage, Form
  <2>5. Lent'
    BY <1>1, <2>2, <2>3, Clients DEF Lent
  <2>6. Stages'
    BY <1>0, <1>1, <2>1, <2>3 DEF Stages
  <2>7. Order' /\ Serial'
    <3>1. \A p : Found(p) => Found(p)'
      BY <1>0, <2>1, <2>3 DEF Found
    <3> QED BY <1>1, <2>1, <2>3, <3>1 DEF Order, Serial
  <2> QED BY <2>2, <2>4, <2>5, <2>6, <2>7
<1>3. CASE PageWarns(d) \/ PageDies(d)
  <2>1. lister[d].pc = "asked" /\ stage = "run" /\ d # Root
    BY <1>0, <1>3 DEF PageWarns, PageDies, Stages, Order, Found, Form, Busy
  <2>2. PInv' /\ held'[Lister(d)] = {} /\ \A c \in Client \ {Lister(d)} : held'[c] = held[c]
    BY <1>0, <1>3, Release DEF PageWarns, PageDies
  <2>3. \E state \in {"running", "failed"} :
          \A c \in Dir : lister'[c].pc = IF c = d THEN state ELSE lister[c].pc
    BY <1>3 DEF PageWarns, PageDies, Form
  <2>4. Form'
    BY <1>1, <1>3 DEF PageWarns, PageDies, Form
  <2>5. Lent'
    BY <1>1, <2>1, <2>2, <2>3, Clients DEF Lent
  <2>6. Stages'
    BY <1>0, <1>1, <2>1, <2>3 DEF Stages
  <2>7. Order' /\ Serial'
    <3>1. \A p : Found(p) => Found(p)'
      BY <1>0, <2>1, <2>3 DEF Found
    <3> QED BY <1>1, <2>1, <2>3, <3>1 DEF Order, Serial
  <2> QED BY <2>2, <2>4, <2>5, <2>6, <2>7
<1> QED BY <1>2, <1>3

\* A page arrives, and maybe tasks are scheduled for what the directory holds.
LEMMA AnswerPageStep ==
    ASSUME IInv, NEW d \in Dir, AnswerPage(d)
    PROVE  IInv'
<1> USE DEF IInv
<1>0. Root \in Dir /\ Lister(d) \in Client /\ d \in Dir
  BY Clients
<1> DEFINE page == Page(d, lister[d].marker)
<1> DEFINE found == Merged(d, page)
<1>1. /\ UNCHANGED <<command, zone, bucket>>
      /\ lister[d].pc = "asked" /\ ReleaseCurl(Lister(d))
      /\ entries' = [entries EXCEPT ![d] = found]
  BY DEF AnswerPage, s3
<1>2. stage \in {"root", "run"} /\ (d = Root <=> stage = "root")
  BY <1>0, <1>1 DEF Stages, Order, Found, Form, Busy
<1>3. PInv' /\ held'[Lister(d)] = {} /\ \A c \in Client \ {Lister(d)} : held'[c] = held[c]
  BY <1>0, <1>1, Release
<1>4. found \subseteq Nat
  BY PageType DEF Form, Merged
<1>5. entries' \in [Dir -> SUBSET Nat]
  BY <1>1, <1>4 DEF Form
<1>6. /\ \A c \in Dir \ {Root} : Front(c) = d => lister[c].pc = "idle"
      /\ \A k \in File : Front(k) = d => worker[k].pc = "idle"
      /\ d = Root => /\ \A c \in Dir \ {Root} : lister[c].pc = "idle"
                     /\ \A k \in File : worker[k].pc = "idle"
  BY <1>1 DEF Order, Found
<1>7. command = "ls" => d = Root
  BY <1>1 DEF Serial
<1>8. CASE IsTruncated(d, lister[d].marker)
  <2>1. /\ lister' = [lister EXCEPT ![d].pc = "running", ![d].marker = LastNode(page)]
        /\ UNCHANGED <<stage, worker>>
    BY <1>8 DEF AnswerPage
  <2>2. \A c \in Dir : lister'[c].pc = IF c = d THEN "running" ELSE lister[c].pc
    BY <2>1 DEF Form
  <2> HIDE DEF found, page
  <2>3. Form'
    <3>1. lister' = [c \in Dir |-> [pc |-> lister'[c].pc, attempt |-> lister'[c].attempt,
                                    marker |-> lister'[c].marker]]
      <4> DEFINE once == [lister EXCEPT ![d].pc = "running"]
      <4>1. once = [c \in Dir |-> [pc |-> once[c].pc, attempt |-> once[c].attempt,
                                   marker |-> once[c].marker]]
        BY DEF Form
      <4>2. lister' = [once EXCEPT ![d].marker = LastNode(page)]
        BY <2>1
      <4> HIDE DEF once
      <4> QED BY <4>1, <4>2
    <3> QED BY <1>1, <1>5, <2>1, <3>1 DEF Form
  <2>4. Lent'
    <3>1. \A c \in Dir : held'[Lister(c)] # {} => c # d /\ held[Lister(c)] # {}
      BY <1>3, Clients
    <3>2. \A c \in Dir : lister'[c].pc = "asked" => c # d /\ held'[Lister(c)] = held[Lister(c)]
      BY <1>3, <2>2, Clients
    <3>3. \A k \in File : held'[Worker(k)] = held[Worker(k)]
      BY <1>3, Clients
    <3> QED BY <1>2, <2>1, <2>2, <3>1, <3>2, <3>3 DEF Lent
  <2>5. Stages'
    BY <1>0, <1>2, <2>1, <2>2 DEF Stages
  <2>6. Order'
    <3>1. \A p : Found(p) => Found(p)'
      BY <1>0, <1>1, <2>2 DEF Found
    <3> QED BY <1>1, <2>1, <2>2, <3>1 DEF Order
  <2>7. Serial'
    <3>1. Parallel' \/ d = Root
      BY <1>1, <1>7 DEF Parallel
    <3>2. d = Root => Serial'
      BY <1>1, <1>6, <2>1, <2>2 DEF Serial
    <3>3. d # Root => Serial'
      BY <1>1, <1>7, <2>1, <2>2, <3>1 DEF Serial
    <3> QED BY <3>2, <3>3
  <2> QED BY <1>3, <2>3, <2>4, <2>5, <2>6, <2>7
<1>9. CASE ~IsTruncated(d, lister[d].marker)
  <2>1. /\ lister' = [c \in Dir |->
                        IF c = d THEN [lister[d] EXCEPT !.pc = "done"]
                        ELSE IF c \in SubdirsToList(d, found)
                        THEN [lister[c] EXCEPT !.pc = "queued"] ELSE lister[c]]
        /\ worker' = [k \in File |->
                        IF k \in FilesToVisit(d, found)
                        THEN [worker[k] EXCEPT !.pc = "queued"] ELSE worker[k]]
        /\ stage' = "run"
    BY <1>9 DEF AnswerPage
  <2>2. /\ \A c \in SubdirsToList(d, found) : Front(c) = d /\ c # Root /\ command # "ls"
        /\ \A k \in FilesToVisit(d, found) : Front(k) = d
    BY <1>0, <1>4, InDir DEF SubdirsToList, FilesToVisit
  <2> HIDE DEF found, page
  <2>3. /\ \A c \in Dir : lister'[c].pc = IF c = d THEN "done"
                                         ELSE IF c \in SubdirsToList(d, found)
                                         THEN "queued" ELSE lister[c].pc
        /\ \A k \in File : worker'[k].pc = IF k \in FilesToVisit(d, found)
                                          THEN "queued" ELSE worker[k].pc
    <3>1. ASSUME NEW c \in Dir
          PROVE  lister'[c].pc = IF c = d THEN "done" ELSE IF c \in SubdirsToList(d, found)
                                         THEN "queued" ELSE lister[c].pc
      BY <2>1 DEF Form
    <3>2. ASSUME NEW k \in File
          PROVE  worker'[k].pc = IF k \in FilesToVisit(d, found) THEN "queued" ELSE worker[k].pc
      BY <2>1 DEF Form
    <3> QED BY <3>1, <3>2
  <2>4. Form'
    <3>1. lister' = [c \in Dir |-> [pc |-> lister'[c].pc, attempt |-> lister'[c].attempt,
                                    marker |-> lister'[c].marker]]
      BY <2>1 DEF Form
    <3>2. worker' = [k \in File |-> [pc |-> worker'[k].pc, attempt |-> worker'[k].attempt]]
      BY <2>1 DEF Form
    <3> QED BY <1>1, <1>5, <2>1, <3>1, <3>2 DEF Form
  <2>5. /\ \A c \in Dir \ {d} : lister'[c].pc = "asked" <=> lister[c].pc = "asked"
        /\ \A k \in File : worker'[k].pc = "asked" <=> worker[k].pc = "asked"
        /\ lister'[d].pc = "done"
    BY <1>6, <2>2, <2>3
  <2>6. Lent'
    BY <1>2, <1>3, <2>1, <2>5, Clients DEF Lent
  <2>7. lister'[Root].pc = "done"
    BY <1>0, <1>2, <2>2, <2>3 DEF Stages
  <2>8. Stages'
    BY <2>1, <2>7 DEF Stages
  <2>9. Order'
    <3>1. \A c \in Dir : lister[c].pc = "done" => lister'[c].pc = "done"
      BY <1>6, <2>2, <2>3
    <3>2. \A p : Found(p) \/ Front(p) = d => Found(p)'
      BY <1>0, <2>5, <2>7, <3>1 DEF Found
    <3>3. \A c \in Dir \ {Root} : lister'[c].pc # "idle" =>
             lister[c].pc # "idle" \/ Front(c) = d
      BY <1>1, <2>2, <2>3
    <3>4. \A k \in File : worker'[k].pc # "idle" => worker[k].pc # "idle" \/ Front(k) = d
      BY <2>2, <2>3
    <3> QED BY <3>2, <3>3, <3>4 DEF Order
  <2>10. Serial'
    <3>1. command = "ls" => \A c \in Dir \ {Root} : lister'[c].pc = "idle"
      BY <1>6, <1>7, <2>2, <2>3
    <3>2. command # "ls" => Parallel'
      BY <1>1 DEF Parallel
    <3>3. command = "ls" => \A k \in File : worker'[k].pc \in {"idle", "queued"}
      BY <1>6, <1>7, <2>3
    <3> QED BY <1>1, <3>1, <3>2, <3>3 DEF Serial
  <2> QED BY <1>3, <2>4, <2>6, <2>8, <2>9, <2>10
<1> QED BY <1>8, <1>9

\* One file: the request is sent.
LEMMA AskFileStep ==
    ASSUME IInv, NEW k \in File, AskFile(k)
    PROVE  IInv'
<1> USE DEF IInv
<1>0. Root \in Dir /\ Worker(k) \in Client /\ zone \in Zone
  BY Clients DEF Form
<1>1. /\ UNCHANGED <<command, stage, zone, bucket, entries, lister>>
      /\ Parallel' = Parallel /\ (\A p : Found(p)' = Found(p))
      /\ worker[k].pc \in {"queued", "running"}
  BY DEF AskFile, s3, Parallel, FilesOf, Found
<1>2. stage = "run"
  BY <1>0, <1>1 DEF Stages, Order, Found, Form, Busy
<1>3. PInv' /\ held'[Worker(k)] # {} /\ \A c \in Client \ {Worker(k)} : held'[c] = held[c]
  <2>1. held[Worker(k)] = {}
    BY <1>1 DEF Lent
  <2> QED BY <1>0, <2>1, Borrow DEF AskFile
<1>4. \A l \in File : worker'[l].pc = IF l = k THEN "asked" ELSE worker[l].pc
  BY DEF AskFile, Form
<1>5. Form'
  BY <1>1 DEF AskFile, Form
<1>6. Lent'
  BY <1>1, <1>3, <1>4, Clients DEF Lent
<1>7. Stages' /\ Order'
  BY <1>1, <1>2, <1>4 DEF Stages, Order
<1>8. Serial'
  <2>1. ASSUME ~Parallel, NEW l \in File PROVE worker[l].pc # "asked"
    <3>1. Cardinality(Running) < 1
      BY <1>1, <2>1 DEF AskFile, HasThread, Serial
    <3>2. IsFiniteSet(Running)
      <4>1. Running \subseteq Client
        BY Clients DEF Running
      <4> QED BY <4>1, PoolAssumption, FS_Subset
    <3>3. Running = {}
      BY <3>1, <3>2, FS_EmptySet, FS_CardinalityType
    <3> QED BY <3>3 DEF Running
  <2> QED BY <1>1, <1>4, <2>1 DEF Serial
<1> QED BY <1>3, <1>5, <1>6, <1>7, <1>8

\* One file: it is skipped, or the answer arrives, or none.
LEMMA FileStep ==
    ASSUME IInv, NEW k \in File, SkipFile(k) \/ AnswerFile(k) \/ FileWarns(k) \/ FileDies(k)
    PROVE  IInv'
<1> USE DEF IInv
<1>0. Root \in Dir /\ Worker(k) \in Client
  BY Clients
<1>1. /\ UNCHANGED <<command, zone, bucket, entries, lister>>
      /\ Parallel' = Parallel /\ (\A p : Found(p)' = Found(p))
  BY DEF SkipFile, AnswerFile, FileWarns, FileDies, s3, Parallel, FilesOf, Found
<1>2. stage = "run" /\ lister[Root].pc = "done"
  BY <1>0 DEF SkipFile, AnswerFile, FileWarns, FileDies, Stages, Order, Found, Form, Busy
<1>3. CASE SkipFile(k)
  <2>1. UNCHANGED <<pool, stage>> /\ worker' = [worker EXCEPT ![k].pc = "done"]
        /\ worker[k].pc = "queued"
    BY <1>3 DEF SkipFile
  <2>2. \A l \in File : worker'[l].pc = IF l = k THEN "done" ELSE worker[l].pc
    BY <2>1 DEF Form
  <2>3. Form'
    BY <1>1, <2>1 DEF Form
  <2>4. Lent'
    BY <1>1, <2>1, <2>2 DEF Lent, pool
  <2>5. Stages' /\ Order' /\ Serial'
    BY <1>1, <1>2, <2>1, <2>2 DEF Stages, Order, Serial
  <2> QED BY <2>1, <2>3, <2>4, <2>5, SamePool
<1>4. ASSUME ReleaseCurl(Worker(k)), worker[k].pc = "asked", stage' = stage,
             \E state \in {"done", "running", "failed"} :
               /\ state = "running" => Parallel
               /\ \/ worker' = [worker EXCEPT ![k].pc = state]
                  \/ \E n : worker' = [worker EXCEPT ![k] = [pc |-> state, attempt |-> n]]
      PROVE  IInv'
  <2>1. PInv' /\ held'[Worker(k)] = {} /\ \A c \in Client \ {Worker(k)} : held'[c] = held[c]
    BY <1>0, <1>4, Release
  <2>2. PICK state \in {"done", "running", "failed"} :
          /\ state = "running" => Parallel
          /\ \/ worker' = [worker EXCEPT ![k].pc = state]
             \/ \E n : worker' = [worker EXCEPT ![k] = [pc |-> state, attempt |-> n]]
    BY <1>4
  <2>3. \A l \in File : worker'[l].pc = IF l = k THEN state ELSE worker[l].pc
    BY <2>2 DEF Form
  <2>4. Form'
    BY SMTT(30), <1>1, <1>4, <2>2 DEF Form
  <2>5. Lent'
    BY <1>1, <1>4, <2>1, <2>3, Clients DEF Lent
  <2>6. Stages' /\ Order'
    BY <1>1, <1>2, <1>4, <2>3 DEF Stages, Order
  <2>7. Serial'
    BY <1>1, <2>2, <2>3 DEF Serial
  <2> QED BY <2>1, <2>4, <2>5, <2>6, <2>7
<1>5. CASE AnswerFile(k)
  BY <1>4, <1>5 DEF AnswerFile
<1>6. CASE FileWarns(k)
  BY <1>4, <1>6 DEF FileWarns
<1>7. CASE FileDies(k) /\ Parallel
  BY <1>4, <1>7 DEF FileDies
<1>8. CASE FileDies(k) /\ ~Parallel
  <2>1. PInv' /\ held'[Worker(k)] = {} /\ \A c \in Client \ {Worker(k)} : held'[c] = held[c]
    BY <1>0, <1>8, Release DEF FileDies
  <2>2. command = "ls" /\ worker' = [f \in File |-> NoTask] /\ stage' = "reset"
        /\ worker[k].pc = "asked"
    BY <1>8 DEF FileDies, Parallel
  <2>3. \A l \in File : worker'[l].pc = "idle"
    BY <2>2 DEF NoTask
  <2>4. \A d \in Dir : lister[d].pc \in {"idle", "done"}
    BY <1>2, <2>2 DEF Serial
  <2>5. \A l \in File \ {k} : worker[l].pc # "asked"
    BY <1>8, <2>2 DEF Serial
  <2>6. Form'
    BY <1>1, <2>2 DEF Form, NoTask
  <2>7. Lent'
    BY <1>1, <1>2, <2>1, <2>3, <2>4, <2>5, Clients DEF Lent
  <2>8. Stages' /\ Order' /\ Serial'
    BY <1>1, <2>2, <2>3, <2>4 DEF Stages, Order, Serial, Busy
  <2> QED BY <2>1, <2>6, <2>7, <2>8
<1> QED BY <1>3, <1>5, <1>6, <1>7, <1>8

\* IInv holds in every reachable state, for any bucket that anybody changes.
THEOREM Invariance == Spec => []IInv
<1>1. IInv /\ [Next]_vars => IInv'
  <2> SUFFICES ASSUME IInv, [Next]_vars PROVE IInv'
    OBVIOUS
  <2>1. CASE Change \/ Finished \/ UNCHANGED vars
    <3>1. UNCHANGED <<pool, command, stage, zone, lister, entries, worker>>
      BY <2>1 DEF Change, Finished, vars, work
    <3>2. bucket' \subseteq Key
      BY <2>1 DEF Change, Finished, vars, s3, IInv, Form
    <3>3. PInv' /\ held' = held
      BY <3>1, SamePool DEF IInv, pool
    <3> QED
      BY <3>1, <3>2, <3>3
         DEF IInv, Form, Lent, Stages, Order, Found, Serial, Parallel, FilesOf
  <2> QED BY <2>1, MainStep, PageStep, AnswerPageStep, AskFileStep, FileStep DEF Next, Step
<1> QED BY Initially, <1>1, PTL DEF Spec

\* However many requests are sent, retried and given up, and whatever they find: no
\* handle of conn_context is lost, is used twice or is free while a request has it.
THEOREM PoolIsAlwaysSound == Spec => []PoolSound
<1>1. IInv => PoolSound
  BY PoolIsSound DEF IInv
<1> QED BY <1>1, Invariance, PTL

\* When the main thread resets the pool, by whatever way it has got there, no request
\* has a handle.
THEOREM ResetIsIdle == Spec => []ResetWhenIdle
<1>1. IInv => ResetWhenIdle
  <2> SUFFICES ASSUME IInv, stage = "reset" PROVE DOMAIN borrowed_curls_ = {}
    BY DEF ResetWhenIdle
  <2>1. \A c \in Client : held[c] = {}
    BY Clients DEF IInv, Stages, Lent, Busy
  <2> QED BY <2>1 DEF IInv, PInv, Borrowed
<1> QED BY <1>1, Invariance, PTL

-----------------------------------------------------------------------------
\* How many handles there are.

\* The handles of a zone, free or borrowed.
InZone(z) == Free(z) \cup {h \in DOMAIN borrowed_curls_ : borrowed_curls_[h] = z}

\* The tasks that run fit the threads, and the handles the requests there can be at a
\* time: one that asks for the region, and then those of the tasks.
Bounded ==
    /\ Cardinality(Running) <= Threads
    /\ stage = "region" => zone = "s3" /\ Cardinality(InZone("s3")) <= 1
    /\ IF zone = "s3"
       THEN Cardinality(InZone("s3")) <= Threads /\ InZone("other") = {}
       ELSE Cardinality(InZone("s3")) <= 1 /\ Cardinality(InZone("other")) <= Threads

\* Everything that is counted is finite.
LEMMA Finite ==
    ASSUME PInv
    PROVE  /\ IsFiniteSet(Running) /\ Cardinality(Running) \in Nat
           /\ IsFiniteSet(DOMAIN borrowed_curls_) /\ Cardinality(DOMAIN borrowed_curls_) \in Nat
           /\ \A z \in Zone : IsFiniteSet(InZone(z)) /\ Cardinality(InZone(z)) \in Nat
<1>1. IsFiniteSet(Running)
  <2>1. Running \subseteq Client
    BY Clients DEF Running
  <2> QED BY <2>1, PoolAssumption, FS_Subset
<1>2. IsFiniteSet(error_bufs_)
  BY FS_Interval DEF PInv
<1>3. DOMAIN borrowed_curls_ \subseteq error_bufs_ /\ \A z \in Zone : InZone(z) \subseteq error_bufs_
  BY DEF PInv, Allocated, InZone
<1>4. IsFiniteSet(DOMAIN borrowed_curls_) /\ \A z \in Zone : IsFiniteSet(InZone(z))
  BY <1>2, <1>3, FS_Subset
<1> QED BY <1>1, <1>4, FS_CardinalityType

\* There are no more borrowed handles than there are clients that have borrowed one.
LEMMA BorrowedBound ==
    ASSUME PInv, NEW S, IsFiniteSet(S), \A c \in Client : held[c] # {} => c \in S
    PROVE  Cardinality(DOMAIN borrowed_curls_) <= Cardinality(S)
<1> DEFINE f == [c \in Borrowers |-> CHOOSE h \in held[c] : TRUE]
<1>1. \A c \in Borrowers : f[c] \in held[c]
  BY DEF Borrowers
<1>2. \A h \in DOMAIN borrowed_curls_ : \E c \in Borrowers : h \in held[c]
  BY DEF PInv, Borrowed, Borrowers
<1>3. f \in [Borrowers -> DOMAIN borrowed_curls_]
  BY <1>1 DEF PInv, Borrowed, Borrowers
<1>4. \A h \in DOMAIN borrowed_curls_ : \E c \in Borrowers : f[c] = h
  <2> HIDE DEF f
  <2> QED BY <1>1, <1>2 DEF PInv, Borrowed, Borrowers
<1>5. f \in Surjection(Borrowers, DOMAIN borrowed_curls_)
  <2> HIDE DEF f
  <2> QED BY <1>3, <1>4 DEF Surjection
<1>6. Borrowers \subseteq S
  BY DEF Borrowers
<1>7. IsFiniteSet(Borrowers) /\ Cardinality(Borrowers) <= Cardinality(S)
  BY <1>6, FS_Subset
<1>8. Cardinality(DOMAIN borrowed_curls_) <= Cardinality(Borrowers)
  <2> HIDE DEF f
  <2> QED BY <1>5, <1>7, FS_Surjection
<1>9. /\ Cardinality(DOMAIN borrowed_curls_) \in Nat /\ Cardinality(Borrowers) \in Nat
      /\ Cardinality(S) \in Nat
  BY <1>7, Finite, FS_CardinalityType
<1> QED BY <1>7, <1>8, <1>9

\* A new handle is made when all those of the zone are in use.
LEMMA ZoneBorrow ==
    ASSUME PInv, NEW c \in Client, NEW z \in Zone, GetCurl(c, z)
    PROVE  /\ \A y \in Zone \ {z} : InZone(y)' = InZone(y)
           /\ \/ InZone(z)' = InZone(z)
              \/ /\ Cardinality(InZone(z)') \in Nat
                 /\ Cardinality(InZone(z)') <= Cardinality(DOMAIN borrowed_curls_) + 1
<1>0. curls_[z] \in Seq(Nat) /\ Distinct(curls_[z]) /\ curls_ \in [Zone -> Seq(Nat)]
  BY DEF PInv
<1>1. CASE curls_[z] # <<>>
  <2> DEFINE h == curls_[z][Len(curls_[z])]
  <2>1. Lend(c, z, h) /\ curls_' = [curls_ EXCEPT ![z] = Popped(z)]
    BY <1>1 DEF GetCurl
  <2>2. /\ h \in Free(z)
        /\ {Popped(z)[i] : i \in DOMAIN Popped(z)} = Free(z) \ {h}
    BY <1>0, <1>1, Stack DEF Popped, Free
  <2> HIDE DEF h
  <2>3. \A y \in Zone : Free(y)' = IF y = z THEN Free(z) \ {h} ELSE Free(y)
    BY <1>0, <2>1, <2>2 DEF Free
  <2>4. h \notin DOMAIN borrowed_curls_
    BY <2>2 DEF PInv
  <2>5. \A y \in Zone :
          {g \in DOMAIN borrowed_curls_' : borrowed_curls_'[g] = y} =
          {g \in DOMAIN borrowed_curls_ : borrowed_curls_[g] = y} \cup (IF y = z THEN {h} ELSE {})
    BY <2>1, <2>4 DEF Lend
  <2> QED BY <2>2, <2>3, <2>5 DEF InZone
<1>2. CASE curls_[z] = <<>>
  <2>1. PICK h : Lend(c, z, h) /\ curls_' = curls_ /\ error_bufs_' = error_bufs_ \cup {h}
                 /\ h = Cardinality(error_bufs_) + 1
    BY <1>2 DEF GetCurl
  <2>2. Free(z) = {} /\ \A y \in Zone : Free(y)' = Free(y)
    BY <1>2, <2>1 DEF Free
  <2>3. h \notin DOMAIN borrowed_curls_
    <3>1. PICK n \in Nat : error_bufs_ = 1..n
      BY DEF PInv
    <3>2. h = n + 1
      BY <2>1, <3>1, FS_Interval
    <3> QED BY <3>1, <3>2 DEF PInv, Allocated
  <2>4. \A y \in Zone \ {z} : InZone(y)' = InZone(y)
    BY <2>1, <2>2, <2>3 DEF Lend, InZone
  <2>5. InZone(z)' \subseteq DOMAIN borrowed_curls_ \cup {h}
    BY <2>1, <2>2 DEF Lend, InZone
  <2> DEFINE B == DOMAIN borrowed_curls_
  <2>6. IsFiniteSet(B) /\ Cardinality(B) \in Nat
    BY Finite
  <2> HIDE DEF B
  <2>7. IsFiniteSet(B \cup {h}) /\ Cardinality(B \cup {h}) <= Cardinality(B) + 1
    <3>1. h \notin B
      BY <2>3 DEF B
    <3>2. IsFiniteSet(B \cup {h}) /\ Cardinality(B \cup {h}) = Cardinality(B) + 1
      BY <2>6, <3>1, FS_AddElement
    <3> QED BY <2>6, <3>2
  <2>8. Cardinality(InZone(z)') <= Cardinality(B \cup {h})
    BY <2>5, <2>7, FS_Subset DEF B
  <2>9. Cardinality(InZone(z)') \in Nat /\ Cardinality(B \cup {h}) \in Nat
    BY <2>5, <2>7, FS_Subset, FS_CardinalityType DEF B
  <2>10. Cardinality(InZone(z)') <= Cardinality(B) + 1
    BY <2>6, <2>7, <2>8, <2>9
  <2> QED BY <2>4, <2>9, <2>10 DEF B
<1> QED BY <1>1, <1>2

\* A handle that is returned stays with its zone.
LEMMA ZoneRelease ==
    ASSUME PInv, NEW c \in Client, ReleaseCurl(c)
    PROVE  \A y \in Zone : InZone(y)' = InZone(y)
<1>1. PICK h \in held[c] :
        /\ curls_' = [curls_ EXCEPT ![borrowed_curls_[h]] = Returned(borrowed_curls_[h], h)]
        /\ borrowed_curls_' = [g \in DOMAIN borrowed_curls_ \ {h} |-> borrowed_curls_[g]]
  BY DEF ReleaseCurl
<1>2. h \in Nat /\ h \in DOMAIN borrowed_curls_ /\ borrowed_curls_[h] \in Zone
  BY DEF PInv, Borrowed
<1> DEFINE z == borrowed_curls_[h]
<1>3. z \in Zone /\ curls_[z] \in Seq(Nat) /\ Distinct(curls_[z]) /\ h \notin Free(z)
  BY <1>2 DEF PInv
<1>4. curls_' = [curls_ EXCEPT ![z] = Returned(z, h)]
      /\ \A g \in DOMAIN borrowed_curls_ : borrowed_curls_[g] = z \/ g # h
  BY <1>1
<1>5. \A y \in Zone :
        {g \in DOMAIN borrowed_curls_' : borrowed_curls_'[g] = y} =
        {g \in DOMAIN borrowed_curls_ : borrowed_curls_[g] = y} \ {h}
  BY <1>1
<1>6. z = borrowed_curls_[h]
  OBVIOUS
<1> HIDE DEF z
<1>7. {Returned(z, h)[i] : i \in DOMAIN Returned(z, h)} = Free(z) \cup {h}
  BY <1>2, <1>3, Stack DEF Returned, Free
<1>8. \A y \in Zone : Free(y)' = IF y = z THEN Free(z) \cup {h} ELSE Free(y)
  BY ZenonT(30), <1>3, <1>4, <1>7 DEF Free, PInv
<1> QED BY <1>2, <1>5, <1>6, <1>8 DEF InZone

\* A step that takes no handle and starts no task.
LEMMA NoMore ==
    ASSUME PInv, Bounded, \A z \in Zone : InZone(z)' = InZone(z), zone' = zone,
           Running' \subseteq Running, stage' = "region" => stage = "region"
    PROVE  Bounded'
<1>0. "s3" \in Zone /\ "other" \in Zone /\ Threads \in Nat
  BY ListingAssumption
<1>1. Cardinality(Running') <= Cardinality(Running)
  BY Finite, FS_Subset
<1>2. Cardinality(Running) \in Nat /\ Cardinality(Running') \in Nat
  BY Finite, FS_Subset, FS_CardinalityType
<1>3. Cardinality(Running)' <= Threads
  BY <1>0, <1>1, <1>2 DEF Bounded
<1>4. InZone("s3")' = InZone("s3") /\ InZone("other")' = InZone("other")
  BY <1>0
<1> QED BY <1>3, <1>4 DEF Bounded

\* A task sends a request: it has a thread, and so does each that has a handle.
LEMMA OneMore ==
    ASSUME IInv, Bounded, NEW c \in Client, NEW pc \in {"queued", "running"},
           c \in Running <=> pc = "running", HasThread(pc), held[c] = {},
           stage # "region", UNCHANGED <<stage, zone>>, GetCurl(c, zone),
           Running' = Running \cup {c}
    PROVE  Bounded'
<1>0. /\ "s3" \in Zone /\ "other" \in Zone /\ Threads \in Nat \ {0}
      /\ Zone = {"s3", "other"} /\ zone \in Zone
  BY ListingAssumption DEF IInv, Form
<1> DEFINE S == Running \ {c}
<1>1. /\ IsFiniteSet(Running) /\ Cardinality(Running) \in Nat /\ Cardinality(Running) <= Threads
      /\ Cardinality(DOMAIN borrowed_curls_) \in Nat
  BY Finite DEF IInv, Bounded
<1>2. IsFiniteSet(S) /\ Cardinality(S) \in Nat /\ Cardinality(S) + 1 <= Threads
  <2>1. IsFiniteSet(S) /\ Cardinality(S) = IF c \in Running THEN Cardinality(Running) - 1
                                           ELSE Cardinality(Running)
    BY <1>1, FS_RemoveElement
  <2>2. Cardinality(S) \in Nat
    BY <2>1, FS_CardinalityType
  <2>3. CASE pc = "running"
    BY <1>0, <1>1, <2>1, <2>2, <2>3
  <2>4. CASE pc = "queued"
    <3>1. Cardinality(Running) < IF Parallel THEN Threads ELSE 1
      BY <2>4 DEF HasThread
    <3>2. Cardinality(Running) < Threads
      BY <1>0, <1>1, <3>1
    <3> QED BY <1>0, <1>1, <2>1, <2>2, <2>4, <3>2
  <2> QED BY <2>3, <2>4
<1>3. \A b \in Client : held[b] # {} => b \in S
  BY Clients DEF IInv, Lent, Running
<1>4. Running' = S \cup {c} /\ c \notin S
  OBVIOUS
<1> HIDE DEF S
<1>5. Cardinality(Running') <= Threads
  <2>1. Cardinality(Running') = Cardinality(S) + 1
    BY <1>2, <1>4, FS_AddElement
  <2> QED BY <1>2, <2>1
<1>6. Cardinality(DOMAIN borrowed_curls_) <= Cardinality(S)
  BY <1>2, <1>3, BorrowedBound DEF IInv
<1>7. /\ \A y \in Zone \ {zone} : InZone(y)' = InZone(y)
      /\ \/ InZone(zone)' = InZone(zone)
         \/ /\ Cardinality(InZone(zone)') \in Nat
            /\ Cardinality(InZone(zone)') <= Cardinality(DOMAIN borrowed_curls_) + 1
  BY <1>0, ZoneBorrow DEF IInv
<1>8. Cardinality(InZone(zone)) \in Nat /\ Cardinality(InZone(zone)) <= Threads
  BY <1>0, Finite DEF IInv, Bounded
<1>9. Cardinality(InZone(zone)') <= Threads
  BY <1>0, <1>1, <1>2, <1>6, <1>7, <1>8
<1>10. CASE zone = "s3"
  <2>1. InZone("other")' = InZone("other")
    BY <1>0, <1>7, <1>10
  <2>2. Cardinality(InZone("s3")') <= Threads
    BY <1>9, <1>10 DEF Bounded
  <2> QED BY <1>5, <1>10, <2>1, <2>2 DEF Bounded
<1>11. CASE zone = "other"
  <2>1. InZone("s3")' = InZone("s3")
    BY <1>0, <1>7, <1>11
  <2>2. Cardinality(InZone("other")') <= Threads
    BY <1>9, <1>11 DEF Bounded
  <2> QED BY <1>5, <1>11, <2>1, <2>2 DEF Bounded
<1> QED BY <1>0, <1>10, <1>11

\* The steps of the main thread.
LEMMA MainBounded ==
    ASSUME IInv, Bounded, AskRegion \/ AnswerRegion \/ MainThrows \/ Return \/ Reset
    PROVE  Bounded'
<1>0. /\ "s3" \in Zone /\ "other" \in Zone /\ Threads \in Nat \ {0} /\ Zone = {"s3", "other"}
      /\ PInv /\ Main \in Client /\ Root \in Dir /\ Main = Lister(Root)
  BY ListingAssumption, Clients DEF IInv
<1>1. CASE AskRegion
  <2>1. held[Main] = {} /\ stage = "region" /\ UNCHANGED <<stage, zone, lister, worker>>
    BY <1>0, <1>1 DEF AskRegion, Borrowers, work
  <2>2. \A c \in Client : held[c] = {}
    BY <1>0, <2>1, Clients DEF IInv, Lent, Stages, Order, Found
  <2>3. DOMAIN borrowed_curls_ = {} /\ Cardinality(DOMAIN borrowed_curls_) = 0
    <3>1. DOMAIN borrowed_curls_ = {}
      BY <2>2 DEF IInv, PInv, Borrowed
    <3> QED BY <3>1, FS_EmptySet
  <2>4. /\ InZone("other")' = InZone("other")
        /\ \/ InZone("s3")' = InZone("s3")
           \/ Cardinality(InZone("s3")') \in Nat /\ Cardinality(InZone("s3")') <= 1
    <3>1. GetCurl(Main, "s3") /\ 0 + 1 = 1
      BY <1>1 DEF AskRegion
    <3>2. /\ \A y \in Zone \ {"s3"} : InZone(y)' = InZone(y)
          /\ \/ InZone("s3")' = InZone("s3")
             \/ /\ Cardinality(InZone("s3")') \in Nat
                /\ Cardinality(InZone("s3")') <= Cardinality(DOMAIN borrowed_curls_) + 1
      BY <1>0, <3>1, ZoneBorrow
    <3> QED BY <1>0, <2>3, <3>1, <3>2
  <2>5. Running' = Running
    BY <2>1 DEF Running
  <2>6. zone = "s3" /\ Cardinality(InZone("s3")') <= 1 /\ InZone("other") = {}
    BY <2>1, <2>4 DEF Bounded
  <2>7. Cardinality(InZone("s3")) \in Nat
    BY <1>0, Finite
  <2>8. Cardinality(InZone("s3")') <= Threads
    BY <1>0, <2>4, <2>6, <2>7
  <2> QED BY <2>1, <2>4, <2>5, <2>6, <2>8 DEF Bounded
<1>2. CASE AnswerRegion
  <2>1. \A z \in Zone : InZone(z)' = InZone(z)
    BY <1>0, <1>2, ZoneRelease DEF AnswerRegion
  <2>2. /\ stage = "region" /\ stage' = "root" /\ zone' \in Zone /\ worker' = worker
        /\ lister' = [lister EXCEPT ![Root].pc = "running"]
    BY <1>2, ListingAssumption DEF AnswerRegion, work
  <2>3. /\ \A d \in Dir : lister'[d].pc = IF d = Root THEN "running" ELSE "idle"
        /\ \A k \in File : worker'[k].pc = "idle"
    <3>1. \A d \in Dir : lister[d].pc = "idle"
      BY <2>2 DEF IInv, Stages
    <3>2. \A k \in File : worker[k].pc = "idle"
      BY <1>0, <3>1 DEF IInv, Order, Found
    <3>3. \A d \in Dir : lister'[d].pc = IF d = Root THEN "running" ELSE lister[d].pc
      BY <1>0, <2>2 DEF IInv, Form
    <3> QED BY <2>2, <3>1, <3>2, <3>3
  <2>4. Running' = {Main}
    BY <1>0, <2>3 DEF Running
  <2>5. Cardinality(Running') <= Threads
    BY <1>0, <2>4, FS_Singleton
  <2>6. /\ Cardinality(InZone("s3")) \in Nat /\ Cardinality(InZone("s3")) <= 1
        /\ InZone("other") = {} /\ Cardinality(InZone("other")) = 0
    BY <1>0, <2>2, Finite, FS_EmptySet DEF Bounded
  <2>7. InZone("s3")' = InZone("s3") /\ InZone("other")' = InZone("other")
    BY <1>0, <2>1
  <2>8. /\ Cardinality(InZone("s3")') <= 1 /\ Cardinality(InZone("s3")') <= Threads
        /\ InZone("other")' = {} /\ Cardinality(InZone("other")') <= Threads
    BY <1>0, <2>6, <2>7
  <2> QED BY <2>2, <2>5, <2>8 DEF Bounded
<1>3. CASE MainThrows
  <2>1. \A z \in Zone : InZone(z)' = InZone(z)
    BY <1>0, <1>3, ZoneRelease DEF MainThrows
  <2>2. zone' = zone /\ stage' = "reset"
    BY <1>3 DEF MainThrows
  <2>3. \A d \in Dir : lister'[d].pc \in {lister[d].pc, "failed"}
    BY <1>3 DEF MainThrows, IInv, Form
  <2>4. Running' \subseteq Running
    BY <1>3, <2>3 DEF MainThrows, Running, work
  <2> QED BY <1>0, <2>1, <2>2, <2>4, NoMore
<1>4. CASE Return
  <2>1. UNCHANGED <<curls_, borrowed_curls_, zone, lister, worker>> /\ stage' = "reset"
    BY <1>4 DEF Return, pool, work
  <2> QED BY <1>0, <2>1, NoMore DEF InZone, Free, Running
<1>5. CASE Reset
  <2>1. \A c \in Client : held[c] = {}
    BY <1>5, Clients DEF Reset, IInv, Stages, Lent, Busy
  <2>2. DOMAIN borrowed_curls_ = {} /\ borrowed_curls_' = borrowed_curls_
    BY <1>5, <2>1 DEF IInv, PInv, Borrowed, Reset, ResetPool
  <2>3. \A z \in Zone : curls_'[z] = <<>>
    BY <1>5 DEF Reset, ResetPool
  <2>4. DOMAIN <<>> = {}
    OBVIOUS
  <2>5. InZone("s3")' = {} /\ InZone("other")' = {}
    BY <1>0, <2>2, <2>3, <2>4 DEF InZone, Free
  <2>6. UNCHANGED <<zone, lister, worker>> /\ stage' = "ended"
    BY <1>5 DEF Reset, work
  <2>7. Running' = Running
    BY <2>6 DEF Running
  <2> QED BY <1>0, <2>5, <2>6, <2>7, FS_EmptySet DEF Bounded
<1> QED BY <1>1, <1>2, <1>3, <1>4, <1>5

\* The steps of the tasks.
LEMMA TaskBounded ==
    ASSUME IInv, Bounded,
           \/ \E d \in Dir : AskPage(d) \/ AnswerPage(d) \/ PageWarns(d) \/ PageDies(d)
           \/ \E k \in File :
                SkipFile(k) \/ AskFile(k) \/ AnswerFile(k) \/ FileWarns(k) \/ FileDies(k)
    PROVE  Bounded'
<1>0. PInv /\ Root \in Dir
  BY Clients DEF IInv
<1>1. ASSUME NEW d \in Dir, AskPage(d) PROVE Bounded'
  <2>1. /\ lister[d].pc \in {"queued", "running"} /\ HasThread(lister[d].pc)
        /\ GetCurl(Lister(d), zone) /\ UNCHANGED <<stage, zone, worker>>
    BY <1>1 DEF AskPage, work
  <2>2. stage # "region" /\ held[Lister(d)] = {}
    BY <2>1 DEF IInv, Stages, Lent
  <2>3. \A c \in Dir : lister'[c].pc = IF c = d THEN "asked" ELSE lister[c].pc
    BY <1>1 DEF AskPage, IInv, Form
  <2>4. Lister(d) \in Running <=> lister[d].pc = "running"
    BY <2>1, Clients DEF Running
  <2>5. Running' = Running \cup {Lister(d)}
    BY <2>1, <2>3 DEF Running
  <2>6. Lister(d) \in Client
    BY Clients
  <2> QED BY <2>1, <2>2, <2>4, <2>5, <2>6, OneMore
<1>2. ASSUME NEW k \in File, AskFile(k) PROVE Bounded'
  <2>1. /\ worker[k].pc \in {"queued", "running"} /\ HasThread(worker[k].pc)
        /\ GetCurl(Worker(k), zone) /\ UNCHANGED <<stage, zone, lister>>
    BY <1>2 DEF AskFile
  <2>2. stage # "region" /\ held[Worker(k)] = {}
    BY <1>0, <2>1 DEF IInv, Stages, Order, Found, Lent
  <2>3. \A l \in File : worker'[l].pc = IF l = k THEN "asked" ELSE worker[l].pc
    BY <1>2 DEF AskFile, IInv, Form
  <2>4. Worker(k) \in Running <=> worker[k].pc = "running"
    BY <2>1, Clients DEF Running
  <2>5. Running' = Running \cup {Worker(k)}
    BY <2>1, <2>3 DEF Running
  <2>6. Worker(k) \in Client
    BY Clients
  <2> QED BY <2>1, <2>2, <2>4, <2>5, <2>6, OneMore
<1>3. ASSUME NEW d \in Dir, AnswerPage(d) \/ PageWarns(d) \/ PageDies(d) PROVE Bounded'
  <2>1. /\ ReleaseCurl(Lister(d)) /\ Lister(d) \in Client /\ lister[d].pc = "asked"
        /\ zone' = zone /\ stage' \in {stage, "run"}
    BY <1>3, Clients DEF AnswerPage, PageWarns, PageDies
  <2>2. \A z \in Zone : InZone(z)' = InZone(z)
    BY <1>0, <2>1, ZoneRelease
  <2>3. /\ \A c \in Dir \ {d} : lister'[c].pc \in {lister[c].pc, "queued"}
        /\ \A k \in File : worker'[k].pc \in {worker[k].pc, "queued"}
    <3>1. CASE AnswerPage(d) /\ IsTruncated(d, lister[d].marker)
      BY <3>1 DEF AnswerPage, IInv, Form
    <3>2. CASE AnswerPage(d) /\ ~IsTruncated(d, lister[d].marker)
      <4> DEFINE found == Merged(d, Page(d, lister[d].marker))
      <4>1. /\ lister' = [c \in Dir |->
                            IF c = d THEN [lister[d] EXCEPT !.pc = "done"]
                            ELSE IF c \in SubdirsToList(d, found)
                            THEN [lister[c] EXCEPT !.pc = "queued"] ELSE lister[c]]
            /\ worker' = [k \in File |->
                            IF k \in FilesToVisit(d, found)
                            THEN [worker[k] EXCEPT !.pc = "queued"] ELSE worker[k]]
        BY <3>2 DEF AnswerPage
      <4> HIDE DEF found
      <4> QED BY <4>1 DEF IInv, Form
    <3>3. CASE PageWarns(d) \/ PageDies(d)
      BY <3>3 DEF PageWarns, PageDies, IInv, Form, work
    <3> QED BY <1>3, <3>1, <3>2, <3>3
  <2>4. Running' \subseteq Running
    BY <2>1, <2>3 DEF Running
  <2> QED BY <1>0, <2>1, <2>2, <2>4, NoMore
<1>4. ASSUME NEW k \in File, SkipFile(k) PROVE Bounded'
  <2>1. UNCHANGED <<curls_, borrowed_curls_, zone, stage, lister>>
    BY <1>4 DEF SkipFile, pool
  <2>2. \A l \in File : worker'[l].pc \in {worker[l].pc, "done"}
    BY <1>4 DEF SkipFile, IInv, Form
  <2>3. Running' \subseteq Running
    BY <2>1, <2>2 DEF Running
  <2> QED BY <1>0, <2>1, <2>3, NoMore DEF InZone, Free
<1>5. ASSUME NEW k \in File, AnswerFile(k) \/ FileWarns(k) \/ FileDies(k) PROVE Bounded'
  <2>1. /\ ReleaseCurl(Worker(k)) /\ Worker(k) \in Client /\ worker[k].pc = "asked"
        /\ UNCHANGED <<zone, lister>> /\ stage' \in {stage, "reset"}
    BY <1>5, Clients DEF AnswerFile, FileWarns, FileDies
  <2>2. \A z \in Zone : InZone(z)' = InZone(z)
    BY <1>0, <2>1, ZoneRelease
  <2>3. \A l \in File \ {k} : worker'[l].pc \in {worker[l].pc, "idle"}
    BY SMTT(30), <1>5 DEF AnswerFile, FileWarns, FileDies, IInv, Form, NoTask
  <2>4. Running' \subseteq Running
    BY <2>1, <2>3 DEF Running
  <2> QED BY <1>0, <2>1, <2>2, <2>4, NoMore
<1> QED BY <1>1, <1>2, <1>3, <1>4, <1>5

\* However many requests are sent, there are never more handles than threads, and one
\* for the zone that the region was asked from.
THEOREM HandlesAreBounded == Spec => []HandlesBounded
<1>1. Init => Bounded
  <2> SUFFICES ASSUME Init PROVE Bounded
    OBVIOUS
  <2>1. "s3" \in Zone /\ "other" \in Zone /\ Threads \in Nat
    BY ListingAssumption
  <2>2. DOMAIN <<>> = {}
    OBVIOUS
  <2>3. \A z \in Zone : InZone(z) = {}
    BY <2>2 DEF Init, PoolInit, InZone, Free
  <2>4. Running = {}
    BY DEF Init, Running, NoTask
  <2> QED BY <2>1, <2>3, <2>4, FS_EmptySet DEF Init, Bounded
<1>2. IInv /\ Bounded /\ [Next]_vars => Bounded'
  <2> SUFFICES ASSUME IInv, Bounded, [Next]_vars PROVE Bounded'
    OBVIOUS
  <2>1. CASE Change \/ Finished \/ UNCHANGED vars
    <3>1. UNCHANGED <<curls_, borrowed_curls_, zone, stage, lister, worker>>
      BY <2>1 DEF Change, Finished, vars, pool, work
    <3> QED BY <3>1, NoMore DEF InZone, Free, Running, IInv
  <2> QED BY <2>1, MainBounded, TaskBounded DEF Next, Step
<1>3. IInv /\ Bounded => HandlesBounded
  <2> SUFFICES ASSUME IInv, Bounded PROVE Cardinality(error_bufs_) <= Threads + 1
    BY DEF HandlesBounded
  <2>1. /\ Zone = {"s3", "other"} /\ Threads \in Nat /\ zone \in Zone /\ PInv
    BY ListingAssumption DEF IInv, Form
  <2> DEFINE A == InZone("s3")
  <2> DEFINE B == InZone("other")
  <2>2. error_bufs_ = A \cup B
    BY <2>1 DEF PInv, Borrowed, Allocated, InZone
  <2>3. /\ IsFiniteSet(A) /\ Cardinality(A) \in Nat
        /\ IsFiniteSet(B) /\ Cardinality(B) \in Nat
    BY <2>1, Finite
  <2>4. \/ Cardinality(A) <= Threads /\ B = {}
        \/ Cardinality(A) <= 1 /\ Cardinality(B) <= Threads
    BY DEF Bounded
  <2> HIDE DEF A, B
  <2>5. Cardinality(B) = 0 \/ Cardinality(A) <= 1
    BY <2>4, FS_EmptySet
  <2>6. /\ Cardinality(A \cup B) = Cardinality(A) + Cardinality(B) - Cardinality(A \cap B)
        /\ IsFiniteSet(A \cap B)
    BY <2>3, FS_Union, FS_Intersection
  <2>7. Cardinality(A \cap B) \in Nat
    BY <2>6, FS_CardinalityType
  <2>8. Cardinality(A) + Cardinality(B) <= Threads + 1
    BY <2>1, <2>3, <2>4, <2>5, FS_EmptySet
  <2> QED BY <2>1, <2>2, <2>3, <2>6, <2>7, <2>8
<1> QED BY <1>1, <1>2, <1>3, Invariance, PTL DEF Spec
=============================================================================
