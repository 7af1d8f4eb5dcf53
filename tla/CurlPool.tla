------------------------------ MODULE CurlPool ------------------------------
(***************************************************************************)
(* The CURL handles of conn_context (context.h, context.cpp): a stack of   *)
(* free handles for each zone and bucket, an error buffer for each handle, *)
(* and the handles that requests have borrowed.  Every request of a        *)
(* s3_connection takes one handle and returns it when its curl_ptr_t goes  *)
(* out of scope, by a return or by an exception.                           *)
(***************************************************************************)
EXTENDS Integers, FiniteSets, Sequences

CONSTANTS Zone,    \* zone and bucket: what free handles are kept by
          Client   \* whatever sends requests

ASSUME PoolAssumption == IsFiniteSet(Zone) /\ IsFiniteSet(Client)

VARIABLES curls_,          \* the free handles of each zone
          error_bufs_,     \* handles that have an error buffer
          borrowed_curls_, \* the zone of each borrowed handle
          held             \* the handle that each client's curl_ptr_t refers to, if any

pool == <<curls_, error_bufs_, borrowed_curls_, held>>

\* At most one handle per client is alive, beside the free ones.
Handle == 1..(Cardinality(Client) * Cardinality(Zone))

Free(z) == {curls_[z][i] : i \in DOMAIN curls_[z]}
Allocated == (UNION {Free(z) : z \in Zone}) \cup DOMAIN borrowed_curls_
Borrowers == {c \in Client : held[c] # {}}

PoolInit ==
    /\ curls_ = [z \in Zone |-> <<>>]
    /\ error_bufs_ = {}
    /\ borrowed_curls_ = <<>>
    /\ held = [c \in Client |-> {}]

Lend(c, z, h) ==
    /\ held' = [held EXCEPT ![c] = {h}]
    /\ borrowed_curls_' = [g \in DOMAIN borrowed_curls_ \cup {h} |->
                             IF g = h THEN z ELSE borrowed_curls_[g]]

\* Mutant of Popped: the handle stays among the free ones.
PoppedNot(z) == curls_[z]

\* cur.pop_back()
Popped(z) == SubSeq(curls_[z], 1, Len(curls_[z]) - 1)

\* get_curl, under m_: a free handle of the zone, the last one to be returned, or a
\* new one with a new buffer.
GetCurl(c, z) ==
    \/ /\ curls_[z] # <<>>
       /\ Lend(c, z, curls_[z][Len(curls_[z])])
       /\ curls_' = [curls_ EXCEPT ![z] = Popped(z)]
       /\ UNCHANGED error_bufs_
    \/ /\ curls_[z] = <<>>
       /\ LET h == Cardinality(error_bufs_) + 1
          IN Lend(c, z, h) /\ error_bufs_' = error_bufs_ \cup {h}
       /\ UNCHANGED curls_

\* Mutant of Returned: the handle is forgotten.
ReturnedNot(z, h) == curls_[z]

\* curls_[key].push_back(curl)
Returned(z, h) == Append(curls_[z], h)

\* release_curl, under m_: the handle goes back to the zone it was borrowed for.
ReleaseCurl(c) ==
    /\ \E h \in held[c] :
         /\ curls_' = [curls_ EXCEPT ![borrowed_curls_[h]] = Returned(borrowed_curls_[h], h)]
         /\ borrowed_curls_' = [g \in DOMAIN borrowed_curls_ \ {h} |-> borrowed_curls_[g]]
    /\ held' = [held EXCEPT ![c] = {}]
    /\ UNCHANGED error_bufs_

\* reset(): all free handles and all buffers are freed.
ResetPool ==
    /\ curls_' = [z \in Zone |-> <<>>]
    /\ error_bufs_' = {}
    /\ UNCHANGED <<borrowed_curls_, held>>

-----------------------------------------------------------------------------
PoolTypeOK ==
    /\ curls_ \in [Zone -> Seq(Handle)]
    /\ error_bufs_ \subseteq Handle
    /\ DOMAIN borrowed_curls_ \subseteq Handle
    /\ \A h \in DOMAIN borrowed_curls_ : borrowed_curls_[h] \in Zone
    /\ held \in [Client -> {{}} \cup {{h} : h \in Handle}]

\* A handle is used by one request at a time, is free in one place or borrowed, and
\* has its error buffer for as long as it exists (the asserts of context.cpp:27, 48,
\* 63 and 73, connection.cpp:62): handles are not lost, doubled or freed in use.
PoolSound ==
    /\ error_bufs_ = Allocated
    /\ DOMAIN borrowed_curls_ = UNION {held[c] : c \in Client}
    /\ \A c, d \in Borrowers : c # d => held[c] # held[d]
    /\ \A z \in Zone :
         /\ Cardinality(Free(z)) = Len(curls_[z])
         /\ Free(z) \cap DOMAIN borrowed_curls_ = {}
         /\ \A y \in Zone \ {z} : Free(z) \cap Free(y) = {}
=============================================================================
