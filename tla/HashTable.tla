------------------------------ MODULE HashTable ------------------------------
(***************************************************************************)
(* One hash table of syntax/ast/hash.c: buckets of nodes, doubled when the *)
(* load reaches three quarters.  MurmurHash3 is the constant Hash.  A node *)
(* holds its hash, its key and its symbol; the key is ast_strdup ()'s      *)
(* copy, NULL (here Absent) for a key that is too long for one.            *)
(***************************************************************************)
EXTENDS Integers, Sequences, FiniteSets

CONSTANTS
  Keys, Hash,   \* Hash[key]: 32 bits
  LongKeys,     \* keys of more than 4095 characters
  Symbols,
  N,            \* hash_table_init (N): 2^N buckets
  MaxBits,      \* a table has at most 2^MaxBits buckets (20)
  MaxInserts,   \* bound on inuse, for TLC
  Absent, Unbound

ASSUME HashTableAssumption ==
  /\ LongKeys \subseteq Keys /\ Hash \in [Keys -> Nat]
  /\ N \in Nat /\ MaxBits \in Nat /\ N <= MaxBits /\ MaxInserts \in Nat
  /\ Absent \notin Symbols \cup Keys

VARIABLES
  phase,        \* "live", or "faulted": strcmp () was given a null pointer
  n,            \* number of buckets; "bits" is n - 1
  inuse,        \* the count the load is judged by
  threshold,
  table,        \* table[i]: the nodes of bucket i, first to last
  call

vars == <<phase, n, inuse, threshold, table, call>>

Returns(op, key, ret) == call' = [op |-> op, key |-> key, ret |-> ret]

\* _H_AST_HASHTABLE_THRESHOLD_ * n, stored as an integer
Threshold(size) == (3 * size) \div 4

Init == /\ phase = "live"
        /\ n = 2 ^ N /\ inuse = 0 /\ threshold = Threshold(2 ^ N)
        /\ table = [i \in 0 .. 2 ^ N - 1 |-> <<>>]
        /\ call = [op |-> "none", key |-> Unbound, ret |-> Absent]

Bucket(key) == table[Hash[key] % n]

(***************************************************************************)
(* The search both functions make: along the bucket, names compared only   *)
(* where the hashes are equal.  It halts at the key or at a null name.     *)
(***************************************************************************)
Halts(key) == {p \in DOMAIN Bucket(key) : /\ Bucket(key)[p].hash = Hash[key]
                                          /\ Bucket(key)[p].key \in {key, Absent}}
First(key) == Bucket(key)[CHOOSE p \in Halts(key) : \A q \in Halts(key) : p <= q]

Faults(key) == Halts(key) # {} /\ First(key).key = Absent
Found(key)  == Halts(key) # {} /\ First(key).key # Absent

(***************************************************************************)
(* hash_table_resize (): a node of bucket i moves to i or to i + n, and    *)
(* the order within a bucket is reversed.                                  *)
(***************************************************************************)
\* the nodes of bucket s at the places K, the last one first
Backwards(s, K) ==
  [i \in 1 .. Cardinality(K) |-> s[CHOOSE p \in K : Cardinality({q \in K : q >= p}) = i]]

\* mutant: the nodes stay in the lower half
RehashedInPlace == [j \in 0 .. 2 * n - 1 |-> IF j < n THEN table[j] ELSE <<>>]

Rehashed == [j \in 0 .. 2 * n - 1 |->
               LET s == table[j % n]
               IN  Backwards(s, {p \in DOMAIN s : s[p].hash % (2 * n) = j})]

\* "of" is a ghost: the key the node was made for, whether it could be copied or not
NewNode(key, sym) == [hash |-> Hash[key], symbol |-> sym, of |-> key,
                      key |-> IF key \in LongKeys THEN Absent ELSE key]

PushedOn(t, i, node) == [t EXCEPT ![i] = <<node>> \o @]

Insert(key, sym) ==
  /\ phase = "live" /\ Halts(key) = {}
  /\ \/ /\ inuse = threshold /\ 2 * n <= 2 ^ MaxBits
        /\ n' = 2 * n /\ threshold' = 2 * threshold
        /\ table' = PushedOn(Rehashed, Hash[key] % (2 * n), NewNode(key, sym))
     \/ \* below the threshold, or past it, or at the limit, or realloc () fails
        /\ table' = PushedOn(table, Hash[key] % n, NewNode(key, sym))
        /\ UNCHANGED <<n, threshold>>
  /\ inuse' = inuse + 1
  /\ Returns("insert", key, sym)
  /\ UNCHANGED phase

InsertExisting(key, sym) ==
  /\ phase = "live" /\ Found(key)
  /\ Returns("insert", key, IF First(key).symbol = sym THEN sym ELSE Absent)
  /\ UNCHANGED <<phase, n, inuse, threshold, table>>

Lookup(key) ==
  /\ phase = "live" /\ ~Faults(key)
  /\ Returns("lookup", key, IF Found(key) THEN First(key).symbol ELSE Absent)
  /\ UNCHANGED <<phase, n, inuse, threshold, table>>

\* AST_DECLARATION, AST_TYPE: "h->symbol = type" through the node returned
Retagged(s, key, sym) ==
  [p \in DOMAIN s |-> IF s[p].key = key THEN [s[p] EXCEPT !.symbol = sym] ELSE s[p]]

Retag(key, sym) ==
  /\ phase = "live" /\ Found(key)
  /\ table' = [table EXCEPT ![Hash[key] % n] = Retagged(@, key, sym)]
  /\ UNCHANGED <<phase, n, inuse, threshold, call>>

\* hash_table_reset (): the nodes return to their pool
\* mutant: the last bucket is left out
ClearedButLast(t) == [i \in DOMAIN t |-> IF i = n - 1 THEN t[i] ELSE <<>>]
Cleared(t) == [i \in DOMAIN t |-> <<>>]

Reset == /\ phase = "live"
         /\ table' = Cleared(table)
         /\ Returns("reset", Unbound, Absent)
         /\ UNCHANGED <<phase, n, inuse, threshold>>

\* a key too long to be copied makes the next search for its hash fail
Fault(key) == /\ phase = "live" /\ Faults(key) /\ phase' = "faulted"
              /\ UNCHANGED <<n, inuse, threshold, table, call>>

Next ==
  \/ \E key \in Keys : \/ \E sym \in Symbols : \/ inuse < MaxInserts /\ Insert(key, sym)
                                               \/ InsertExisting(key, sym)
                                               \/ Retag(key, sym)
                       \/ Lookup(key) \/ Fault(key)
  \/ Reset

Spec == Init /\ [][Next]_vars
-----------------------------------------------------------------------------
(***************************************************************************)
(* Properties                                                              *)
(***************************************************************************)
Entries == UNION {{[bucket |-> i, at |-> p] : p \in DOMAIN table[i]} : i \in 0 .. n - 1}
Node(e) == table[e.bucket][e.at]

HashNodes == [hash : {Hash[key] : key \in Keys}, symbol : Symbols,
              of : Keys, key : Keys \cup {Absent}]

TypeOK ==
  /\ phase \in {"live", "faulted"}
  /\ n \in {2 ^ b : b \in N .. MaxBits} /\ DOMAIN table = 0 .. n - 1
  /\ inuse \in 0 .. MaxInserts /\ threshold \in 0 .. n
  /\ \A e \in Entries : Node(e) \in HashNodes

\* Through every doubling each node stays in the bucket its hash selects, so the
\* search for its key meets it; the table has as many buckets as n says.
NodesInTheirBuckets == TypeOK /\ \A e \in Entries : Node(e).hash % n = e.bucket

\* Buckets, collisions, doublings and failed doublings never show: each call
\* returns what the map of keys to symbols would, up to the call that faults.
EntryOf(key) == {e \in Entries : Node(e).of = key}

Contents == [key \in Keys |-> IF EntryOf(key) = {} THEN Absent
                              ELSE Node(CHOOSE e \in EntryOf(key) : TRUE).symbol]

Map == INSTANCE SymbolMap WITH symbol <- Contents

ImplementsMap == Map!Spec

\* The inductive invariant: what a node says of its key, and that a table holds at
\* most one node (or equal ones) for a key.
MadeFor(node) == /\ node.hash = Hash[node.of]
                 /\ node.key = IF node.of \in LongKeys THEN Absent ELSE node.of

IInv ==
  /\ NodesInTheirBuckets
  /\ table \in [0 .. n - 1 -> Seq(HashNodes)]
  /\ \A e \in Entries : MadeFor(Node(e))
  /\ \A e, f \in Entries : Node(e).of = Node(f).of => Node(e) = Node(f)
=============================================================================
