------------------------------ MODULE KeyValue ------------------------------
(***************************************************************************)
(* The key-value databases of src/kv: KeyValueDB with its two back ends,   *)
(* MemDB (a std::map under one lock) and RocksDBStore (batches written to  *)
(* RocksDB, which is external: a write is atomic, its log keeps a prefix   *)
(* of the writes in a crash, with every synced one in it).                 *)
(*                                                                         *)
(* A full key is prefix + NUL + key.  NUL is the smallest character, so    *)
(* full keys sort by prefix first; a pair <<prefix, key>> of numbers with  *)
(* that order stands for one.                                              *)
(***************************************************************************)
EXTENDS Integers, Sequences, FiniteSets, SequencesExt, FiniteSetsExt

CONSTANTS
  Backends,    \* subset of {"memdb", "rocksdb"}: the types of create()
  KeyPrefixes,    \* the prefixes in use, as numbers in string order
  Longer,      \* pairs <<p, q>>: prefix q is prefix p with more characters
  XorPrefixes, \* prefixes with an XorMergeOperator
  SumPrefixes, \* prefixes with an Int64ArrayMergeOperator
  Unreadable   \* what RocksDB makes of a merge without an operator

VARIABLES
  backend,     \* which class KeyValueDB::create() made
  db,          \* full key -> value
  hist         \* RocksDB's log: the versions since the last synced one

kvVars == <<backend, db, hist>>

Empty == [x \in {} |-> 0]
KeysOf(d, p) == { x \in DOMAIN d : x[1] = p }
Without(d, S) == [x \in DOMAIN d \ S |-> d[x]]
With(d, x, v) == [y \in DOMAIN d \cup {x} |-> IF y = x THEN v ELSE d[y]]
FullKeyLess(x, y) == x[1] < y[1] \/ (x[1] = y[1] /\ x[2] < y[2])

-----------------------------------------------------------------------------
(* Transactions: a sequence of operations *)

SetOp(p, k, v)      == [op |-> "set", p |-> p, k |-> k, v |-> v]
RmKey(p, k)         == [op |-> "rmkey", p |-> p, k |-> k]
RmKeysByPrefix(p)   == [op |-> "rmprefix", p |-> p]
RmRangeKeys(p, k, e) == [op |-> "rmrange", p |-> p, k |-> k, e |-> e]
MergeOp(p, k, v)    == [op |-> "merge", p |-> p, k |-> k, v |-> v]

OpKinds == {"set", "rmkey", "rmprefix", "rmrange", "merge"}

HasOperator(p) == p \in XorPrefixes \cup SumPrefixes

\* Mutant: the operand replaces the value
MergeValue_assign(p, old, v) == v

\* XorMergeOperator::merge() on bit sets, Int64ArrayMergeOperator::merge() on numbers
MergeValue(p, old, v) ==
  IF p \in XorPrefixes THEN SymDiff(old, v) ELSE old + v

\* merge_nonexistent() of both operators takes the operand as it is
Merged(d, o) ==
  LET x == <<o.p, o.k>>
  IN With(d, x, IF x \in DOMAIN d THEN MergeValue(o.p, d[x], o.v) ELSE o.v)

\* Mutant: MemDB compares with the prefix and not with prefix + NUL
PrefixRange_no_nul(p) == {p} \cup { q \in KeyPrefixes : <<p, q>> \in Longer }

(* What rmkeys_by_prefix() removes: MemDB stops at the first key that does  *)
(* not start with prefix + NUL; RocksDBStore deletes the range from         *)
(* prefix + NUL to prefix + 0xff, which holds the longer prefixes too.      *)
PrefixRange(p) ==
  {p} \cup { q \in KeyPrefixes : backend = "rocksdb" /\ <<p, q>> \in Longer }

Apply(d, o) ==
  CASE o.op = "set"      -> With(d, <<o.p, o.k>>, o.v)
    [] o.op = "rmkey"    -> Without(d, {<<o.p, o.k>>})
    [] o.op = "rmprefix" -> Without(d, { x \in DOMAIN d : x[1] \in PrefixRange(o.p) })
    [] o.op = "rmrange"  -> Without(d, { x \in KeysOf(d, o.p) : o.k <= x[2] /\ x[2] < o.e })
    [] o.op = "merge" /\ HasOperator(o.p)  -> Merged(d, o)
    [] o.op = "merge" /\ ~HasOperator(o.p) -> With(d, <<o.p, o.k>>, Unreadable)

(* MemDB::submit_transaction(): one operation after the other under the     *)
(* lock; a merge without an operator returns at once, and what the          *)
(* transaction did before it stays.                                         *)
Applied(ops) ==
  LET bad == { i \in DOMAIN ops : ops[i].op = "merge" /\ ~HasOperator(ops[i].p) }
  IN IF backend = "memdb" /\ bad # {} THEN SubSeq(ops, 1, Min(bad) - 1) ELSE ops

Submitted(d, ops) == FoldLeft(Apply, d, Applied(ops))

\* Mutant: submit_transaction_sync() does not sync
Submit_never_synced(ops, sync, note) ==
  /\ db' = Submitted(db, ops)
  /\ hist' = Append(hist, [db |-> db', note |-> note])
  /\ UNCHANGED backend

(* submit_transaction() and submit_transaction_sync(); for MemDB they are   *)
(* the same.  Each version carries note, what the caller wants to know      *)
(* about it after a crash.                                                  *)
Submit(ops, sync, note) ==
  /\ db' = Submitted(db, ops)
  /\ hist' = IF sync THEN <<[db |-> db', note |-> note]>>
             ELSE Append(hist, [db |-> db', note |-> note])
  /\ UNCHANGED backend

\* what a crash may leave of the log; MemDB keeps nothing
KvLoss(h) == Range(h)

-----------------------------------------------------------------------------
(* Iterators: a whole-space iterator is a copy of the database at one time  *)
(* (MemDB copies it, RocksDB pins it) and a position, 0 when not valid.     *)

KeyAt(d, i) ==
  CHOOSE x \in DOMAIN d : Cardinality({ y \in DOMAIN d : FullKeyLess(y, x) }) = i - 1
ItemsOf(d) == [i \in 1..Cardinality(DOMAIN d) |-> [key |-> KeyAt(d, i), value |-> d[KeyAt(d, i)]]]

\* PrefixIteratorImpl::valid(), without an upper bound
ValidAt(items, i, p) == i \in DOMAIN items /\ items[i].key[1] = p

\* PrefixIteratorImpl::lower_bound(to) of the whole-space iterator's items
LowerBound(items, p, to) ==
  LET at == { i \in DOMAIN items : ~FullKeyLess(items[i].key, <<p, to>>) }
  IN IF at = {} THEN 0 ELSE Min(at)

\* next() of a valid position
NextAt(items, i) == IF i < Len(items) THEN i + 1 ELSE 0

\* get() of one key, or the default
GetOr(d, p, k, default) ==
  IF <<p, k>> \in DOMAIN d /\ d[<<p, k>>] # Unreadable THEN d[<<p, k>>] ELSE default

=============================================================================
