------------------------------- MODULE Buffer -------------------------------
(***************************************************************************)
(* The bufferlist of src/common/buffer.{h,cc} and the part of the DENC     *)
(* framework that writes through it.  A list is a chain of nodes, each a   *)
(* window [off, off+len) of a shared raw buffer; one node may be the       *)
(* list's carriage, into whose unused tail the list appends.  A raw lives  *)
(* as long as a node refers to it.  Sizes are in cells: a cell stands for  *)
(* one byte of data, and for one integer field of an encoding.             *)
(***************************************************************************)
EXTENDS Integers, Sequences, FiniteSets, SequencesExt, FiniteSetsExt

CONSTANTS
  Chunks,     \* what the program appends and reads
  Raws,       \* raw buffers that can be alive at once
  Lists,      \* the bufferlists of the program
  ALLOC_UNIT, \* BUFFER_ALLOC_UNIT
  UNIT_MAX,   \* BUFFER_ALLOC_UNIT_MAX
  HEADER,     \* sizeof(raw_combined)
  PAGE,       \* page().size, and the block size of the device
  Bases,      \* addresses modulo PAGE of a raw that asked for no alignment
  MaxRaw,     \* bound on the length of a raw
  MaxLen,     \* bound on the length of a list
  MaxBufs,    \* bound on the nodes of a list
  MaxCalls    \* bound on the calls of a behaviour

BITS    == 3                 \* a byte, and the register of the CRC
Junk    == 7                 \* 2^BITS - 1, what an unwritten cell holds
Byte    == 0..Junk

\* a cell holds the length of any list
ASSUME BufferAssumption ==
  /\ ALLOC_UNIT \in Nat /\ UNIT_MAX \in Nat /\ HEADER \in 1..(ALLOC_UNIT - 1)
  /\ PAGE \in Nat \ {0} /\ Bases \subseteq 0..(PAGE - 1)
  /\ MaxRaw \in Nat /\ MaxLen \in Byte /\ MaxBufs \in Nat /\ MaxCalls \in Nat
  /\ IsFiniteSet(Raws) /\ Chunks \subseteq Seq(Byte) \ {<<>>}

VARIABLES
  raws,   \* raws[r]: [len, base, data, crc], or Dead
  lists,  \* lists[l]: [bufs, len, num, dangling]
  calls,  \* how many calls there were
  call    \* the last call with its arguments and answer, for the properties

vars == <<raws, lists, calls, call>>

NoCrc   == [from |-> -1, to |-> -1, base |-> 0, val |-> 0]
Dead    == [len |-> 0, base |-> 0, data |-> <<>>, crc |-> NoCrc]
NewList == [bufs |-> <<>>, len |-> 0, num |-> 0, dangling |-> FALSE]
Zeros(n) == [i \in 1..n |-> 0]
RoundUp(n, a) == ((n + a - 1) \div a) * a
Smaller(a, b) == IF a < b THEN a ELSE b
Larger(a, b)  == IF a < b THEN b ELSE a

(***************************************************************************)
(* The CRC: a table-driven, bit-reflected CRC with inverted register.      *)
(***************************************************************************)
Xor(a, b)  == SumSet({2^i : i \in {j \in 0..(BITS - 1) :
                        ((a \div 2^j) + (b \div 2^j)) % 2 = 1}})
Not(c)     == 2^BITS - 1 - c
Shifted(c) == IF c % 2 = 1 THEN Xor(c \div 2, 6) ELSE c \div 2
Table      == [i \in 0..(2^BITS - 1) |-> Shifted(Shifted(Shifted(i)))]
calc_crc32(s, prev) == Not(FoldLeft(LAMBDA c, b : Table[Xor(c, b)], Not(prev), s))

(***************************************************************************)
(* ptr and raw.  S is the pair [raws, lists] an operation works on.        *)
(***************************************************************************)
Ptr(r, off, len, car) == [raw |-> r, off |-> off, len |-> len, car |-> car]
Slice(n, o, l)  == Ptr(n.raw, n.off + o, l, FALSE)       \* ptr(p, o, l)
Copy(n)         == [n EXCEPT !.car = FALSE]              \* ptr(p)
End(n)          == n.off + n.len
Data(S, n)      == SubSeq(S.raws[n.raw].data, n.off + 1, End(n))
Address(S, n)   == S.raws[n.raw].base + n.off
AddLen(a, n)    == a + n.len
Total(bufs)     == FoldLeft(AddLen, 0, bufs)
Contents(S, l)  == FlattenSeq([i \in DOMAIN S.lists[l].bufs |-> Data(S, S.lists[l].bufs[i])])

Unborn(S)       == CHOOSE r \in Raws : S.raws[r] = Dead
Create(S, r, n, base) ==
  [S EXCEPT !.raws[r] = [len |-> n, base |-> base, crc |-> NoCrc,
                         data |-> [i \in 1..n |-> Junk]]]
Poke(S, r, off, s) ==
  [S EXCEPT !.raws[r].data = [i \in DOMAIN @ |->
      IF i \in (off + 1)..(off + Len(s)) THEN s[i - off] ELSE @[i]]]
invalidate_crc(S, r) == [S EXCEPT !.raws[r].crc = NoCrc]

(* ~ptr(): a raw dies with its last node, and a cell no node covers holds   *)
(* nothing anybody can read.                                                *)
Covers(S, r, i) == \E l \in Lists : \E k \in DOMAIN S.lists[l].bufs :
                     LET n == S.lists[l].bufs[k]
                     IN  n.raw = r /\ i \in (n.off + 1)..End(n)
Referred(S, r)  == \E l \in Lists : \E k \in DOMAIN S.lists[l].bufs :
                     S.lists[l].bufs[k].raw = r
release(S) ==
  [S EXCEPT !.raws = [r \in Raws |->
     IF ~Referred(S, r) THEN Dead
     ELSE [S.raws[r] EXCEPT !.data = [i \in DOMAIN @ |->
             IF Covers(S, r, i) THEN @[i] ELSE Junk]]]]

(***************************************************************************)
(* buffer::list: the carriage and the ways to append to it.                *)
(***************************************************************************)
Bufs(S, l)     == S.lists[l].bufs
HasCarriage(S, l) == \E k \in DOMAIN Bufs(S, l) : Bufs(S, l)[k].car
Carriage(S, l) == Bufs(S, l)[CHOOSE k \in DOMAIN Bufs(S, l) : Bufs(S, l)[k].car]
AtBack(S, l)   == Bufs(S, l) # <<>> /\ Last(Bufs(S, l)).car
UnusedTail(S, l)     == IF HasCarriage(S, l)
                  THEN S.raws[Carriage(S, l).raw].len - End(Carriage(S, l)) ELSE 0
Uncrowned(bufs) == [i \in DOMAIN bufs |-> Copy(bufs[i])]
PushBack(S, l, n) ==
  [S EXCEPT !.lists[l] =
     [bufs |-> Append(IF n.car THEN Uncrowned(@.bufs) ELSE @.bufs, n), len |-> @.len,
      num |-> @.num + 1, dangling |-> @.dangling /\ ~n.car]]
Grow(S, l, n) == [S EXCEPT !.lists[l].len = @ + n]
Stretch(S, l, n) == [S EXCEPT !.lists[l].bufs[Len(Bufs(S, l))].len = @ + n]

\* push a new raw of size n whose first m cells count, and make it the carriage
PushRaw(S, l, n, base, m) ==
  PushBack(Create(S, Unborn(S), n, base), l, Ptr(Unborn(S), 0, m, TRUE))

(* The carriage need not be the last node: append() then adds a node for    *)
(* its unused tail.                                                         *)
OwnTail_always_back(S, l) == S
OwnTail(S, l) ==
  IF AtBack(S, l) THEN S
  ELSE PushBack(S, l, Ptr(Carriage(S, l).raw, End(Carriage(S, l)), 0, TRUE))

\* ptr::append() on the carriage, which is the last node
PtrAppend(S, l, s) ==
  Poke(Stretch(S, l, Len(s)), Last(Bufs(S, l)).raw, End(Last(Bufs(S, l))), s)

RefillSize(S, l, n) ==
  Larger(RoundUp(n + HEADER, ALLOC_UNIT),
         IF AtBack(S, l)
         THEN Smaller(2 * RoundUp(S.raws[Last(Bufs(S, l)).raw].len, ALLOC_UNIT), UNIT_MAX)
         ELSE 0) - HEADER
refill_append_space(S, l, n, b) == PushRaw(S, l, RefillSize(S, l, n), b, 0)

FirstRound(S, l, s) == IF UnusedTail(S, l) = 0 THEN S
                       ELSE PtrAppend(OwnTail(S, l), l,
                                      SubSeq(s, 1, Smaller(Len(s), UnusedTail(S, l))))
SecondRound(S, l, s, b) == IF s = <<>> THEN S
                           ELSE PtrAppend(refill_append_space(S, l, Len(s), b), l, s)

\* append(data, len), and append_zero(len), which differs in the bytes only
append(S, l, s, b) ==
  SecondRound(FirstRound(Grow(S, l, Len(s)), l, s), l,
              SubSeq(s, UnusedTail(S, l) + 1, Len(s)), b)

\* append(char)
append_char(S, l, c, b) ==
  Grow(PtrAppend(IF UnusedTail(S, l) = 0
                 THEN PushRaw(S, l, ALLOC_UNIT - HEADER, b, 0)
                 ELSE OwnTail(S, l), l, <<c>>), l, 1)

\* append_hole(len) and the copy_in() that fills the hole
append_hole(S, l, s, b) ==
  Grow(PtrAppend(IF UnusedTail(S, l) < Len(s) THEN refill_append_space(S, l, Len(s), b)
                 ELSE OwnTail(S, l), l, s), l, Len(s))

obtain_contiguous_space(S, l, n, b) ==
  IF UnusedTail(S, l) < n THEN PushRaw(S, l, n, b, 0) ELSE OwnTail(S, l)

reserve(S, l, n) == IF UnusedTail(S, l) < n THEN PushRaw(S, l, n, 0, 0) ELSE S

prepend_zero(S, l, n, b) ==
  [Poke(Create(S, Unborn(S), n, b), Unborn(S), 0, Zeros(n))
     EXCEPT !.lists[l] = [bufs |-> <<Ptr(Unborn(S), 0, n, FALSE)>> \o @.bufs,
                          len |-> @.len + n, num |-> @.num + 1, dangling |-> @.dangling]]

(* append(ptr, off, len) extends the last node when the bytes continue it.  *)
Continues(S, l, p) == /\ Bufs(S, l) # <<>>
                      /\ Last(Bufs(S, l)).raw = p.raw
                      /\ End(Last(Bufs(S, l))) = p.off
append_ptr(S, l, p) ==
  Grow(IF Continues(S, l, p)
       THEN Stretch(S, l, p.len) ELSE PushBack(S, l, p), l, p.len)
AppendPtrStep(acc, p) == [acc EXCEPT !.S = append_ptr(@, acc.l, p)]
append_ptrs(S, l, ps) == FoldLeft(AppendPtrStep, [S |-> S, l |-> l], ps).S

(***************************************************************************)
(* Slicing: the nodes the loops of substr_of(), splice() and the iterators *)
(* visit for the bytes [off, off + n), n > 0.                              *)
(***************************************************************************)
Start(bufs, i) == Total(SubSeq(bufs, 1, i - 1))
FirstAt(bufs, off) ==
  IF off = 0 THEN 1
  ELSE CHOOSE i \in DOMAIN bufs : Start(bufs, i) <= off /\ off < Start(bufs, i + 1)
LastAt(bufs, to) == Max({i \in DOMAIN bufs : Start(bufs, i) < to})
PartOf(n, start, off, to) ==
  Slice(n, Larger(off - start, 0),
        Smaller(to, start + n.len) - Larger(off, start))
Parts(bufs, off, n) ==
  [j \in 1..(LastAt(bufs, off + n) - FirstAt(bufs, off) + 1) |->
     PartOf(bufs[FirstAt(bufs, off) + j - 1],
            Start(bufs, FirstAt(bufs, off) + j - 1), off, off + n)]
NonEmpty(ps) == FlattenSeq([i \in DOMAIN ps |-> IF ps[i].len > 0 THEN <<ps[i]>> ELSE <<>>])

\* list(const list &), operator=(const list &) and share()
Assigned(S, l, m) == [S EXCEPT !.lists[l] = [bufs |-> Uncrowned(Bufs(S, m)), len |-> S.lists[m].len,
                                            num |-> S.lists[m].num, dangling |-> FALSE]]
substr_of(S, l, m, off, n) ==
  [S EXCEPT !.lists[l] = [bufs |-> Parts(Bufs(S, m), off, n),
                          len |-> Total(Parts(Bufs(S, m), off, n)),
                          num |-> Len(Parts(Bufs(S, m), off, n)), dangling |-> FALSE]]

\* append(const list &)
append_list(S, l, m) ==
  [S EXCEPT !.lists[l] =
     [bufs |-> @.bufs \o Uncrowned(Bufs(S, m)), len |-> @.len + S.lists[m].len,
      num |-> @.num + S.lists[m].num, dangling |-> @.dangling]]
clear(S, l) == [S EXCEPT !.lists[l] = NewList]
claim_append(S, l, m) == clear(append_list(S, l, m), m)

(* splice(): a carriage that is cut out keeps its unused tail and goes to   *)
(* the end of the chain, past the bytes that were cut.                      *)
KeptHead(bufs, f, off) == IF off > Start(bufs, f)
                      THEN <<Slice(bufs[f], 0, off - Start(bufs, f))>> ELSE <<>>
Trimmed(n, drop)   == Ptr(n.raw, n.off + drop, n.len - drop, n.car)
Survivor(bufs, e, to) == IF to < Start(bufs, e + 1)
                         THEN <<Trimmed(bufs[e], to - Start(bufs, e))>> ELSE <<>>
Erased(bufs, f, e, to) == SubSeq(bufs, f, IF to < Start(bufs, e + 1) THEN e - 1 ELSE e)
Moved_in_place(erased) ==
  FlattenSeq([i \in DOMAIN erased |->
     IF erased[i].car THEN <<[erased[i] EXCEPT !.len = 0]>> ELSE <<>>])
Moved(erased) == FlattenSeq([i \in DOMAIN erased |->
                   IF erased[i].car THEN <<Trimmed(erased[i], erased[i].len)>> ELSE <<>>])
Spliced(bufs, off, to, f, e) ==
  SubSeq(bufs, 1, f - 1) \o KeptHead(bufs, f, off) \o Survivor(bufs, e, to)
    \o SubSeq(bufs, e + 1, Len(bufs)) \o Moved(Erased(bufs, f, e, to))
Recount_carriage(bufs, off, to, f, e) ==
  Len(KeptHead(bufs, f, off)) - Len(Erased(bufs, f, e, to))
Recount(bufs, off, to, f, e) ==
  Len(KeptHead(bufs, f, off))
    - (Len(Erased(bufs, f, e, to)) - Len(Moved(Erased(bufs, f, e, to))))
CutOut(S, l, off, to, f, e) ==
  [S EXCEPT !.lists[l] =
     [bufs |-> Spliced(@.bufs, off, to, f, e),
      num |-> @.num + Recount(@.bufs, off, to, f, e),
      len |-> @.len + (off - Start(@.bufs, f)) - (to - Start(@.bufs, f)),
      dangling |-> @.dangling]]
splice(S, l, off, n, m) ==
  CutOut(IF m = l THEN S ELSE append_ptrs(S, m, Parts(Bufs(S, l), off, n)),
         l, off, off + n, FirstAt(Bufs(S, l), off), LastAt(Bufs(S, l), off + n))

(***************************************************************************)
(* rebuild() and rebuild_aligned()                                         *)
(***************************************************************************)
RebuildInto(S, l, r) ==
  [S EXCEPT !.lists[l] = [bufs |-> <<Ptr(r, 0, S.lists[l].len, TRUE)>>,
                          len |-> @.len, num |-> 1, dangling |-> FALSE]]
rebuild(S, l, b) ==
  IF S.lists[l].len = 0
  THEN [S EXCEPT !.lists[l] = NewList]
  ELSE RebuildInto(Poke(Create(S, Unborn(S), S.lists[l].len,
                               IF S.lists[l].len % PAGE = 0 THEN 0 ELSE b),
                        Unborn(S), 0, Contents(S, l)), l, Unborn(S))

IsAligned(S, n)   == Address(S, n) % PAGE = 0
IsFit(S, n)       == IsAligned(S, n) /\ n.len % PAGE = 0
AllData(S, bufs)  == FlattenSeq([i \in DOMAIN bufs |-> Data(S, bufs[i])])

(* The loop carries acc = [S, out, group, num]: the nodes already in place, *)
(* the run of unfit nodes to be copied into one aligned raw, and _num.      *)
Emit(acc, nodes) == [S |-> acc.S, out |-> acc.out \o nodes, group |-> <<>>,
                     num |-> acc.num + Len(nodes)]
Gathered(acc) ==
  Emit([acc EXCEPT !.S = Poke(Create(@, Unborn(@), Total(acc.group), 0),
                              Unborn(@), 0, AllData(@, acc.group))],
       <<Ptr(Unborn(acc.S), 0, Total(acc.group), FALSE)>>)
Single_unaligned(acc) == Len(acc.group) = 1
Single(acc) == Len(acc.group) = 1 /\ IsAligned(acc.S, acc.group[1])
Consolidate(acc) ==
  CASE Single(acc)                              -> Emit(acc, Uncrowned(acc.group))
    [] ~Single(acc) /\ Total(acc.group) = 0     -> Emit(acc, <<>>)
    [] ~Single(acc) /\ Total(acc.group) # 0     -> Gathered(acc)
Visit(acc, n) ==
  IF IsFit(acc.S, n) /\ Total(acc.group) % PAGE = 0
  THEN [Consolidate(acc) EXCEPT !.out = Append(@, n)]
  ELSE [S |-> acc.S, out |-> acc.out, group |-> Append(acc.group, n), num |-> acc.num - 1]
Aligned(S, l) ==
  Consolidate(FoldLeft(Visit, [S |-> S, out |-> <<>>, group |-> <<>>,
                               num |-> S.lists[l].num], Bufs(S, l)))
Realigned(S, l, acc) ==
  [acc.S EXCEPT !.lists[l] =
     [bufs |-> acc.out, len |-> @.len, num |-> acc.num,
      dangling |-> @.dangling \/ (HasCarriage(S, l)
                                  /\ \A k \in DOMAIN acc.out : ~acc.out[k].car)]]
rebuild_aligned(S, l) == Realigned(S, l, Aligned(S, l))

(***************************************************************************)
(* Writing in place, and the CRC with its cache in the raw.                *)
(***************************************************************************)
CopyInto_keep_crc(acc, n) ==
  [S |-> Poke(acc.S, n.raw, n.off, SubSeq(acc.s, 1, n.len)),
   s |-> SubSeq(acc.s, n.len + 1, Len(acc.s))]
CopyInto(acc, n) ==
  IF n.len = 0 THEN acc
  ELSE [S |-> Poke(invalidate_crc(acc.S, n.raw), n.raw, n.off, SubSeq(acc.s, 1, n.len)),
        s |-> SubSeq(acc.s, n.len + 1, Len(acc.s))]
copy_in(S, l, off, s) ==
  FoldLeft(CopyInto, [S |-> S, s |-> s], Parts(Bufs(S, l), off, Len(s))).S

Cached(S, n) == S.raws[n.raw].crc.from = n.off /\ S.raws[n.raw].crc.to = End(n)
CrcStep(acc, n) ==
  LET c == acc.S.raws[n.raw].crc
      v == calc_crc32(Data(acc.S, n), acc.crc)
  IN  CASE n.len = 0 -> acc
        [] n.len > 0 /\ Cached(acc.S, n) /\ c.base = acc.crc ->
             [acc EXCEPT !.crc = c.val]
        [] n.len > 0 /\ Cached(acc.S, n) /\ c.base # acc.crc ->
             [S |-> acc.S, adjusted |-> TRUE,
              crc |-> Xor(c.val, calc_crc32(Zeros(n.len), Xor(c.base, acc.crc)))]
        [] OTHER ->
             [S |-> [acc.S EXCEPT !.raws[n.raw].crc = [from |-> n.off, to |-> End(n),
                                                       base |-> acc.crc, val |-> v]],
              crc |-> v, adjusted |-> acc.adjusted]
crc32c(S, l, base) ==
  FoldLeft(CrcStep, [S |-> S, crc |-> base, adjusted |-> FALSE], Bufs(S, l))

(***************************************************************************)
(* DENC: encode() of a structure with a bufferlist member (as              *)
(* bluefs_transaction_t) through a contiguous_appender.  DENC_START leaves *)
(* room for the length, the member is appended without copying, tail holds *)
(* fields a newer version added, DENC_FINISH goes back to fill the length  *)
(* in.  struct_v and struct_compat are written, read and never compared,   *)
(* and are left out.                                                       *)
(***************************************************************************)
Bound(S, m, tail) == 2 + S.lists[m].len + Len(tail)
Emitted(S, l, s)  == Grow(PtrAppend(S, l, s), l, Len(s))     \* flush_and_continue()

(* contiguous_appender::append(const bufferlist &): the appender goes on in *)
(* the unused tail of the raw it was writing to.                            *)
AppendOutOfBand(S, l, m) == OwnTail(append_list(S, l, m), l)

StructLen_in_band(start, pos, oob) == pos - start - 1
StructLen(start, pos, oob) == pos - start - 1 + oob
DencFinish(S, l, start, oob) ==
  Poke(S, Last(Bufs(S, l)).raw, start, <<StructLen(start, End(Last(Bufs(S, l))), oob)>>)
DencBody(S, l, m, tail) ==
  DencFinish(Emitted(AppendOutOfBand(Emitted(S, l, <<0, S.lists[m].len>>), l, m), l, tail),
             l, End(Last(Bufs(S, l))), S.lists[m].len)
encode(S, l, m, tail, b) ==
  DencBody(obtain_contiguous_space(S, l, Bound(S, m, tail), b), l, m, tail)

(* decode() by a reader that knows no tail, from offset off: DENC_FINISH    *)
(* skips to the end the length gives, and refuses a length that is passed.  *)
EndOf(s, off) == off + 1 + s[off + 1]
decode(s, off) ==
  IF off + 2 + s[off + 2] > EndOf(s, off) THEN [error |-> TRUE]
  ELSE [error |-> FALSE, value |-> SubSeq(s, off + 3, off + 2 + s[off + 2]),
        next |-> EndOf(s, off)]

(***************************************************************************)
(* The program: any sequence of calls on the lists.                        *)
(***************************************************************************)
State == [raws |-> raws, lists |-> lists]
Now(l) == lists[l].len
Room(n) == Cardinality({r \in Raws : raws[r] = Dead}) >= n
Bounded(S) == /\ \A l \in Lists : S.lists[l].len <= MaxLen /\ Len(Bufs(S, l)) <= MaxBufs
              /\ \A r \in Raws : S.raws[r].len <= MaxRaw

(* After rebuild_aligned() has freed the carriage no client appends to the  *)
(* list or splices it (KernelDevice sends it to the device or drops it).    *)
Usable(l) == ~lists[l].dangling

Do(S, c) == /\ calls < MaxCalls
            /\ \E T \in {release(S)} :
                 /\ Bounded(T)
                 /\ calls' = calls + 1
                 /\ raws' = T.raws /\ lists' = T.lists /\ call' = c

Init == /\ raws = [r \in Raws |-> Dead]
        /\ lists = [l \in Lists |-> NewList]
        /\ calls = 0
        /\ call = <<"init">>

AppendData(l)    == \E s \in Chunks, b \in Bases :
                   Usable(l) /\ Room(1) /\ Do(append(State, l, s, b), <<"append", l, s>>)
AppendChar(l) == \E b \in Bases :
                   Usable(l) /\ Room(1) /\ Do(append_char(State, l, 1, b), <<"append", l, <<1>>>>)
AppendZero(l) == \E b \in Bases :
                   Usable(l) /\ Room(1) /\ Do(append(State, l, Zeros(2), b), <<"append", l, Zeros(2)>>)
AppendHole(l) == \E s \in Chunks, b \in Bases :
                   Usable(l) /\ Room(1) /\ Do(append_hole(State, l, s, b), <<"append", l, s>>)
PrependZero(l) == \E b \in Bases :
                   Room(1) /\ Do(prepend_zero(State, l, 1, b), <<"prepend", l, Zeros(1)>>)
Reserve(l)    == Usable(l) /\ Room(1) /\ Do(reserve(State, l, PAGE), <<"look", "reserve">>)

(* read_fd(len): a short read leaves an unused tail behind the bytes        *)
ReadFd(l) == \E s \in Chunks, b \in Bases :
  /\ Room(1)
  /\ Do(Grow(Poke(PushRaw(State, l, Len(s) + 1, b, Len(s)), Unborn(State), 0, s), l, Len(s)),
        <<"append", l, s>>)

(* iterator.copy(len, list &)                                               *)
IterCopy(l, m) == \E off \in 0..(Now(m) - 1) : \E n \in {1, Now(m) - off} :
  /\ l # m
  /\ Do(append_ptrs(State, l, NonEmpty(Parts(Bufs(State, m), off, n))),
        <<"share", l, m, off, n>>)

(* push_back(const ptr &) leaves the carriage, push_back(ptr &&) drops it   *)
PushPtr(l, m) == \E k \in DOMAIN lists[m].bufs, moved \in BOOLEAN :
  /\ lists[m].bufs[k].len > 0
  /\ Do(Grow([PushBack(State, l, Copy(lists[m].bufs[k])) EXCEPT !.lists[l] =
               [bufs |-> IF moved THEN Uncrowned(@.bufs) ELSE @.bufs, len |-> @.len,
                num |-> @.num, dangling |-> @.dangling /\ ~moved]], l, lists[m].bufs[k].len),
        <<"share", l, m, Start(lists[m].bufs, k), lists[m].bufs[k].len>>)

AppendList(l, m)  == Do(append_list(State, l, m), <<"share", l, m, 0, Now(m)>>)
ClaimAppend(l, m) == l # m /\ Do(claim_append(State, l, m), <<"claim", l, m, FALSE>>)
Assign(l, m)      == l # m /\ Do(Assigned(State, l, m), <<"assign", l, m, 0, Now(m)>>)
Move(l, m)        == l # m /\ Do(clear([State EXCEPT !.lists[l] = lists[m]], m),
                                 <<"claim", l, m, TRUE>>)
Swap(l, m) == l # m /\ Do([State EXCEPT !.lists[l] = lists[m], !.lists[m] = lists[l]],
                          <<"swap", l, m>>)
Clear(l)   == Do(clear(State, l), <<"clear", l>>)

SubstrOf(l, m) == \E off \in 0..(Now(m) - 1), n \in 1..Now(m) :
  /\ l # m /\ off + n <= Now(m)
  /\ Do(substr_of(State, l, m, off, n), <<"assign", l, m, off, n>>)

\* m = l stands for splice() with no list to claim the bytes
Splice(l, m) == \E off \in 0..(Now(l) - 1), n \in 1..Now(l) :
  /\ Usable(l) /\ Usable(m) /\ off + n <= Now(l)
  /\ Do(splice(State, l, off, n, m), <<"splice", l, off, n, m>>)

Rebuild(l) == \E b \in Bases :
  Room(1) /\ Do(rebuild(State, l, b), <<"rebuild", l>>)
CStr(l) == \E b \in Bases :
  /\ Now(l) > 0 /\ lists[l].bufs[1].len # Now(l)
  /\ Room(1) /\ Do(rebuild(State, l, b), <<"rebuild", l>>)
RebuildAligned(l) == \* a raw for each run, and a fit node between two runs
  Room((Len(lists[l].bufs) + 1) \div 2) /\ Do(rebuild_aligned(State, l), <<"rebuild", l, "aligned">>)

CopyIn(l) == \E s \in Chunks, off \in 0..(Now(l) - 1) :
  off + Len(s) <= Now(l) /\ Do(copy_in(State, l, off, s), <<"write", l, off, s>>)
Zero(l)   == \E off \in 0..(Now(l) - 1) : \E n \in {1, Now(l) - off} :
  Do(copy_in(State, l, off, Zeros(n)), <<"write", l, off, Zeros(n)>>)
Crc(l)    == \E r \in {crc32c(State, l, Not(0))} :
  Do(r.S, <<"look", "crc32c", l, Not(0), r.adjusted, r.crc>>)
Encode(l, m) == \E tail \in {<<>>, <<3>>}, b \in Bases :
  /\ l # m /\ Usable(l) /\ Room(1)
  /\ Do(encode(State, l, m, tail, b),
        <<"encode", l, m, <<1 + Now(m) + Len(tail), Now(m)>>, tail>>)

Next == \E l, m \in Lists :
  \/ AppendData(l) \/ AppendChar(l) \/ AppendZero(l) \/ AppendHole(l) \/ PrependZero(l)
  \/ Reserve(l) \/ ReadFd(l) \/ Clear(l) \/ Rebuild(l) \/ CStr(l) \/ RebuildAligned(l)
  \/ CopyIn(l) \/ Zero(l) \/ Crc(l)
  \/ IterCopy(l, m) \/ PushPtr(l, m) \/ AppendList(l, m) \/ ClaimAppend(l, m)
  \/ Assign(l, m) \/ Move(l, m) \/ Swap(l, m) \/ SubstrOf(l, m) \/ Splice(l, m)
  \/ Encode(l, m)

Spec == Init /\ [][Next]_vars

(***************************************************************************)
(* Properties.                                                             *)
(***************************************************************************)

(* Types, and the counters every operation maintains by hand: _len is the   *)
(* sum of the nodes' lengths, _num their number, and every node lies inside *)
(* its raw.                                                                 *)
BufferTypeOK ==
  /\ \A l \in Lists :
       /\ lists[l].len = Total(lists[l].bufs)
       /\ lists[l].num = Len(lists[l].bufs)
       /\ Cardinality({k \in DOMAIN lists[l].bufs : lists[l].bufs[k].car}) <= 1
       /\ \A k \in DOMAIN lists[l].bufs :
            /\ lists[l].bufs[k] \in [raw : Raws, off : 0..MaxRaw, len : 0..MaxLen, car : BOOLEAN]
            /\ End(lists[l].bufs[k]) <= raws[lists[l].bufs[k].raw].len
  /\ \A r \in Raws : /\ raws[r].data \in Seq(Byte)
                     /\ Len(raws[r].data) = raws[r].len

(* The unused tail a list appends to is its own: no node of any list covers *)
(* a cell of it, and no other carriage has it.                              *)
TailExclusive ==
  \A l \in Lists : HasCarriage(State, l) =>
    \A m \in Lists : \A k \in DOMAIN lists[m].bufs :
      LET c == Carriage(State, l)
          n == lists[m].bufs[k]
      IN  n.raw = c.raw => /\ End(n) <= End(c)
                           /\ (n.car /\ m # l /\ UnusedTail(State, l) > 0)
                                => UnusedTail(State, m) = 0

(* A bufferlist behaves as a sequence of byte cells (SharedBytes).          *)
Cell == Raws \X (0..(MaxRaw - 1))
CellsOf(n) == [i \in 1..n.len |-> <<n.raw, n.off + i - 1>>]
ViewOf(l)  == FlattenSeq([k \in DOMAIN lists[l].bufs |-> CellsOf(lists[l].bufs[k])])
Abstract == INSTANCE SharedBytes WITH
  Cells <- Cell,
  view  <- [l \in Lists |-> ViewOf(l)],
  mem   <- [c \in Cell |-> IF c[2] < raws[c[1]].len THEN raws[c[1]].data[c[2] + 1] ELSE Junk]
RefinesSharedBytes == Abstract!Spec

(* crc32c() answers the CRC of the bytes, whatever the caches of the raws   *)
(* hold, unless it adjusted a cached value to another starting value.       *)
CrcRight ==
  [][(call'[1] = "look" /\ call'[2] = "crc32c" /\ ~call'[5])
       => call'[6] = calc_crc32(Contents(State, call'[3]), call'[4])]_vars

(* After rebuild_aligned() a list of whole blocks can be sent to the device *)
(* as it is: every node starts and ends on a block boundary.                *)
AlignedForDirectIO ==
  [][(Len(call') = 3 /\ call'[1] = "rebuild" /\ Now(call'[2]) % PAGE = 0)
       => \A k \in DOMAIN lists'[call'[2]].bufs :
            IsFit(State', lists'[call'[2]].bufs[k])]_vars

(* What encode() appends is read back by decode(): the value, and an end    *)
(* position behind the fields a newer writer added.                         *)
EncodingRoundTrip ==
  [][call'[1] = "encode" =>
       decode(Contents(State', call'[2]), Now(call'[2]))
         = [error |-> FALSE, value |-> Contents(State, call'[3]),
            next |-> lists'[call'[2]].len]]_vars
=============================================================================
