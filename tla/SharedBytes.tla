---------------------------- MODULE SharedBytes ----------------------------
(***************************************************************************)
(* What a bufferlist promises: it is a sequence of byte cells.  Copying,   *)
(* slicing and moving lists move references to cells and never change a    *)
(* byte; whatever is appended goes to cells that no list refers to; only   *)
(* an explicit write in place changes cells, and every list that shares    *)
(* them sees it.  Raws, ptrs, offsets and carriages do not appear here:    *)
(* Buffer refines this specification.                                      *)
(***************************************************************************)
EXTENDS Integers, Sequences, SequencesExt

CONSTANTS Lists, Cells

VARIABLES view,  \* view[l]: the cells of list l, in order
          mem,   \* mem[c]: the byte in cell c
          call   \* the last call and its arguments

vars == <<view, mem, call>>

Used    == UNION {ToSet(view[l]) : l \in Lists}
Keep    == \A c \in Used \cap Used' : mem'[c] = mem[c]
Part(l, off, n)  == SubSeq(view[l], off + 1, off + n)
Without(l, off, n) == Part(l, 0, off) \o Part(l, off + n, Len(view[l]) - off - n)
Set(l, cells)    == view' = [view EXCEPT ![l] = cells]

(* new cells: different from each other and from all that are in use        *)
Fresh(cells)     == /\ \A i, j \in DOMAIN cells : i # j => cells[i] # cells[j]
                    /\ ToSet(cells) \cap Used = {}
Hold(cells, s)   == [i \in DOMAIN cells |-> mem'[cells[i]]] = s

Init == /\ view = [l \in Lists |-> <<>>]
        /\ mem \in [Cells -> Nat]
        /\ call = <<"init">>

(* Bytes s come into being behind pre and before post.                      *)
Insert(l, pre, s, post) ==
  LET new == SubSeq(view'[l], Len(pre) + 1, Len(pre) + Len(s))
  IN  Set(l, pre \o new \o post) /\ Fresh(new) /\ Hold(new, s) /\ Keep

Bytes(l) == [i \in DOMAIN view[l] |-> mem[view[l][i]]]

Extend(l, s)  == Insert(l, view[l], s, <<>>)
Prepend(l, s) == Insert(l, <<>>, s, view[l])

(* rebuild(), rebuild_aligned() and c_str(): other cells, the same bytes    *)
Rebuild(l) ==
  /\ \A m \in Lists \ {l} : view'[m] = view[m]
  /\ Hold(view'[l], Bytes(l))
  /\ \A i \in DOMAIN view[l] :
       view'[l][i] # view[l][i] => view'[l][i] \notin Used
  /\ Keep

(* append(list), append(ptr, off, len) and the iterator's copy(len, list)   *)
Share(l, m, off, n) ==
  Set(l, view[l] \o Part(m, off, n)) /\ Keep

(* substr_of(), operator= and share()                                       *)
Assign(l, m, off, n) ==
  Set(l, Part(m, off, n)) /\ Keep

(* claim_append(), and the move that empties its argument                   *)
Claim(l, m, clear) ==
  /\ view' = [view EXCEPT ![l] = (IF clear THEN <<>> ELSE @) \o view[m],
                          ![m] = <<>>]
  /\ Keep

Swap(l, m) == view' = [view EXCEPT ![l] = view[m], ![m] = view[l]] /\ Keep

(* splice() with and without a list that claims what is cut out             *)
Splice(l, off, n, m) ==
  /\ view' = IF m = l THEN [view EXCEPT ![l] = Without(l, off, n)]
             ELSE [view EXCEPT ![l] = Without(l, off, n),
                               ![m] = @ \o Part(l, off, n)]
  /\ Keep

Clear(l) == Set(l, <<>>) /\ Keep

(* copy_in() and zero(): the one way to change a byte                       *)
Write(l, off, s) ==
  /\ UNCHANGED view
  /\ LET hit == Part(l, off, Len(s)) IN
       \A c \in Used : mem'[c] = IF \E i \in DOMAIN hit : hit[i] = c
                                 THEN s[CHOOSE i \in DOMAIN hit : hit[i] = c
                                          /\ \A j \in DOMAIN hit : hit[j] = c => j <= i]
                                 ELSE mem[c]

(* encode() of a structure that holds list m: head and tail bytes are new,  *)
(* the cells of m are shared.                                               *)
Encode(l, m, head, tail) ==
  LET pre == view[l]
      h   == SubSeq(view'[l], Len(pre) + 1, Len(pre) + Len(head))
      t   == SubSeq(view'[l], Len(view'[l]) - Len(tail) + 1, Len(view'[l]))
  IN  /\ Set(l, pre \o h \o view[m] \o t)
      /\ Fresh(h \o t) /\ Hold(h, head) /\ Hold(t, tail) /\ Keep

(* reserve(), crc32c(): nothing a reader can see                            *)
Look == UNCHANGED view /\ Keep

Named(op) == call'[1] = op

Next ==
  \/ Named("append")  /\ Extend(call'[2], call'[3])
  \/ Named("prepend") /\ Prepend(call'[2], call'[3])
  \/ Named("rebuild") /\ Rebuild(call'[2])
  \/ Named("share")   /\ Share(call'[2], call'[3], call'[4], call'[5])
  \/ Named("assign")  /\ Assign(call'[2], call'[3], call'[4], call'[5])
  \/ Named("claim")   /\ Claim(call'[2], call'[3], call'[4])
  \/ Named("swap")    /\ Swap(call'[2], call'[3])
  \/ Named("splice")  /\ Splice(call'[2], call'[3], call'[4], call'[5])
  \/ Named("clear")   /\ Clear(call'[2])
  \/ Named("write")   /\ Write(call'[2], call'[3], call'[4])
  \/ Named("encode")  /\ Encode(call'[2], call'[3], call'[4], call'[5])
  \/ Named("look")    /\ Look

Spec == Init /\ [][Next]_vars
=============================================================================
