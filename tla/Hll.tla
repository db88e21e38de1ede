---------------------------------- MODULE Hll ----------------------------------
(***************************************************************************)
(* HyperLogLog values (hyperloglog.c) and a replica that executes what is   *)
(* propagated.  A value has a header with the cached cardinality and either *)
(* its registers (dense) or a sequence of opcodes (sparse):                 *)
(*   <<"zero", n>>, <<"xzero", n>>   n registers that are 0                 *)
(*   <<"val", n, v>>                 n registers that hold v                *)
(* An element is what hllPatLen makes of it: the register and the length of *)
(* the run of zeros.  The cardinality is what hllCount computes it from:    *)
(* the number of zero registers and the sum of 2^-register.                 *)
(***************************************************************************)
EXTENDS Integers, Sequences, FiniteSets, SequencesExt, FiniteSetsExt

CONSTANTS HllKeys,
          Registers,        \* HLL_REGISTERS
          MaxRegister,      \* HLL_REGISTER_MAX
          ValMaxValue,      \* HLL_SPARSE_VAL_MAX_VALUE
          ValMaxLen,        \* HLL_SPARSE_VAL_MAX_LEN
          ZeroMaxLen,       \* HLL_SPARSE_ZERO_MAX_LEN
          XzeroMaxLen,      \* HLL_SPARSE_XZERO_MAX_LEN
          SparseMaxBytes,   \* hll_sparse_max_bytes, without the header
          MaxAdds           \* bound: commands that change something

VARIABLES hll,      \* the value under each key, None when there is none
          copy,     \* the same on a replica
          added,    \* history: the elements that each value stands for
          adds      \* history: commands run

hllvars == <<hll, copy, added, adds>>

None == [enc |-> "none", ops |-> <<>>, reg |-> <<>>, card |-> <<>>]
Index == 0..(Registers - 1)
MinOf(a, b) == IF a < b THEN a ELSE b

\* The length in bytes of an opcode, and of a sequence of them.
OpLen(op) == IF op[1] = "xzero" THEN 2 ELSE 1
Bytes(ops) == FoldLeft(LAMBDA n, op : n + OpLen(op), 0, ops)

Zeros(n) == IF n > ZeroMaxLen THEN <<"xzero", n>> ELSE <<"zero", n>>
Val(v, n) == <<"val", n, v>>

\* Expands the opcodes to registers.
Expand(ops) ==
  FoldLeft(LAMBDA r, op : r \o [i \in 1..op[2] |-> IF op[1] = "val" THEN op[3] ELSE 0], <<>>, ops)
Reg(h) == IF h.enc = "none" THEN [i \in 1..Registers |-> 0]
          ELSE IF h.enc = "dense" THEN h.reg ELSE Expand(h.ops)

\* hllCount: the empty tuple is a cache that is not valid.
hllCount(reg) ==
  LET E == FoldLeft(LAMBDA s, r : s + 2 ^ (MaxRegister - r), 0, reg)
      ez == Cardinality({i \in DOMAIN reg : reg[i] = 0})
  IN <<E, ez>>

createHLLObject ==
  LET n == (Registers + XzeroMaxLen - 1) \div XzeroMaxLen
  IN [enc |-> "sparse", reg |-> <<>>, card |-> <<Registers * 2 ^ MaxRegister, Registers>>,
      ops |-> [i \in 1..n |-> <<"xzero", MinOf(XzeroMaxLen, Registers - (i - 1) * XzeroMaxLen)>>]]

hllSparseToDense(h) ==
  IF h.enc = "dense" THEN h ELSE [h EXCEPT !.enc = "dense", !.reg = Expand(h.ops), !.ops = <<>>]

\* The answers of the functions that add: the value and whether it changed.
hllDenseAdd(h, index, count) ==
  IF count > h.reg[index + 1] THEN [h |-> [h EXCEPT !.reg[index + 1] = count], changed |-> 1]
  ELSE [h |-> h, changed |-> 0]

\* Step 4: up to 5 rounds from opcode p, merging equal neighbours.
RECURSIVE MergeFrom(_, _, _)
MergeFrom(ops, p, scanlen) ==
  IF p > Len(ops) \/ scanlen = 0 THEN ops
  ELSE IF ops[p][1] = "val" /\ p < Len(ops) /\ ops[p + 1][1] = "val" /\ ops[p][3] = ops[p + 1][3]
          /\ ops[p][2] + ops[p + 1][2] <= ValMaxLen
  THEN MergeFrom(ReplaceAt(RemoveAt(ops, p), p, Val(ops[p][3], ops[p][2] + ops[p + 1][2])),
                 p, scanlen - 1)
  ELSE MergeFrom(ops, p + 1, scanlen - 1)

\* The opcodes that take the place of op, which covers from first, when its
\* register index is set to count.
Split(op, first, index, count) ==
  LET last == first + op[2] - 1
      rest(n) == IF op[1] = "val" THEN Val(op[3], n) ELSE Zeros(n)
  IN (IF index # first THEN <<rest(index - first)>> ELSE <<>>)
     \o <<Val(count, 1)>>
     \o (IF index # last THEN <<rest(last - index)>> ELSE <<>>)

\* The first register that opcode p covers, and the opcode that covers index.
FirstOf(ops, p) == FoldLeft(LAMBDA n, op : n + op[2], 0, SubSeq(ops, 1, p - 1))
Covering(ops, index) ==
  CHOOSE p \in DOMAIN ops : FirstOf(ops, p) <= index /\ index < FirstOf(ops, p) + ops[p][2]

\* The sequence new takes the place of opcode p.
Substitute(h, p, new) ==
  [h EXCEPT !.ops = MergeFrom(SubSeq(@, 1, p - 1) \o new \o SubSeq(@, p + 1, Len(@)),
                              IF p > 1 THEN p - 1 ELSE 1, 5),
            !.card = <<>>]

\* A value or a run too long for the sparse form promotes.
TooLarge(h, op, new, count) ==
  \/ count > ValMaxValue
  \/ Bytes(new) > OpLen(op) /\ Bytes(h.ops) + Bytes(new) - OpLen(op) > SparseMaxBytes
SparseSet(h, p, new, index, count) ==
  IF count <= ValMaxValue /\ h.ops[p][1] = "val" /\ h.ops[p][3] >= count
  THEN [h |-> h, changed |-> 0]
  ELSE IF TooLarge(h, h.ops[p], new, count) THEN hllDenseAdd(hllSparseToDense(h), index, count)
  ELSE [h |-> Substitute(h, p, new), changed |-> 1]
SparseSetAt(h, p, index, count) ==
  SparseSet(h, p, Split(h.ops[p], FirstOf(h.ops, p), index, count), index, count)
hllSparseAdd(h, index, count) == SparseSetAt(h, Covering(h.ops, index), index, count)

hllAdd(h, e) == IF h.enc = "dense" THEN hllDenseAdd(h, e[1], e[2]) ELSE hllSparseAdd(h, e[1], e[2])

hllMerge(max, h) == [i \in DOMAIN max |-> IF Reg(h)[i] > max[i] THEN Reg(h)[i] ELSE max[i]]

-------------------------------------------------------------------------------

\* The commands on the values v: the values after, and whether it is propagated.
AddOne(a, e) ==
  LET count(r) == [h |-> r.h, updated |-> a.updated + r.changed] IN count(hllAdd(a.h, e))
pfaddCommand(v, k, elements) ==
  LET start == IF v[k] = None THEN [h |-> createHLLObject, updated |-> 1]
                              ELSE [h |-> v[k], updated |-> 0]
      store(r) == [v |-> [v EXCEPT ![k] = IF r.updated > 0 THEN [r.h EXCEPT !.card = <<>>] ELSE r.h],
                   dirty |-> r.updated > 0]
  IN store(FoldLeft(AddOne, start, elements))

\* PFCOUNT of one key: a cache that is refreshed is a change.
pfcountCommand(v, k) ==
  IF v[k] = None \/ v[k].card # <<>> THEN [v |-> v, dirty |-> FALSE]
  ELSE [v |-> [v EXCEPT ![k].card = hllCount(Reg(v[k]))], dirty |-> TRUE]

\* The reply of PFCOUNT: the cache of one key, or the count of the merge.
CountReply(v, keys) ==
  LET max == FoldLeft(LAMBDA m, k : hllMerge(m, v[k]), [i \in 1..Registers |-> 0], keys)
  IN IF Len(keys) > 1 THEN hllCount(max)
     ELSE IF v[keys[1]] = None THEN hllCount(max) ELSE pfcountCommand(v, keys[1]).v[keys[1]].card

\* Mutant: the destination's own registers are not merged.
MergeSourcesOnly(v, dest, sources) ==
  LET max == FoldLeft(LAMBDA m, k : hllMerge(m, v[k]), [i \in 1..Registers |-> 0], sources)
      o == IF v[dest] = None THEN createHLLObject ELSE v[dest]
  IN [v |-> [v EXCEPT ![dest] = [hllSparseToDense(o) EXCEPT !.reg = max, !.card = <<>>]],
      dirty |-> TRUE]

pfmergeCommand(v, dest, sources) ==
  LET max == FoldLeft(LAMBDA m, k : hllMerge(m, v[k]), [i \in 1..Registers |-> 0], <<dest>> \o sources)
      o == IF v[dest] = None THEN createHLLObject ELSE v[dest]
  IN [v |-> [v EXCEPT ![dest] = [hllSparseToDense(o) EXCEPT !.reg = max, !.card = <<>>]],
      dirty |-> TRUE]

HllInit ==
  /\ hll = [k \in HllKeys |-> None] /\ copy = hll
  /\ added = [k \in HllKeys |-> {}] /\ adds = 0

\* A command changes the value, and the replica executes it if it is dirty.
Perform(command(_)) ==
  /\ adds < MaxAdds
  /\ LET both == [v \in {hll, copy} |-> command(v)]
     IN hll' = both[hll].v /\ copy' = IF both[hll].dirty THEN both[copy].v ELSE copy
  /\ adds' = adds + 1

PfAdd(k, elements) ==
  /\ Perform(LAMBDA v : pfaddCommand(v, k, elements))
  /\ added' = [added EXCEPT ![k] = @ \cup Range(elements)]
PfCount(k) ==
  /\ Perform(LAMBDA v : pfcountCommand(v, k))
  /\ UNCHANGED added
PfMerge(dest, sources) ==
  /\ Perform(LAMBDA v : pfmergeCommand(v, dest, sources))
  /\ added' = [added EXCEPT ![dest] = @ \cup UNION {added[k] : k \in Range(sources)}]

\* An element is a register and a run of zeros.
HllElements == Index \X (1..MaxRegister)

HllNext ==
  \/ \E k \in HllKeys : \E es \in {<<e>> : e \in HllElements}
                                  \cup {<<<<0, 1>>, <<i, ValMaxValue>>>> : i \in Index \ {0}} :
       PfAdd(k, es)
  \/ \E k \in HllKeys : PfCount(k)
  \/ \E d, s \in HllKeys : PfMerge(d, <<s>>)

-------------------------------------------------------------------------------
\* Every register of every value is the longest run among the elements the
\* value stands for, whatever opcodes hold it and however they were split and
\* merged (hllSparseAdd, hllSparseToDense, hllMerge).
RegistersAreMaxima ==
  \A k \in HllKeys : Reg(hll[k]) =
    [i \in 1..Registers |-> Max({e[2] : e \in {x \in added[k] : x[1] = i - 1}} \cup {0})]

\* The opcodes are well formed and cover all the registers, within the bytes
\* that a sparse value may take (the limits of hllSparseAdd).
SparseIsWellFormed ==
  \A k \in HllKeys : hll[k].enc = "sparse" =>
    /\ Len(Expand(hll[k].ops)) = Registers
    /\ Bytes(hll[k].ops) <= SparseMaxBytes
    /\ \A op \in Range(hll[k].ops) :
         /\ op[2] \in 1..(IF op[1] = "val" THEN ValMaxLen
                          ELSE IF op[1] = "zero" THEN ZeroMaxLen ELSE XzeroMaxLen)
         /\ op[1] = "val" => op[3] \in 1..ValMaxValue

\* A cached cardinality is the one of the registers (HLL_INVALIDATE_CACHE).
CacheIsFresh ==
  \A k \in HllKeys : hll[k].card # <<>> => hll[k].card = hllCount(Reg(hll[k]))

\* The replica has the same bytes, the cache included (server.dirty of
\* pfaddCommand, pfcountCommand and pfmergeCommand).
ReplicaHasSameBytes == copy = hll
===============================================================================
