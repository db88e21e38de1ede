---------------------------- MODULE MCStructures ----------------------------
(* The data structures that hold the values, checked side by side: a         *)
(* behaviour is one of a single structure, and the others stay as they start. *)
EXTENDS Integers, Sequences
CONSTANTS Parts
VARIABLES part, d, can_resize, keys, answer, scan, iter, ql, list, opened,
          zl, second, content, content2, rax, map, is, found, zsl, scoreOf,
          hll, copy, added, adds

dvars == <<d, can_resize, keys, answer, scan, iter>>
qvars == <<ql, list, opened>>
zvars == <<zl, second, content, content2>>
rvars == <<rax, map>>
ivars == <<is, found>>
zslvars == <<zsl, scoreOf>>
hllvars == <<hll, copy, added, adds>>

\* Hash values of three bits; tables double at one entry per bucket.
D == INSTANCE Dict WITH
    DictKeys <- {0, 1, 2}, CursorBits <- 3, InitialSize <- 2, EmptyVisits <- 2,
    ForceRatio <- 1, MinFill <- 40

\* Nodes of two entries, depth one compressed.
Q == INSTANCE Quicklist WITH
    ListValues <- {1, 2}, Fill <- 2, Compress <- 1, MinCompress <- 17,
    SizeLimit <- 100, MaxList <- 4

\* Entries of which some need five bytes to tell their length to the next.
Z == INSTANCE Ziplist WITH
    Bodies <- {2, 5, 9}, BigPrevlen <- 8, MaxCount <- 3, MaxEntries <- 4

\* Keys that are prefixes of each other, fork, and make nodes of every shape.
R == INSTANCE Rax WITH
    RaxKeys <- {<<>>, <<1>>, <<1, 1, 2>>, <<1, 2, 1>>, <<1, 1, 1, 1>>, <<2, 1>>},
    Probes <- UNION {[1..n -> 1..2] : n \in 0..3}, RaxValues <- {1, 2}, MaxNodeSize <- 3

\* Values at the limits of one, two and four cells.
I == INSTANCE Intset WITH Ints <- {-40, -3, -1, 0, 1, 7, 90}, Widths <- {1, 2, 4}, Base <- 4

S == INSTANCE Skiplist WITH
    ZSKIPLIST_MAXLEVEL <- 3, ZslElements <- {1, 2, 3}, ZslScores <- {1, 2}

H == INSTANCE Hll WITH
    HllKeys <- {1, 2}, Registers <- 4, MaxRegister <- 3, ValMaxValue <- 2, ValMaxLen <- 2,
    ZeroMaxLen <- 2, XzeroMaxLen <- 4, SparseMaxBytes <- 4, MaxAdds <- 3

StructuresInit ==
  /\ part \in Parts
  /\ D!DInit /\ Q!QInit /\ Z!ZInit /\ R!RInit /\ I!IInit /\ S!ZslInit /\ H!HllInit

StructuresNext ==
  /\ UNCHANGED part
  /\ \/ /\ part = "dict"
        /\ D!DNext
        /\ UNCHANGED <<qvars, zvars, rvars, ivars, zslvars, hllvars>>
     \/ /\ part = "quicklist"
        /\ Q!QNext
        /\ UNCHANGED <<dvars, zvars, rvars, ivars, zslvars, hllvars>>
     \/ /\ part = "ziplist"
        /\ Z!ZNext
        /\ UNCHANGED <<dvars, qvars, rvars, ivars, zslvars, hllvars>>
     \/ /\ part = "rax"
        /\ R!RNext
        /\ UNCHANGED <<dvars, qvars, zvars, ivars, zslvars, hllvars>>
     \/ /\ part = "intset"
        /\ I!INext
        /\ UNCHANGED <<dvars, qvars, zvars, rvars, zslvars, hllvars>>
     \/ /\ part = "skiplist"
        /\ S!ZslNext
        /\ UNCHANGED <<dvars, qvars, zvars, rvars, ivars, hllvars>>
     \/ /\ part = "hll"
        /\ H!HllNext
        /\ UNCHANGED <<dvars, qvars, zvars, rvars, ivars, zslvars>>

StructuresSpec ==
  StructuresInit /\ [][StructuresNext]_<<part, dvars, qvars, zvars, rvars, ivars, zslvars, hllvars>>

-----------------------------------------------------------------------------
(* The properties of the parts, stated in their modules. *)

\* The encodings of a set.  An intset is strictly increasing in an array that has
\* room for exactly its elements.  Every entry of a dict sits once, in the bucket
\* of its hash, in one of the tables, and wherever a rehashing has come every
\* key can be picked at random, a sample as large as the dict has every key, and
\* a safe iterator returns every key that was there throughout exactly once
\* (intsetUpgradeAndAdd, dictGetRandomKey, dictGetSomeKeys, dictNext).  A scan
\* only reads, so every dict is also met while no scan is on.
SetsAreKept ==
  /\ part = "intset" => I!IntsetIsSorted
  /\ part = "dict" => /\ D!DictWellFormed /\ D!IterationIsComplete
                       /\ ~scan.on => D!EveryKeyCanBePicked /\ D!SampleIsComplete

\* dict.c dictScan: "The iterator guarantees all elements present in the
\* dictionary get returned between the start and end of the iteration", for
\* scans during which the table does not shrink.
ScanReturnsAll == part = "dict" => D!ScanReturnsAll

\* The guarantee as dict.c states it, whatever the table does meanwhile.
ScanReturnsAllAlways == part = "dict" => D!ScanReturnsAllAlways

\* The encodings of a list hold its elements in order.  A quicklist does, with
\* the right counters and raw ends, whatever nodes are split, merged, emptied or
\* compressed; a ziplist answers as the plain sequence and can be walked back
\* from its tail after every cascade of longer prefixes (quicklist.c,
\* __ziplistCascadeUpdate).
ListsAreKept ==
  /\ part = "quicklist" => Q!ListIsKept /\ Q!EndsStayRaw
  /\ part = "ziplist" => Z!WalkableBackwards /\ Z!AnswersAsASequence

\* redis.conf "The head and tail of the list are always uncompressed for fast
\* push/pop operations", which quicklistPushHead and quicklistPopCustom rely on.
EndsAreRaw == part = "quicklist" => Q!EndsAreRaw

\* rax.c: through every split and recompression the tree maps exactly the
\* inserted keys to their last values, iterates them in order both ways, and
\* seeking an equal, the next or the same-or-next key finds the right one
\* (raxInsert, raxRemove, raxNext, raxPrev, raxSeek).
RaxIsTheMap == part = "rax" => R!RaxIsTheMap /\ R!RaxIteratesInOrder /\ R!SeekForwards

\* rax.c raxSeek with "<" and "<=": the greatest key before the sought string.
SeekBackwards == part = "rax" => R!SeekBackwards

\* However tall the nodes are and whatever was deleted, alone or as a range,
\* every level of a skiplist is a sublist in order measured by its spans, so
\* that ranks and elements by rank are each other's inverse and the first and
\* last of a range are the ones a search from end to end would find (zslInsert,
\* zslDeleteNode, zslGetRank, zslFirstInRange, zslLastInRange).
SkiplistIsOrdered == part = "skiplist" => S!SkiplistIsOrdered /\ S!SkiplistAnswers

\* Every register is the longest run among the elements the value stands for,
\* whatever well-formed opcodes hold it; a cached cardinality is the one of the
\* registers, and the replica has the same bytes (hllSparseAdd,
\* hllSparseToDense, hllMerge, HLL_INVALIDATE_CACHE, pfcountCommand).
HllIsTheUnion ==
  part = "hll" =>
    H!RegistersAreMaxima /\ H!SparseIsWellFormed /\ H!CacheIsFresh /\ H!ReplicaHasSameBytes

AbstractDict == INSTANCE AbstractSet WITH Elements <- {0, 1, 2}, set <- D!Contents(d)

\* While it rehashes, resizes, is scanned and iterated, the dict answers its
\* callers as a set: every step is one of AbstractSet's or none, and a call,
\* which no scan changes, is the step it asks for (dictAdd, dictDelete,
\* dictFind, dictEmpty).
DictIsASet ==
  /\ AbstractDict!Spec
  /\ [][part = "dict" /\ ~scan.on =>
           \A k \in {0, 1, 2} : /\ D!Add(k) => AbstractDict!Add(k)
                                /\ D!Delete(k) => AbstractDict!Remove(k)
                                /\ D!Find(k) => AbstractDict!Contains(k)]_dvars

AbstractIntset == INSTANCE AbstractSet WITH
    Elements <- {-40, -3, -1, 0, 1, 7, 90}, set <- I!Members(is), answer <- found

\* Whatever upgrades happen, the intset answers its callers as a set, in the
\* same sense (intsetAdd, intsetRemove, intsetFind).
IntsetIsASet ==
  /\ AbstractIntset!Spec
  /\ [][part = "intset" => \A v \in {-40, -3, -1, 0, 1, 7, 90} :
           /\ I!IntsetAdd(v) => AbstractIntset!Add(v)
           /\ I!IntsetRemove(v) => AbstractIntset!Remove(v)
           /\ I!IntsetFind(v) => AbstractIntset!Contains(v)]_ivars
=============================================================================
