------------------------------ MODULE FolderTree ------------------------------
(***************************************************************************)
(* The folder-size tree (size/index/tree.rs): one node per directory with  *)
(* the bytes of its own files, its flags, and aggregates over its subtree  *)
(* that every change carries up to the root as a delta.  The arena of      *)
(* nodes, the sorted child lists and the name lookup are a function from   *)
(* directories to nodes.                                                   *)
(***************************************************************************)
EXTENDS Integers, FiniteSets, FiniteSetsExt

CONSTANTS
  Dirs,     \* the directories
  RootDir,  \* the index root
  Above     \* Above[d]: the proper ancestors of d

\* Paths are such a tree: the ancestors of a directory are a chain, and the
\* nearest one, its parent, has the others for ancestors.
ASSUME TreeAssumption ==
  /\ IsFiniteSet(Dirs)
  /\ RootDir \in Dirs /\ Above[RootDir] = {}
  /\ \A d \in Dirs \ {RootDir} :
       /\ RootDir \in Above[d] /\ Above[d] \subseteq Dirs \ {d}
       /\ \E p \in Above[d] : Above[d] = Above[p] \cup {p}

Subtree(d) == {e \in Dirs : e = d \/ d \in Above[e]}
Parent(d) == CHOOSE p \in Above[d] : Above[d] = Above[p] \cup {p}
Children(d) == {e \in Dirs \ {RootDir} : Parent(e) = d}
Drop(T, S) == [d \in DOMAIN T \ S |-> T[d]]

----------------------------------------------------------------------------
(* Deltas.                                                                 *)

Bit(b) == IF b THEN 1 ELSE 0
Waits(flags) == flags \cap {"scanned", "skipped"} = {}

OwnDelta(direct, flags) ==
  [bytes |-> direct, pending |-> Bit(Waits(flags)),
   skipped |-> Bit("skipped" \in flags), denied |-> Bit("denied" \in flags)]

SubtreeDelta(n) ==
  [bytes |-> n.total, pending |-> n.pending, skipped |-> n.skipped, denied |-> n.denied]

NoDelta == [bytes |-> 0, pending |-> 0, skipped |-> 0, denied |-> 0]
Minus(x, y) == [k \in DOMAIN x |-> x[k] - y[k]]

Node(direct, flags, d) ==
  [direct |-> direct, flags |-> flags, total |-> d.bytes,
   pending |-> d.pending, skipped |-> d.skipped, denied |-> d.denied]

Carry(n, d) ==
  [n EXCEPT !.total = @ + d.bytes, !.pending = @ + d.pending,
            !.skipped = @ + d.skipped, !.denied = @ + d.denied]

\* bump: d and every ancestor take the delta.
Tally(T, d, delta) ==
  [e \in DOMAIN T |-> IF e = d \/ e \in Above[d] THEN Carry(T[e], delta) ELSE T[e]]

----------------------------------------------------------------------------
(* The operations.                                                         *)

EmptyTree == [d \in {RootDir} |-> Node(0, {}, OwnDelta(0, {}))]

\* Nodes for S, not yet scanned (child_or_insert of each).
Insert(T, S) ==
  LET new == S \ DOMAIN T
      T1 == [e \in DOMAIN T \cup new |-> IF e \in new THEN Node(0, {}, NoDelta) ELSE T[e]]
  IN FoldSet(LAMBDA e, acc : Tally(acc, e, OwnDelta(0, {})), T1, new)

Ensure(T, d) == Insert(T, Above[d] \cup {d})

\* set_own: new direct bytes and flags; the difference goes up.
SetOwn(T, d, direct, flags) ==
  LET delta == Minus(OwnDelta(direct, flags), OwnDelta(T[d].direct, T[d].flags))
  IN Tally([T EXCEPT ![d].direct = direct, ![d].flags = flags], d, delta)

\* remove: the ancestors lose the subtree's totals once.
RemoveNode(T, d) ==
  LET T1 == IF d = RootDir THEN T ELSE Tally(T, Parent(d), Minus(NoDelta, SubtreeDelta(T[d])))
  IN Drop(T1, Subtree(d))

RemoveAll(T, S) == FoldSet(LAMBDA e, acc : RemoveNode(acc, e), T, S)

\* set_listing: the directory is scanned, children no longer listed go with
\* their subtrees, new ones wait for a scan.
SetListing(T, d, listing) ==
  LET flags == (T[d].flags \cap {"skipped"}) \cup {"scanned"}
                 \cup (IF listing.denied THEN {"denied"} ELSE {})
      T1 == SetOwn(T, d, listing.bytes, flags)
      T2 == RemoveAll(T1, (Children(d) \cap DOMAIN T1) \ listing.subdirs)
  IN Insert(T2, listing.subdirs)

MergeRecord(T, d, listing) == SetListing(Ensure(T, d), d, listing)

\* The children a listing adds to a directory of the tree.
AddedBy(T, d, listing) == listing.subdirs \ DOMAIN T

Prune(T, d) == IF d \in DOMAIN T THEN RemoveNode(T, d) ELSE T

SetSkipped(T, d, on) ==
  LET T1 == IF on THEN Ensure(T, d) ELSE T IN
  IF d \notin DOMAIN T1 THEN T1
  ELSE SetOwn(T1, d, T1[d].direct,
              IF on THEN T1[d].flags \cup {"skipped"} ELSE T1[d].flags \ {"skipped"})

SkipAll(T, S, on) == FoldSet(LAMBDA d, acc : SetSkipped(acc, d, on), T, S)

Waiting(T, d) == Waits(T[d].flags)
FullyIndexed(T, d) == T[d].pending = 0

\* The waiting directories of S with no waiting one of S above them.
Topmost(T, S) ==
  {e \in S : Waiting(T, e) /\ \A f \in Above[e] \cap S : ~Waiting(T, f)}

\* prune_unscanned: what a finished walk of d did not reach is dropped.
PruneUnscanned(T, d) ==
  RemoveAll(T, Topmost(T, (Subtree(d) \cap DOMAIN T) \ {RootDir}))

UnscannedTops(T) == Topmost(T, DOMAIN T)

\* indexed_subtrees_under: the largest fully indexed subtrees below d.
IndexedSubtrees(T, d) ==
  IF d \notin DOMAIN T THEN {}
  ELSE {e \in (Subtree(d) \cap DOMAIN T) \ {d} :
          /\ FullyIndexed(T, e)
          /\ \A f \in (Above[e] \cap Subtree(d)) \ {d} : ~FullyIndexed(T, f)}

\* What each directory owns.
OwnBytes(T) == [d \in DOMAIN T |-> OwnDelta(T[d].direct, T[d].flags).bytes]
OwnPending(T) == [d \in DOMAIN T |-> OwnDelta(T[d].direct, T[d].flags).pending]
OwnSkipped(T) == [d \in DOMAIN T |-> OwnDelta(T[d].direct, T[d].flags).skipped]
OwnDenied(T) == [d \in DOMAIN T |-> OwnDelta(T[d].direct, T[d].flags).denied]

\* export, import_node and finish_import: a snapshot holds what each directory
\* owns, the aggregates are computed again.
Recomputed(T) ==
  LET below(d) == Subtree(d) \cap DOMAIN T IN
  [d \in DOMAIN T |-> Node(T[d].direct, T[d].flags,
     [bytes |-> SumFunctionOnSet(OwnBytes(T), below(d)),
      pending |-> SumFunctionOnSet(OwnPending(T), below(d)),
      skipped |-> SumFunctionOnSet(OwnSkipped(T), below(d)),
      denied |-> SumFunctionOnSet(OwnDenied(T), below(d))])]

\* Every directory of the tree hangs below the root, and the aggregates carried
\* up as deltas are the ones a snapshot would be loaded with.
AggregatesExact(T) ==
  /\ \A d \in DOMAIN T : Above[d] \subseteq DOMAIN T
  /\ T = Recomputed(T)
=============================================================================
