------------------------------- MODULE MCStorage -------------------------------
(* The folder size index, the traversals, the registry of volumes and the      *)
(* worker of a Compress or an Extract, which do not call each other in the     *)
(* steps modelled, checked in one run: "active" chooses at first the one that  *)
(* runs, the others rest in one initial state.                                 *)
(* The disk has a root and one folder, which a pane shows and which is also    *)
(* protected by the privacy settings.                                          *)
EXTENDS SizeIndex, FastWalk, VolumeRegistry, Archives

CONSTANT FirstInventory    \* what is mounted while the registry rests

RootAndOne == [d \in Dirs |-> IF d = RootDir THEN {} ELSE {RootDir}]
TwoWalks == [w \in {1, 2} |-> IF w = 1 THEN "top" ELSE "right"]
SmallTree == [d \in {"top", "left", "right"} |-> IF d = "top" THEN {"left", "right"} ELSE {}]

\* A folder with a file in it, and a file; an archive with its own name as the
\* top folder, where a folder of that name is there before, and a flat one.
MembersDef == <<<<"dir", "file">>, <<"file">>>>
EntriesDef ==
  <<<<[name |-> <<"PKG">>, kind |-> "dir"], [name |-> <<"PKG", "a">>, kind |-> "file"]>>,
    <<[name |-> <<"pkg">>, kind |-> "file"], [name |-> <<"b">>, kind |-> "link"]>>>>
StemDef == <<"pkg", "pkg">>
LowerDef == [n \in {"PKG", "pkg", "b"} |-> IF n = "PKG" THEN "pkg" ELSE n]
UserFoldersDef == {<<"pkg", 0>>}

\* Every archive of at most three entries, each a name of one or two parts.
SmallEntries == [name : {<<n>> : n \in DOMAIN LowerDef} \cup
                        {<<n, "x">> : n \in DOMAIN LowerDef},
                 kind : {"file", "dir"}]
ASSUME WrapperAssumption ==
  \A len \in 1..3 : \A entries \in [1..len -> SmallEntries] :
    WrapperIsTop(entries, "pkg")

-----------------------------------------------------------------------------
VARIABLE active

StorageInit ==
  /\ active \in {"index", "registry", "walk", "archive"}
  /\ IndexInit /\ RegistryInit /\ WalkInit /\ ArcInit
  /\ active # "registry" => mounted = FirstInventory
  /\ active # "index" => ix = NewIndex /\ DOMAIN disk = Dirs
  /\ active # "archive" => arcKind = "extract"
StorageNext ==
  \/ active = "index" /\ IndexNext
       /\ UNCHANGED <<active, registryVars, walkVars, arcVars>>
  \/ active = "registry" /\ RegistryNext
       /\ UNCHANGED <<active, indexVars, walkVars, arcVars>>
  \/ active = "walk" /\ WalkNext
       /\ UNCHANGED <<active, indexVars, registryVars, arcVars>>
  \/ active = "archive" /\ ArcNext
       /\ UNCHANGED <<active, indexVars, registryVars, walkVars>>

StorageSpec ==
  /\ StorageInit
  /\ [][StorageNext]_<<active, indexVars, registryVars, walkVars, arcVars>>
=============================================================================
