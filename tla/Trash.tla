-------------------------------- MODULE Trash --------------------------------
(***************************************************************************)
(* The Trash of macOS (trash/mod.rs, macos_adapter.rs, macos_bin.rs,       *)
(* manifest.rs).  The system moves items and names them; the program looks *)
(* into the home Trash before and after, infers which entry is which       *)
(* source, and keeps the origins in a manifest that every command loads,   *)
(* edits in memory and writes back.  Commands that browse the Trash        *)
(* exclude each other; a deletion is keyed by its first path and runs      *)
(* beside them and beside other deletions.                                 *)
(***************************************************************************)
EXTENDS Naturals, Sequences, FiniteSets, SequencesExt

CONSTANTS
  Items,         \* files, by device and file number
  HomePaths,     \* paths on the volume of the home Trash
  FarPaths,      \* paths on another volume, which has a Trash of its own
  TrashNames,    \* names in the home Trash
  FileName,      \* path -> its last component, a member of TrashNames
  Look,          \* item -> what its metadata shows besides its identity
  Placements,    \* where the items may be at first
  TrashCalls,    \* commands
  DeleteBatches, \* lists of paths to delete
  Selections,    \* lists of names to restore or to purge
  MaxStays       \* bound: how often one item gets into the home Trash

Nowhere == "nowhere"
Lost    == "lost"      \* purged, or in another volume's Trash
FilePaths == HomePaths \cup FarPaths

ASSUME TrashAssumption ==
  /\ IsFiniteSet(TrashNames) /\ MaxStays \in Nat /\ Nowhere \notin Items
  /\ {Nowhere, Lost} \cap (FilePaths \cup TrashNames) = {} /\ FilePaths \cap TrashNames = {}
  /\ FileName \in [FilePaths -> TrashNames]
  /\ \A first \in Placements :
       /\ first \in [Items -> FilePaths \cup TrashNames \cup {Lost}]
       /\ \A i, j \in Items : first[i] = first[j] /\ first[i] # Lost => i = j
  /\ DeleteBatches \subseteq Seq(FilePaths) \ {<<>>} /\ Selections \subseteq Seq(TrashNames)

\* A manifest: name -> origin, with the stay it is about (history).
NoEntry   == [from |-> Nowhere, item |-> Nowhere, stay |-> 0, sure |-> FALSE]
NoEntries == [n \in TrashNames |-> NoEntry]
NoRecords == [n \in TrashNames |-> Nowhere]

\* list is what is left to do, did the names done; facts and before are what
\* a deletion saw first, moved the facts of what it moved and found its
\* correlations; read is the manifest as loaded, txn as edited.
Unasked ==
  [step |-> "no", kind |-> "none", key |-> Nowhere, list |-> <<>>, did |-> {},
   facts |-> <<>>, before |-> {}, moved |-> <<>>, found |-> {},
   read |-> NoEntries, txn |-> NoEntries, back |-> NoRecords]

VARIABLES
  place,     \* item -> path, name in the home Trash, or Lost
  manifest,  \* .axopane-trash-manifest.json
  temp,      \* its .tmp, of which there is one for all writers
  putBack,   \* .DS_Store: what Finder recorded
  tcall,     \* command -> how far it is
  from,      \* history: item -> the path it was trashed from last
  stays,     \* history: item -> how often it got into the home Trash
  recorded,  \* history: the stays whose origin was ever in the manifest
  excused,   \* history: names whose entry a race, an error or Finder spoiled
  astray     \* history: items ever restored elsewhere than they came from

trashHistory == <<from, stays, recorded, excused, astray>>
trashVars == <<place, manifest, temp, putBack, tcall, trashHistory>>

TrashInit ==
  /\ place \in Placements /\ manifest = NoEntries /\ temp = <<>>
  /\ putBack = NoRecords /\ tcall = [c \in TrashCalls |-> Unasked]
  /\ from = [i \in Items |-> Nowhere] /\ stays = [i \in Items |-> 0]
  /\ recorded = {} /\ excused = {} /\ astray = {}

Vacant(where)  == \A i \in Items : place[i] # where
Holder(where)  == CHOOSE i \in Items : place[i] = where
Contents       == {n \in TrashNames : ~Vacant(n)}
Does(c, kinds, step) == tcall[c].kind \in kinds /\ tcall[c].step = step
Outside        == UNCHANGED <<place, putBack, from, stays, astray>>
Sidecar        == UNCHANGED <<manifest, temp, recorded>>

-----------------------------------------------------------------------------
(* A command begins when the executor admits its key.                      *)

FirstStep ==
  [move |-> "survey", list |-> "look", restore |-> "load", empty |-> "look",
   purge |-> "work"]

Begin(c, kind, list) ==
  LET key == IF kind = "move" THEN list[1] ELSE "trash" IN
  /\ tcall[c].step = "no"
  /\ \A d \in TrashCalls : tcall[d].key # key \/ tcall[d].step = "done"
  /\ tcall' = [tcall EXCEPT ![c] = [Unasked EXCEPT !.step = FirstStep[kind],
                                      !.kind = kind, !.key = key, !.list = list]]
  /\ Outside /\ Sidecar /\ UNCHANGED excused

\* An error is returned at once: what was done is not written back.
GiveUp(c) ==
  /\ tcall' = [tcall EXCEPT ![c].step = "done"]
  /\ excused' = excused \cup tcall[c].did
  /\ Outside /\ Sidecar

-----------------------------------------------------------------------------
(* Deleting (macos_adapter.rs).                                            *)

Survey(c) ==
  /\ Does(c, {"move"}, "survey")
  /\ tcall' = [tcall EXCEPT ![c].step = "before", ![c].facts =
       [p \in {p \in ToSet(tcall[c].list) : ~Vacant(p)} |-> Holder(p)]]
  /\ Outside /\ Sidecar /\ UNCHANGED excused

\* A look that fails has seen an empty Trash.
Looks == {Contents, {}}

Before(c) ==
  /\ Does(c, {"move"}, "before")
  /\ \E seen \in Looks :
       tcall' = [tcall EXCEPT ![c].step = "work", ![c].before = seen]
  /\ Outside /\ Sidecar /\ UNCHANGED excused

\* The system keeps the name of the file when it is free.
Landings(p) ==
  IF Vacant(FileName[p]) THEN {FileName[p]} ELSE {n \in TrashNames : Vacant(n)}

Bin(i, p, n) ==
  /\ stays[i] < MaxStays /\ place' = [place EXCEPT ![i] = n]
  /\ from' = [from EXCEPT ![i] = p] /\ stays' = [stays EXCEPT ![i] = @ + 1]
  /\ UNCHANGED astray

\* The system moves what is at the path now, or fails and leaves it.
DeleteOne(c) ==
  LET p == Head(tcall[c].list) f == tcall[c].facts IN
  /\ Does(c, {"move"}, "work") /\ tcall[c].list # <<>>
  /\ \/ /\ tcall' = [tcall EXCEPT ![c].list = Tail(@)] /\ Outside
     \/ /\ p \in DOMAIN f /\ ~Vacant(p)
        /\ tcall' = [tcall EXCEPT ![c].list = Tail(@),
                       ![c].moved = Append(@, [path |-> p, item |-> f[p]])]
        /\ UNCHANGED putBack
        /\ \/ p \in HomePaths /\ \E n \in Landings(p) : Bin(Holder(p), p, n)
           \/ /\ p \in FarPaths /\ place' = [place EXCEPT ![Holder(p)] = Lost]
              /\ UNCHANGED <<from, stays, astray>>
  /\ Sidecar /\ UNCHANGED excused

\* Whose metadata agree, the name included.
Alike(source, n) ==
  n = FileName[source.path] /\ Look[Holder(n)] = Look[source.item]

\* The identity decides when exactly one new entry has it, else the metadata.
Matches(source, candidates) ==
  LET same == {n \in candidates : Holder(n) = source.item} IN
  IF Cardinality(same) = 1 THEN same
  ELSE {n \in candidates : Alike(source, n)}

\* One source more: exactly one of the new entries left must match it.
Correlated(new, found, source) ==
  LET m == Matches(source, new \ {e.name : e \in found})
      n == CHOOSE n \in m : TRUE
  IN  IF Cardinality(m) # 1 THEN found
      ELSE found \cup {[name |-> n, entry |->
             [from |-> source.path, item |-> Holder(n), stay |-> stays[Holder(n)],
              sure |-> Holder(n) = source.item]]}

Correlate(new, sources) ==
  LET Add(found, source) == Correlated(new, found, source)
  IN  FoldLeft(Add, {}, sources)

After(c) ==
  /\ Does(c, {"move"}, "work") /\ tcall[c].list = <<>>
  /\ \E seen \in Looks :
       LET found == Correlate(seen \ tcall[c].before, tcall[c].moved) IN
       tcall' = [tcall EXCEPT ![c].step = IF found = {} THEN "done" ELSE "load",
                              ![c].found = found]
  /\ Outside /\ Sidecar /\ UNCHANGED excused

-----------------------------------------------------------------------------
(* Browsing (macos_bin.rs).  list and empty read the directory first.      *)

ReadDir(c) ==
  /\ Does(c, {"list", "empty"}, "look")
  /\ tcall' = [tcall EXCEPT ![c].step = "load", ![c].list = SetToSeq(Contents)]
  /\ Outside /\ Sidecar /\ UNCHANGED excused

Origin(index, n) ==
  IF index.txn[n] # NoEntry THEN index.txn[n].from ELSE index.back[n]

\* Only the manifest decides what a purge or a record edits at once.
Edited(c) ==
  CASE tcall[c].kind = "move" ->
         [n \in TrashNames |->
            IF \E e \in tcall[c].found : e.name = n
            THEN (CHOOSE e \in tcall[c].found : e.name = n).entry ELSE manifest[n]]
    [] tcall[c].kind = "purge" ->
         [n \in TrashNames |-> IF n \in tcall[c].did THEN NoEntry ELSE manifest[n]]
    [] OTHER -> manifest

AfterLoad ==
  [move |-> "write", purge |-> "write", restore |-> "work", empty |-> "work",
   list |-> "listed"]

\* Mutant: the transaction starts from nothing.
LoadNothing(c) ==
  /\ tcall[c].step = "load"
  /\ tcall' = [tcall EXCEPT ![c].step = AfterLoad[tcall[c].kind],
       ![c].read = manifest, ![c].back = putBack, ![c].txn =
         [n \in TrashNames |-> IF Edited(c)[n] = manifest[n] THEN NoEntry ELSE Edited(c)[n]]]
  /\ Outside /\ Sidecar /\ UNCHANGED excused

Load(c) ==
  /\ tcall[c].step = "load"
  /\ tcall' = [tcall EXCEPT ![c].step = AfterLoad[tcall[c].kind],
                 ![c].read = manifest, ![c].txn = Edited(c), ![c].back = putBack]
  /\ Outside /\ Sidecar /\ UNCHANGED excused

Return(c) ==
  /\ tcall[c].step = "listed" /\ tcall' = [tcall EXCEPT ![c].step = "done"]
  /\ Outside /\ Sidecar /\ UNCHANGED excused

\* An item leaves the home Trash; Finder's records follow what is there.
TakeOut(n, where) ==
  /\ place' = [place EXCEPT ![Holder(n)] = where]
  /\ putBack' = [putBack EXCEPT ![n] = Nowhere] /\ UNCHANGED <<from, stays>>

\* No known origin, something at the target or a failing rename ends it.
RestoreOne(c) ==
  LET n == Head(tcall[c].list) o == Origin(tcall[c], n) IN
  /\ Does(c, {"restore"}, "work") /\ tcall[c].list # <<>>
  /\ \/ GiveUp(c)
     \/ /\ ~Vacant(n) /\ o # Nowhere /\ Vacant(o)
        /\ TakeOut(n, o)
        /\ astray' = IF o = from[Holder(n)] THEN astray ELSE astray \cup {Holder(n)}
        /\ tcall' = [tcall EXCEPT ![c].list = Tail(@), ![c].did = @ \cup {n},
                                  ![c].txn[n] = NoEntry]
        /\ Sidecar /\ UNCHANGED excused

RemoveOne(c) ==
  LET n == Head(tcall[c].list) IN
  /\ Does(c, {"empty", "purge"}, "work") /\ tcall[c].list # <<>>
  /\ \/ GiveUp(c)
     \/ /\ ~Vacant(n) /\ TakeOut(n, Lost) /\ UNCHANGED astray
        /\ tcall' = [tcall EXCEPT ![c].list = Tail(@), ![c].did = @ \cup {n}]
        /\ Sidecar /\ UNCHANGED excused

\* A restore writes what it changed, empty clears, a purge loads only now.
WorkDone(c) ==
  /\ Does(c, {"restore", "empty", "purge"}, "work") /\ tcall[c].list = <<>>
  /\ tcall' = [tcall EXCEPT
       ![c].step = CASE tcall[c].kind = "purge" -> "load"
                     [] tcall[c].kind = "empty" -> "write"
                     [] OTHER -> IF tcall[c].txn = tcall[c].read THEN "done" ELSE "write",
       ![c].txn = IF tcall[c].kind = "empty" THEN NoEntries ELSE @]
  /\ excused' = excused \cup {n \in tcall[c].did :
       tcall[c].kind = "restore" /\ manifest[n] # tcall[c].read[n]}
  /\ Outside /\ Sidecar

-----------------------------------------------------------------------------
(* The commit: write_json_atomic.                                          *)

WriteTemp(c) ==
  /\ tcall[c].step = "write" /\ tcall' = [tcall EXCEPT ![c].step = "rename"]
  /\ temp' = <<tcall[c].txn>>
  /\ Outside /\ UNCHANGED <<manifest, recorded, excused>>

About(e, n) == e # NoEntry /\ place[e.item] = n /\ stays[e.item] = e.stay

\* History: what another writer changed since and is now undone, what this one
\* changed and is not written, what it clears unseen or records too late.
Spoiled(c, new) ==
  LET t == tcall[c] IN
  {n \in TrashNames :
     \/ new[n] # manifest[n] /\ manifest[n] # t.read[n]
     \/ new[n] # t.txn[n]
     \/ (t.kind = "empty" \/ n \in t.did) /\ ~Vacant(n)
     \/ \E e \in t.found : e.name = n /\ ~About(e.entry, n)}

\* Another writer's rename may have taken the temporary file away.
Rename(c) ==
  LET t == tcall[c] IN
  /\ t.step = "rename" /\ tcall' = [tcall EXCEPT ![c].step = "done"]
  /\ Outside
  /\ \/ /\ temp # <<>> /\ manifest' = temp[1] /\ temp' = <<>>
        /\ excused' = excused \cup Spoiled(c, temp[1])
        /\ recorded' = recorded \cup
             {[item |-> temp[1][n].item, stay |-> temp[1][n].stay] :
                n \in {n \in TrashNames : temp[1][n] # NoEntry}}
     \/ /\ temp = <<>> /\ UNCHANGED <<manifest, temp, recorded>>
        /\ excused' = excused \cup t.did \cup {n \in TrashNames : t.txn[n] # t.read[n]}

-----------------------------------------------------------------------------
(* Finder.                                                                 *)

FinderDeletes(i) ==
  /\ place[i] \in HomePaths
  /\ \E n \in Landings(place[i]) :
       /\ Bin(i, place[i], n) /\ putBack' = [putBack EXCEPT ![n] = place[i]]
  /\ Sidecar /\ UNCHANGED <<tcall, excused>>

FinderTakesOut(n) ==
  /\ ~Vacant(n) /\ TakeOut(n, Lost) /\ excused' = excused \cup {n}
  /\ Sidecar /\ UNCHANGED <<tcall, astray>>

-----------------------------------------------------------------------------

Command(c) ==
  \/ \E b \in DeleteBatches : Begin(c, "move", b)
  \/ \E s \in Selections : Begin(c, "restore", s) \/ Begin(c, "purge", s)
  \/ Begin(c, "list", <<>>) \/ Begin(c, "empty", <<>>)
  \/ Survey(c) \/ Before(c) \/ DeleteOne(c) \/ After(c)
  \/ ReadDir(c) \/ Load(c) \/ Return(c) \/ RestoreOne(c) \/ RemoveOne(c) \/ WorkDone(c)
  \/ WriteTemp(c) \/ Rename(c)

TrashNext ==
  \/ \E c \in TrashCalls : Command(c)
  \/ \E i \in Items : FinderDeletes(i)
  \/ \E n \in TrashNames : FinderTakesOut(n)

TrashSpec == TrashInit /\ [][TrashNext]_trashVars

-----------------------------------------------------------------------------
(* Properties.                                                             *)

\* What a listing reports as the origin of an item is where it came from, if
\* its entry was matched by identity: whatever has stood at the path since it was
\* surveyed, unless a restore once put the item somewhere else.
ListedIsTrue ==
  \A c \in TrashCalls : tcall[c].step = "listed" =>
    \A n \in ToSet(tcall[c].list) :
      LET e == tcall[c].txn[n] IN
      (e.sure /\ About(e, n) /\ e.item \notin astray) => e.from = from[e.item]

\* An origin once written stays in the manifest as long as its item stays in
\* the Trash: the other commands' edits keep the entries they do not mean.
EntryKept ==
  \A r \in recorded :
    (place[r.item] \in TrashNames \ excused /\ stays[r.item] = r.stay)
      => About(manifest[place[r.item]], place[r.item])

\* Between commands no entry outlives its item, or the next item of that name
\* would inherit its origin.
EntryEnds ==
  (\A c \in TrashCalls : tcall[c].step \in {"no", "done"}) =>
    \A n \in TrashNames \ excused : manifest[n] = NoEntry \/ About(manifest[n], n)

TrashInv == ListedIsTrue /\ EntryKept /\ EntryEnds

\* As macos_adapter.rs says it: metadata decide only when they identify exactly
\* one source and one candidate, so no entry ever names a false origin.
NeverGuesses ==
  \A n \in TrashNames :
    About(manifest[n], n) => manifest[n].from = from[manifest[n].item]
=============================================================================
