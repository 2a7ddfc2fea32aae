------------------------------ MODULE Archives ------------------------------
(***************************************************************************)
(* Compress and Extract (ops/mod.rs): what the worker of one dispatched    *)
(* operation does to archives and folders, member by member, while the     *)
(* user pauses, resumes, skips, cancels and retries it.  OpsQueue is the   *)
(* queue around it, where an item is one archive step; the condition       *)
(* variable's wake-ups are that module's, here a pause is waited out.      *)
(***************************************************************************)
EXTENDS Naturals, Sequences, FiniteSets, SequencesExt

CONSTANTS
  ArcItems,     \* the operation has items 1..ArcItems
  MembersOf,    \* item -> kinds of what a walk of it meets, the item itself first
  Names,        \* the parts of the paths in an archive
  EntriesOf,    \* item -> entries of the archive it is: [name, kind]
  StemOf,       \* item -> name of that archive without its extension
  Lower,        \* name -> the name in lower case
  UserFolders,  \* <<stem, number>>: folders that are there before
  MaxArcRetries \* bound: retries

ASSUME ArchiveAssumption ==
  /\ ArcItems \in Nat \ {0} /\ MaxArcRetries \in Nat /\ IsFiniteSet(UserFolders) /\ "none" \notin Names
  /\ \A i \in 1..ArcItems :
       /\ MembersOf[i] \in Seq({"file", "dir", "link"})
       /\ EntriesOf[i] \in Seq([name : Seq(Names) \ {<<>>}, kind : {"file", "dir", "link"}])

VARIABLES
  arcKind,   \* "compress" or "extract"
  flags,     \* the fields of OpState that the worker and the user share
  arcPc,     \* where the worker is
  arcItem,   \* the item it works on
  entryAt,   \* the member or entry it works on
  zip,       \* the archive: whose it is, its members and what each holds
  folders,   \* <<stem, number>> -> whose folder it is, and its files
  root,      \* output_root of the extraction under way
  dropped,   \* history: items skipped in this run
  everDropped \* history: items skipped in any run

arcVars == <<arcKind, flags, arcPc, arcItem, entryAt, zip, folders, root, dropped, everDropped>>
arcDisk == <<zip, folders, root>>
arcPlace == <<arcItem, entryAt>>
arcHistory == <<dropped, everDropped>>

Fresh == [status |-> "Active", cancel |-> FALSE, pause |-> FALSE, skip |-> FALSE,
          error |-> FALSE, retries |-> 0]
UserMember == [item |-> 0, at |-> 0, whole |-> TRUE]
UserFile == [path |-> <<"own">>, whole |-> TRUE]
NoRoot == <<"none", 0>>

ArcInit ==
  /\ arcKind \in {"compress", "extract"} /\ flags = Fresh
  /\ arcPc = "top" /\ arcItem = 1 /\ entryAt = 1
  /\ \/ zip = [by |-> "none", members |-> {}]
     \/ arcKind = "compress" /\ zip = [by |-> "user", members |-> {UserMember}]
  /\ folders = [d \in UserFolders |-> [by |-> 0, files |-> {UserFile}]]
  /\ root = NoRoot /\ dropped = {} /\ everDropped = {}

-----------------------------------------------------------------------------
(* The user.                                                               *)

Changes(f) == flags' = f /\ UNCHANGED <<arcKind, arcPc, arcPlace, arcDisk, arcHistory>>

PauseArchive ==
  /\ flags.status = "Active"
  /\ Changes([flags EXCEPT !.pause = TRUE, !.status = "Paused"])
ResumeArchive ==
  /\ flags.status = "Paused"
  /\ Changes([flags EXCEPT !.pause = FALSE, !.status = "Active"])
CancelArchive ==
  /\ flags.status \in {"Active", "Paused"}
  /\ Changes([flags EXCEPT !.skip = FALSE, !.cancel = TRUE, !.pause = FALSE,
                           !.status = "Cancelled"])
SkipArchive ==
  /\ flags.status = "Paused"
  /\ Changes([flags EXCEPT !.skip = TRUE, !.cancel = TRUE, !.pause = FALSE,
                           !.status = "Active"])

\* The failed operation starts again from its first item; what it left stays.
RetryArchive ==
  /\ flags.status = "Failed" /\ arcPc = "off" /\ flags.retries < MaxArcRetries
  /\ flags' = [Fresh EXCEPT !.retries = flags.retries + 1]
  /\ arcPc' = "top" /\ arcItem' = 1 /\ entryAt' = 1 /\ dropped' = {}
  /\ UNCHANGED <<arcKind, arcDisk, everDropped>>

-----------------------------------------------------------------------------
(* The item loop of run_operation.                                         *)

ArcGoes(from, to) == arcPc = from /\ arcPc' = to

ItemSkipped ==
  /\ arcPc \in {"top", "after"} /\ flags.skip /\ arcItem <= ArcItems
  /\ flags' = [flags EXCEPT !.skip = FALSE, !.cancel = FALSE, !.pause = TRUE,
                            !.status = "Paused"]
  /\ arcPc' = "top" /\ arcItem' = arcItem + 1 /\ entryAt' = 1
  /\ dropped' = dropped \cup {arcItem} /\ everDropped' = everDropped \cup {arcItem}
  /\ UNCHANGED <<arcKind, arcDisk>>

NotSkipped ==
  /\ ~flags.skip /\ arcItem <= ArcItems
  /\ ArcGoes("top", "check") \/ ArcGoes("after", "recheck")
  /\ UNCHANGED <<arcKind, flags, arcPlace, arcDisk, arcHistory>>

\* cancel or error_message ends the loop, before an item and after it.
Halts == flags.cancel \/ flags.error
CheckItem ==
  /\ ArcGoes("check", IF Halts THEN "end" ELSE "begin")
  /\ UNCHANGED <<arcKind, flags, arcPlace, arcDisk, arcHistory>>
RecheckItem ==
  /\ ArcGoes("recheck", IF Halts THEN "end" ELSE "top")
  /\ arcItem' = IF Halts THEN arcItem ELSE arcItem + 1
  /\ entryAt' = 1
  /\ UNCHANGED <<arcKind, flags, arcDisk, arcHistory>>

EndArchive ==
  /\ arcPc = "end" \/ (arcPc = "top" /\ arcItem > ArcItems)
  /\ arcPc' = "off"
  /\ flags' = [flags EXCEPT !.status =
       IF flags.cancel THEN "Cancelled" ELSE IF flags.error THEN "Failed" ELSE "Completed"]
  /\ UNCHANGED <<arcKind, arcPlace, arcDisk, arcHistory>>

\* wait_while_paused lets a worker through that is not paused or is cancelled.
Through == ~flags.pause \/ flags.cancel

\* The item's function returns an error, wherever it is.
ItemFails == arcPc' = "after" /\ flags' = [flags EXCEPT !.error = TRUE]

\* Cancelled before the item's function is called: nothing is touched.
Abandoned ==
  /\ arcPc = "begin" /\ flags.cancel /\ arcPc' = "after"
  /\ UNCHANGED <<arcKind, flags, arcPlace, arcDisk, arcHistory>>

Begins(kind) == arcPc = "begin" /\ arcKind = kind /\ Through /\ ~flags.cancel

-----------------------------------------------------------------------------
(* compress_item_with_progress.                                            *)

\* Mutant: whatever archive is there is appended to.
IsLaterAnyway(i) == TRUE
IsLater(i) == i > 1

\* The first item creates the archive, a later one appends to it.
OpenArchive ==
  /\ Begins("compress")
  /\ \/ ItemFails /\ UNCHANGED zip
     \/ /\ zip.by # "none" => IsLater(arcItem)
        /\ zip' = IF zip.by = "none" THEN [by |-> "op", members |-> {}] ELSE zip
        /\ arcPc' = "member" /\ UNCHANGED flags
  /\ UNCHANGED <<arcKind, arcPlace, folders, root, arcHistory>>

MemberHere(whole) == [item |-> arcItem, at |-> entryAt, whole |-> whole]

\* One member: the cancel flag ends the item as if it were done; a name that is
\* in the archive is refused by the writer; a file is started and then copied.
AppendMember ==
  /\ arcPc = "member" /\ entryAt <= Len(MembersOf[arcItem]) /\ Through
  /\ \/ flags.cancel /\ arcPc' = "close" /\ UNCHANGED <<flags, zip, entryAt>>
     \/ ~flags.cancel /\ ItemFails /\ UNCHANGED <<zip, entryAt>>
     \/ /\ ~flags.cancel
        /\ \A m \in zip.members : ~(m.item = arcItem /\ m.at = entryAt)
        /\ LET isFile == MembersOf[arcItem][entryAt] = "file" IN
           /\ zip' = [zip EXCEPT !.members = @ \cup {MemberHere(~isFile)}]
           /\ arcPc' = IF isFile THEN "copy" ELSE "member"
           /\ entryAt' = IF isFile THEN entryAt ELSE entryAt + 1
        /\ UNCHANGED flags
  /\ UNCHANGED <<arcKind, arcItem, folders, root, arcHistory>>

\* The end of the members, and finish of the writer.
AllAppended ==
  /\ ArcGoes("member", "close") /\ entryAt > Len(MembersOf[arcItem])
  /\ UNCHANGED <<arcKind, flags, arcPlace, arcDisk, arcHistory>>
CloseArchive ==
  /\ arcPc = "close"
  /\ ItemFails \/ (arcPc' = "after" /\ UNCHANGED flags)
  /\ UNCHANGED <<arcKind, arcPlace, arcDisk, arcHistory>>

-----------------------------------------------------------------------------
(* extract_item_with_progress.                                             *)

\* unique_archive_directory_path: the first name that is not there.
FreeFolder(stem) ==
  LET free == {n \in 0..Cardinality(DOMAIN folders) : <<stem, n>> \notin DOMAIN folders}
  IN <<stem, CHOOSE n \in free : \A m \in free : n <= m>>

\* The destination, the archive's sizes, the new folder and the archive's
\* directory, in this order; any of them may fail, before the folder or after.
OpenExtraction ==
  /\ Begins("extract")
  /\ \/ ItemFails /\ UNCHANGED <<folders, root>>
     \/ LET d == FreeFolder(StemOf[arcItem]) IN
        /\ folders' = [e \in DOMAIN folders \cup {d} |->
             IF e = d THEN [by |-> arcItem, files |-> {}] ELSE folders[e]]
        /\ root' = d
        /\ ItemFails \/ (arcPc' = "entry" /\ UNCHANGED flags)
  /\ UNCHANGED <<arcKind, arcPlace, zip, arcHistory>>

\* One entry more: a second top-level name, or a file at the top, ends the scan.
LookAt(w, e) ==
  LET first == Head(e.name)
      deep  == Len(e.name) > 1
  IN  IF w.out \/ (w.name # "none" /\ w.name # first) \/ (~deep /\ e.kind # "dir")
      THEN [w EXCEPT !.out = TRUE]
      ELSE [name |-> first, nested |-> w.nested \/ deep, out |-> FALSE]

\* detect_redundant_wrapper_root: the one top-level name of all entries, if it
\* is a folder named like the archive.
Wrapper(entries, stem) ==
  LET Look(w, e) == LookAt(w, e)
      last == FoldLeft(Look, [name |-> "none", nested |-> FALSE, out |-> FALSE], entries)
  IN  IF ~last.out /\ last.nested /\ Lower[last.name] = Lower[stem]
      THEN last.name ELSE "none"

\* strip_wrapper_root.
StripWrapper(name, wrapper) ==
  IF wrapper # "none" /\ Lower[Head(name)] = Lower[wrapper] THEN Tail(name) ELSE name

Entries == EntriesOf[arcItem]
OutputPath(i, at) ==
  StripWrapper(EntriesOf[i][at].name, Wrapper(EntriesOf[i], StemOf[i]))
FileHere(whole) == [path |-> OutputPath(arcItem, entryAt), whole |-> whole]

ExtractEntry ==
  /\ arcPc = "entry" /\ entryAt <= Len(Entries) /\ Through
  /\ \/ flags.cancel /\ arcPc' = "after" /\ UNCHANGED <<flags, folders, entryAt>>
     \/ ~flags.cancel /\ ItemFails /\ UNCHANGED <<folders, entryAt>>
     \/ /\ ~flags.cancel
        /\ LET isFile == Entries[entryAt].kind = "file" IN
           /\ folders' = [folders EXCEPT ![root].files = @ \cup {FileHere(~isFile)}]
           /\ arcPc' = IF isFile THEN "copy" ELSE "entry"
           /\ entryAt' = IF isFile THEN entryAt ELSE entryAt + 1
        /\ UNCHANGED flags
  /\ UNCHANGED <<arcKind, arcItem, zip, root, arcHistory>>

\* After the last entry the modes of the folders are set, without a look at the
\* cancel flag.
SetModes ==
  /\ arcPc = "entry" /\ entryAt > Len(Entries)
  /\ ItemFails \/ (arcPc' = "after" /\ UNCHANGED flags)
  /\ UNCHANGED <<arcKind, arcPlace, arcDisk, arcHistory>>

-----------------------------------------------------------------------------
(* copy_reader_with_progress, into the archive or out of it.               *)

\* A cancelled copy is Ok, with the file cut short; the last chunk makes it whole.
CopyMember ==
  /\ arcPc = "copy" /\ Through
  /\ \/ /\ flags.cancel /\ UNCHANGED <<flags, zip, folders>>
        /\ arcPc' = IF arcKind = "compress" THEN "member" ELSE "entry"
        /\ entryAt' = entryAt + 1
     \/ ~flags.cancel /\ ItemFails /\ UNCHANGED <<zip, folders, entryAt>>
     \/ /\ ~flags.cancel /\ UNCHANGED flags /\ entryAt' = entryAt + 1
        /\ IF arcKind = "compress"
           THEN /\ zip' = [zip EXCEPT !.members = (@ \ {MemberHere(FALSE)}) \cup {MemberHere(TRUE)}]
                /\ arcPc' = "member" /\ UNCHANGED folders
           ELSE /\ folders' = [folders EXCEPT ![root].files =
                                 (@ \ {FileHere(FALSE)}) \cup {FileHere(TRUE)}]
                /\ arcPc' = "entry" /\ UNCHANGED zip
  /\ UNCHANGED <<arcKind, arcItem, root, arcHistory>>

-----------------------------------------------------------------------------
ArcNext ==
  \/ PauseArchive \/ ResumeArchive \/ CancelArchive \/ SkipArchive \/ RetryArchive
  \/ ItemSkipped \/ NotSkipped \/ CheckItem \/ RecheckItem \/ EndArchive \/ Abandoned
  \/ OpenArchive \/ AppendMember \/ AllAppended \/ CloseArchive
  \/ OpenExtraction \/ ExtractEntry \/ SetModes \/ CopyMember

ArcSpec == ArcInit /\ [][ArcNext]_arcVars

-----------------------------------------------------------------------------
(* Properties.                                                             *)

\* A compress reported Completed has every member of every item it did not skip
\* in its archive, whole; a cancelled copy, which returns Ok, is never taken for
\* a complete one, nor a retry's leftovers for this run's work.
ArchiveIsWhole ==
  (flags.status = "Completed" /\ arcKind = "compress") =>
    \A i \in (1..ArcItems) \ dropped : \A at \in DOMAIN MembersOf[i] :
      [item |-> i, at |-> at, whole |-> TRUE] \in zip.members

\* An extract reported Completed has, for every item it did not skip, a folder
\* of its own with every entry, whole, each at a path of its own.
ExtractIsWhole ==
  (flags.status = "Completed" /\ arcKind = "extract") =>
    \A i \in (1..ArcItems) \ dropped : \E d \in DOMAIN folders :
      /\ folders[d].by = i
      /\ \A at \in DOMAIN EntriesOf[i] :
           [path |-> OutputPath(i, at), whole |-> TRUE] \in folders[d].files
      /\ \A at, other \in DOMAIN EntriesOf[i] :
           OutputPath(i, at) = OutputPath(i, other) => at = other

\* Nothing of the user's is changed: no folder that was there is extracted into,
\* and an archive that was there is appended to only by a run that skipped its
\* first item, whose test for it is then never made.
OthersUntouched ==
  /\ \A d \in UserFolders : folders[d] = [by |-> 0, files |-> {UserFile}]
  /\ zip.by = "user" /\ 1 \notin everDropped => zip.members = {UserMember}

\* The scan for a redundant top folder agrees with what it is for: all entries
\* are below one folder, which is named like the archive.
WrapperIsTop(entries, stem) ==
  LET at == DOMAIN entries
      below == \A i \in at : Len(entries[i].name) > 1 \/ entries[i].kind = "dir"
      some == \E i \in at : Len(entries[i].name) > 1
      top == {Head(entries[i].name) : i \in at}
  IN (Wrapper(entries, stem) # "none") =
       (below /\ some /\ Cardinality(top) = 1 /\ \A n \in top : Lower[n] = Lower[stem])

\* What holds in every state of a Compress or an Extract.
ArchiveInv == ArchiveIsWhole /\ ExtractIsWhole /\ OthersUntouched
=============================================================================
