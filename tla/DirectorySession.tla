-------------------------- MODULE DirectorySession --------------------------
(***************************************************************************)
(* Directory sessions (directory_session/): per pane one snapshot of a     *)
(* folder, the view derived from it, and the revisions that name the view. *)
(* Navigations run on executor workers, several at a time; views are       *)
(* revised and ranges read on the main thread; the watch worker folds what *)
(* it re-read into the session.  Every lock region is a step, and so is    *)
(* every read of the folder.                                               *)
(***************************************************************************)
EXTENDS Integers, Sequences, FiniteSets
LOCAL INSTANCE SequencesExt

CONSTANTS
  Panes, Paths,
  Children,       \* children of a folder: numbers, in the order of their names
  MaxVersion,     \* bound: contents of a child are 1..MaxVersion, 0 is absent
  ViewChoices,    \* sort key and filter: [by |-> "name" or "version", hides |-> names]
  PageSize,       \* SESSION_PAGE_SIZE
  FirstContents,  \* contents a folder may have at first
  Navs,           \* calls of begin_navigation: 1..n
  MaxChanges,     \* bound: changes of the disk
  MaxFolds,       \* bound: reports of the watch
  Torn            \* may a folder change while it is read?

ASSUME SessAssumption ==
  /\ Children \subseteq Nat /\ IsFiniteSet(Children) /\ MaxVersion \in Nat /\ PageSize \in Nat \ {0}
  /\ Navs \subseteq Nat \ {0} /\ MaxChanges \in Nat /\ MaxFolds \in Nat
  /\ FirstContents \subseteq [Children -> 0..MaxVersion] /\ Torn \in BOOLEAN /\ ViewChoices # {}

Nobody == 0        \* no reservation
NoSession == [id |-> -1]

VARIABLES
  onDisk,       \* path -> child -> version
  changes,      \* number of changes of the disk so far
  nextId,       \* next_session_id
  reservation,  \* pane -> revision of the navigation under way
  session,      \* pane -> its session
  nav,          \* navigation -> where it is and what it has read
  report,       \* pane -> what its watch worker re-read and has not folded yet
  folds,        \* number of reports so far
  patches,      \* pane -> session patches emitted and not yet consumed
  newestId      \* history: pane -> newest revision ever reserved

sessVars == <<onDisk, changes, nextId, reservation, session, nav, report, folds,
              patches, newestId>>
worldVars == <<onDisk, changes>>
foldVars == <<report, folds, patches>>

NoReport == [path |-> "none"]
NewNav == [at |-> "new"]

SessInit ==
  /\ onDisk \in [Paths -> FirstContents] /\ changes = 0 /\ nextId = 1
  /\ reservation = [p \in Panes |-> Nobody]
  /\ session = [p \in Panes |-> NoSession]
  /\ nav = [n \in Navs |-> NewNav]
  /\ report = [p \in Panes |-> NoReport] /\ folds = 0
  /\ patches = [p \in Panes |-> <<>>] /\ newestId = [p \in Panes |-> Nobody]

-----------------------------------------------------------------------------
(* Views, pages and baselines (view.rs, paging.rs, model.rs).              *)

\* The order of a view's rows: the sort key, then the name.
Before(snapshot, v, m, n) ==
  IF v.by = "version" /\ snapshot[m] # snapshot[n]
  THEN snapshot[m] < snapshot[n] ELSE m < n

\* The rows of a snapshot under a view: filtered and sorted.
Rows(snapshot, v) ==
  LET shown == {n \in Children : snapshot[n] > 0 /\ n \notin v.hides}
      at(i) == CHOOSE n \in shown :
                 Cardinality({m \in shown : Before(snapshot, v, m, n)}) = i - 1
  IN [i \in 1..Cardinality(shown) |-> [name |-> at(i), version |-> snapshot[at(i)]]]

SessionRows(s) == Rows(s.snapshot, s.params)

\* A page past the end is none, except the first page of an empty view.
HasPage(rows, page) == page * PageSize < Len(rows) \/ (page = 0 /\ rows = <<>>)
PageOf(rows, page) ==
  SubSeq(rows, page * PageSize + 1,
         IF (page + 1) * PageSize < Len(rows) THEN (page + 1) * PageSize ELSE Len(rows))

\* Session id and navigation revision are one number.
BaselineOf(s) == [id |-> s.id, watch |-> s.watch, view |-> s.view]

\* get_range: refused unless the baseline is exactly the current one.
Rejection(s, baseline, page) ==
  IF s = NoSession THEN "NoActiveSession"
  ELSE IF baseline.id # s.id THEN "StaleSession"
  ELSE IF baseline.watch # s.watch THEN "StaleWatch"
  ELSE IF baseline.view # s.view THEN "StaleView"
  ELSE IF ~HasPage(SessionRows(s), page) THEN "PageOutOfRange" ELSE "served"

FirstPage(s) == [baseline |-> BaselineOf(s), total |-> Len(SessionRows(s)),
                 rows |-> PageOf(SessionRows(s), 0)]

-----------------------------------------------------------------------------
(* Patches (watch/patch.rs).                                               *)

IndexOf(rows, n) ==
  IF \E i \in DOMAIN rows : rows[i].name = n
  THEN CHOOSE i \in DOMAIN rows : rows[i].name = n ELSE 0
NamesOf(rows) == {rows[i].name : i \in DOMAIN rows}
RowsOf(rows) == {rows[i] : i \in DOMAIN rows}
ChangedNames(old, new) == {r.name : r \in RowsOf(new) \ RowsOf(old)}
RemovedNames(old, new) == NamesOf(old) \ NamesOf(new)
Without1(rows, i) == SubSeq(rows, 1, i - 1) \o SubSeq(rows, i + 1, Len(rows))
NameSeq(rows) == [i \in DOMAIN rows |-> rows[i].name]

\* Mutant: a row that moved is taken for one updated in place.
RowDeltaMoving(old, new, n) ==
  LET was == IndexOf(old, n)  is == IndexOf(new, n) IN
  IF is = 0 THEN [kind |-> "removed", row |-> was]
  ELSE IF was = 0 THEN [kind |-> "inserted", row |-> is, entry |-> new[is]]
  ELSE [kind |-> "updated", row |-> is, entry |-> new[is]]

\* single_row_delta for the one child touched; "replace" when the position is
\* not certain.
RowDelta(old, new, n) ==
  LET was == IndexOf(old, n)  is == IndexOf(new, n)
      replace == [kind |-> "replace"]
  IN IF is = 0
     THEN IF Len(new) + 1 # Len(old) THEN replace ELSE [kind |-> "removed", row |-> was]
     ELSE IF was = 0
     THEN IF Len(new) = Len(old) + 1 /\ NameSeq(Without1(new, is)) = NameSeq(old)
          THEN [kind |-> "inserted", row |-> is, entry |-> new[is]] ELSE replace
     ELSE IF Len(old) = Len(new) /\ was = is
          THEN [kind |-> "updated", row |-> is, entry |-> new[is]] ELSE replace

Classified(old, new) ==
  LET touched == ChangedNames(old, new) \cup RemovedNames(old, new) IN
  IF Cardinality(touched) = 1 THEN RowDelta(old, new, CHOOSE n \in touched : TRUE)
  ELSE [kind |-> "replace"]

\* What a delta says the rows become.
AppliedDelta(d, rows) ==
  CASE d.kind = "removed"  -> Without1(rows, d.row)
    [] d.kind = "inserted" -> SubSeq(rows, 1, d.row - 1) \o <<d.entry>>
                                \o SubSeq(rows, d.row, Len(rows))
    [] d.kind = "updated"  -> [rows EXCEPT ![d.row] = d.entry]

-----------------------------------------------------------------------------
(* The disk.  A change is reported to the captures that are open on the    *)
(* folder, unless its event is still on its way when a capture closes.     *)

Change ==
  /\ changes < MaxChanges /\ changes' = changes + 1
  /\ \E path \in Paths, n \in Children, v \in 0..MaxVersion :
       /\ v # onDisk[path][n] /\ onDisk' = [onDisk EXCEPT ![path][n] = v]
       /\ \E hears \in SUBSET {i \in Navs : nav[i].at \in {"enumerate", "drain"}
                                      /\ nav[i].path = path /\ nav[i].captures} :
            nav' = [i \in Navs |-> IF i \notin hears THEN nav[i]
                      ELSE [nav[i] EXCEPT !.heard = TRUE, !.missed = @ \cup ({n} \ nav[i].unread)]]
  /\ UNCHANGED <<nextId, reservation, session, foldVars, newestId>>

-----------------------------------------------------------------------------
(* begin_navigation.                                                       *)

At(i, from, r) == nav[i].at = from /\ nav' = [nav EXCEPT ![i] = r]

\* The revision is drawn before the lock is taken.
Number(i, p, path, v) ==
  /\ At(i, "new", [at |-> "reserve", pane |-> p, path |-> path, params |-> v, id |-> nextId,
                   captures |-> FALSE, heard |-> FALSE, missed |-> {}, again |-> FALSE,
                   entries |-> [n \in Children |-> 0], unread |-> Children])
  /\ nextId' = nextId + 1
  /\ UNCHANGED <<worldVars, reservation, session, foldVars, newestId>>

\* Mutant: the pane's session is left for the new one to overwrite.
ReserveOnly(i) ==
  /\ At(i, "reserve", [nav[i] EXCEPT !.at = "capture"])
  /\ reservation' = [reservation EXCEPT ![nav[i].pane] = nav[i].id]
  /\ newestId' = [newestId EXCEPT ![nav[i].pane] = IF @ < nav[i].id THEN nav[i].id ELSE @]
  /\ UNCHANGED <<worldVars, nextId, session, foldVars>>

Reserve(i) ==
  /\ At(i, "reserve", [nav[i] EXCEPT !.at = "capture"])
  /\ reservation' = [reservation EXCEPT ![nav[i].pane] = nav[i].id]
  /\ session' = [session EXCEPT ![nav[i].pane] = NoSession]
  /\ newestId' = [newestId EXCEPT ![nav[i].pane] = IF @ < nav[i].id THEN nav[i].id ELSE @]
  /\ UNCHANGED <<worldVars, nextId, foldVars>>

\* Admission refused, or the folder cannot be read: the reservation stays.
NavFails(i) ==
  /\ nav[i].at \in {"capture", "enumerate"}
  /\ nav' = [nav EXCEPT ![i] = [NewNav EXCEPT !.at = "failed"]]
  /\ UNCHANGED <<worldVars, nextId, reservation, session, foldVars, newestId>>

Capture(i) ==
  /\ \E works \in BOOLEAN :
       At(i, "capture", [nav[i] EXCEPT !.at = "enumerate", !.captures = works])
  /\ UNCHANGED <<worldVars, nextId, reservation, session, foldVars, newestId>>

\* The navigation r once it has read the children in part.
PartRead(r, part, folder) ==
  [r EXCEPT !.entries = [n \in Children |-> IF n \in part THEN folder[n] ELSE r.entries[n]],
            !.unread = @ \ part, !.missed = @ \ part,
            !.at = IF r.unread \ part # {} THEN "enumerate"
                   ELSE IF r.again THEN "publish" ELSE "drain"]

\* The folder is read, all at once or, when Torn, child by child.
Enumerate(i) ==
  /\ nav[i].at = "enumerate"
  /\ \E part \in IF Torn THEN {{n} : n \in nav[i].unread} ELSE {nav[i].unread} :
       nav' = [nav EXCEPT ![i] = PartRead(nav[i], part, onDisk[nav[i].path])]
  /\ UNCHANGED <<worldVars, nextId, reservation, session, foldVars, newestId>>

\* Mutant: a capture whose events are all resolved asks for nothing.
DrainTrusting(i) ==
  /\ \E unresolved \in BOOLEAN :
       At(i, "drain",
          IF nav[i].captures /\ unresolved
          THEN [nav[i] EXCEPT !.at = "enumerate", !.again = TRUE, !.captures = FALSE,
                              !.unread = Children]
          ELSE [nav[i] EXCEPT !.at = "publish", !.captures = FALSE])
  /\ UNCHANGED <<worldVars, nextId, reservation, session, foldVars, newestId>>

\* What the capture says when it ends: it heard of a change, or of something it
\* could not resolve to a child.
Raced(r, unresolved) == r.captures /\ (unresolved \/ r.heard)

\* The capture ends here; if anything raced the reading, one more follows.
DrainCapture(i) ==
  /\ \E unresolved \in BOOLEAN :
       At(i, "drain",
          IF Raced(nav[i], unresolved)
          THEN [nav[i] EXCEPT !.at = "enumerate", !.again = TRUE, !.captures = FALSE,
                              !.unread = Children]
          ELSE [nav[i] EXCEPT !.at = "publish", !.captures = FALSE])
  /\ UNCHANGED <<worldVars, nextId, reservation, session, foldVars, newestId>>

Publish(i) ==
  LET p == nav[i].pane
      s == [id |-> nav[i].id, path |-> nav[i].path, watch |-> IF nav[i].again THEN 1 ELSE 0,
            view |-> 0, snapshot |-> nav[i].entries, params |-> nav[i].params]
      mine == reservation[p] = nav[i].id
  IN /\ At(i, "publish", IF mine THEN [at |-> "done", pane |-> p, reply |-> FirstPage(s)]
                         ELSE [at |-> "failed"])
     /\ IF mine THEN /\ session' = [session EXCEPT ![p] = s]
                     /\ reservation' = [reservation EXCEPT ![p] = Nobody]
        ELSE UNCHANGED <<session, reservation>>
     /\ UNCHANGED <<worldVars, nextId, foldVars, newestId>>

NavStep(i) == Reserve(i) \/ NavFails(i) \/ Capture(i) \/ Enumerate(i) \/ DrainCapture(i) \/ Publish(i)

-----------------------------------------------------------------------------
(* The other operations.                                                   *)

\* revise_view of the session the caller knows.
ReviseSession(p, id, v) ==
  /\ session[p].id = id /\ id # NoSession.id
  /\ session' = [session EXCEPT ![p].view = @ + 1, ![p].params = v]

ReleaseSession(p, id) ==
  IF session[p].id = id
  THEN /\ session' = [session EXCEPT ![p] = NoSession]
       /\ reservation' = [reservation EXCEPT ![p] = Nobody]
  ELSE UNCHANGED <<session, reservation>>

\* The watch worker of a tab re-reads the children it was told of (so something
\* has changed); it folds them in a step of its own.
Reread(p) ==
  /\ changes > 0 /\ folds < MaxFolds /\ report[p] = NoReport /\ folds' = folds + 1
  /\ \E path \in Paths, some \in (SUBSET Children) \ {{}} :
       report' = [report EXCEPT ![p] =
         [path |-> path, read |-> [n \in some |-> onDisk[path][n]]]]
  /\ UNCHANGED <<worldVars, nextId, reservation, session, nav, patches, newestId>>

Updated(s, read) ==
  [s EXCEPT !.snapshot = [n \in Children |-> IF n \in DOMAIN read THEN read[n] ELSE @[n]]]

\* apply_watch_mutation: the snapshot takes the report; only a view that differs
\* advances the revisions and sends a patch.
Fold(p) ==
  LET s == session[p]
      u == Updated(s, report[p].read)
      next == [u EXCEPT !.watch = @ + 1, !.view = @ + 1]
      differs == SessionRows(s) # SessionRows(u)
  IN /\ report[p] # NoReport /\ report' = [report EXCEPT ![p] = NoReport]
     /\ IF s = NoSession \/ s.path # report[p].path THEN UNCHANGED <<session, patches>>
        ELSE /\ session' = [session EXCEPT ![p] = IF differs THEN next ELSE u]
             /\ patches' = IF differs
                  THEN [patches EXCEPT ![p] = Append(@, [from |-> BaselineOf(s),
                         to |-> BaselineOf(next), total |-> Len(SessionRows(next)),
                         delta |-> Classified(SessionRows(s), SessionRows(next))])]
                  ELSE patches
     /\ UNCHANGED <<worldVars, nextId, reservation, nav, folds, newestId>>

ServiceStep ==
  \/ Change
  \/ \E i \in Navs : NavStep(i)
  \/ \E p \in Panes : Reread(p) \/ Fold(p)

-----------------------------------------------------------------------------
(* Properties.                                                             *)

SessTypeOK ==
  /\ onDisk \in [Paths -> [Children -> 0..MaxVersion]] /\ changes \in 0..MaxChanges
  /\ nextId \in Nat \ {0} /\ reservation \in [Panes -> Nat]
  /\ \A p \in Panes : session[p] = NoSession \/
       /\ session[p].id \in 1..nextId /\ session[p].path \in Paths
       /\ session[p].snapshot \in [Children -> 0..MaxVersion]
       /\ session[p].params \in ViewChoices

\* While a navigation of a pane is under way the pane has no session that a
\* range, a view or a watch report could still reach, and a release never
\* withdraws the reservation of a newer navigation.
SessionOrNavigation ==
  \A p \in Panes : session[p] = NoSession \/ reservation[p] = Nobody

\* A change that the capture heard of is in the snapshot a navigation publishes,
\* whatever the reading of the folder, child by child, had missed.
CapturedChangeIsRead == \A i \in Navs : nav[i].at = "publish" => nav[i].missed = {}

\* A patch names the baselines it leads from and to, and a delta, applied to the
\* rows of the one, gives the rows of the other.
PatchDescribesChange ==
  [][\A p \in Panes : Len(patches'[p]) > Len(patches[p]) =>
       LET e == Last(patches'[p]) IN
       /\ e.from = BaselineOf(session[p]) /\ e.to = BaselineOf(session'[p])
       /\ e.delta.kind # "replace" =>
            AppliedDelta(e.delta, SessionRows(session[p])) = SessionRows(session'[p])]_sessVars

\* The service says that a slower older enumeration can never publish over the
\* reservation of a newer one.
NewerReservationWins ==
  \A p \in Panes : session[p] # NoSession => session[p].id = newestId[p]

\* What holds in every state: a pane has a session or a navigation, never both.
SessInv == SessTypeOK /\ SessionOrNavigation
=============================================================================
