--------------------------- MODULE ListingSession ---------------------------
(***************************************************************************)
(* The renderer's side of a directory session                              *)
(* (stores/panes/listing-session.ts) composed with the service: the calls  *)
(* in flight between the two, answered in any order, and the patches that  *)
(* are emitted beside them.  A lifecycle token fences late answers.        *)
(***************************************************************************)
EXTENDS DirectorySession
LOCAL INSTANCE SequencesExt

CONSTANTS
  MaxInFlight,     \* MAX_IN_FLIGHT_REQUESTS
  MaxTokens        \* bound: lifecycle tokens of a pane

ASSUME ListingAssumption == MaxInFlight \in Nat \ {0} /\ MaxTokens \in Nat

VARIABLES
  client,    \* pane -> its ListingSession
  calls      \* commands and answers between renderer and service

listVars == <<sessVars, client, calls>>

NoBaseline == [id |-> -1, watch |-> 0, view |-> 0]
PageNumbers == 0..Cardinality(Children)
NoPages == [i \in PageNumbers |-> [loaded |-> FALSE, rows |-> <<>>]]
PageWith(rows) == [loaded |-> TRUE, rows |-> rows]

Fresh == [token |-> 0, status |-> "idle", baseline |-> NoBaseline, pages |-> NoPages,
          total |-> 0, inFlight |-> {}, waiting |-> <<>>]

ListInit == SessInit /\ client = [p \in Panes |-> Fresh] /\ calls = {}

Set(p, c) == client' = [client EXCEPT ![p] = c]
Current(c) == client[c.pane].token = c.token

\* A token per begin, reviseView, release and accepted patch.
Fenced(p) == [client[p] EXCEPT !.token = @ + 1]
Emptied(c) == [c EXCEPT !.inFlight = {}, !.waiting = <<>>, !.pages = NoPages, !.total = 0]

RangeCall(p, c, page) ==
  [kind |-> "range", pane |-> p, token |-> c.token, baseline |-> c.baseline, page |-> page]

-----------------------------------------------------------------------------
(* begin, and the service's answer.                                        *)

Begin(p, i, path, v) ==
  /\ client[p].token < MaxTokens /\ nav[i].at = "new" /\ \A c \in calls : c.kind = "begin" => c.nav # i
  /\ Set(p, [Emptied(Fenced(p)) EXCEPT !.status = "initializing", !.baseline = NoBaseline])
  /\ calls' = calls \cup {[kind |-> "begin", nav |-> i, pane |-> p, path |-> path,
                           params |-> v, token |-> client[p].token + 1]}
  /\ UNCHANGED sessVars

\* An executor worker takes the command up.
BeginServed(c) ==
  /\ c.kind = "begin" /\ Number(c.nav, c.pane, c.path, c.params)
  /\ UNCHANGED <<client, calls>>

\* adoptBeginResponse: a late answer, or one that is behind, is dropped.
AtLeast(old, new) ==
  IF new.id # old.id THEN new.id > old.id ELSE new.watch >= old.watch /\ new.view >= old.view
Adopted(l, reply) ==
  IF l.baseline # NoBaseline /\ ~AtLeast(l.baseline, reply.baseline) THEN l
  ELSE [l EXCEPT !.baseline = reply.baseline, !.status = "ready", !.total = reply.total,
                 !.pages = IF reply.total > 0 THEN [NoPages EXCEPT ![0] = PageWith(reply.rows)] ELSE NoPages]

BeginAnswered(c) ==
  /\ c.kind = "begin" /\ nav[c.nav].at \in {"done", "failed"} /\ calls' = calls \ {c}
  /\ IF ~Current(c) THEN UNCHANGED client
     ELSE Set(c.pane, IF nav[c.nav].at = "failed" THEN [client[c.pane] EXCEPT !.status = "error"]
                      ELSE Adopted(client[c.pane], nav[c.nav].reply))
  /\ UNCHANGED sessVars

-----------------------------------------------------------------------------
(* reviseView.                                                             *)

ReviseView(p, v) ==
  /\ client[p].token < MaxTokens /\ client[p].baseline # NoBaseline
  /\ Set(p, [Fenced(p) EXCEPT !.inFlight = {}, !.waiting = <<>>])
  /\ calls' = calls \cup {[kind |-> "revise", pane |-> p, id |-> client[p].baseline.id,
                           params |-> v, token |-> client[p].token + 1]}
  /\ UNCHANGED sessVars

ReviseServed(c) ==
  LET answer(ok, r) == calls' = (calls \ {c}) \cup
        {[kind |-> "revised", pane |-> c.pane, token |-> c.token, ok |-> ok, reply |-> r]}
  IN /\ c.kind = "revise"
     /\ IF session[c.pane].id = c.id
        THEN ReviseSession(c.pane, c.id, c.params) /\ answer(TRUE, FirstPage(session'[c.pane]))
        ELSE UNCHANGED session /\ answer(FALSE, <<>>)
     /\ UNCHANGED <<worldVars, nextId, reservation, nav, foldVars, newestId, client>>

\* A rejection is dropped without a word.
ReviseAnswered(c) ==
  /\ c.kind = "revised" /\ calls' = calls \ {c}
  /\ IF Current(c) /\ c.ok
     THEN Set(c.pane, Adopted(client[c.pane], c.reply)) ELSE UNCHANGED client
  /\ UNCHANGED sessVars

-----------------------------------------------------------------------------
(* Ranges.                                                                 *)

Loaded(l, page) == l.pages[page].loaded

\* ensurePageLoaded: the listing, and the call it sends.
Ensured(p, l, page) ==
  IF l.status # "ready" \/ page * PageSize >= l.total \/ Loaded(l, page)
     \/ page \in l.inFlight \/ Contains(l.waiting, page)
  THEN [listing |-> l, sent |-> {}]
  ELSE IF Cardinality(l.inFlight) >= MaxInFlight
  THEN [listing |-> [l EXCEPT !.waiting = Append(@, page)], sent |-> {}]
  ELSE [listing |-> [l EXCEPT !.inFlight = @ \cup {page}], sent |-> {RangeCall(p, l, page)}]

NeedPage(p, page) ==
  LET e == Ensured(p, client[p], page) IN
  /\ client[p].baseline # NoBaseline /\ e.listing # client[p]
  /\ Set(p, e.listing) /\ calls' = calls \cup e.sent /\ UNCHANGED sessVars

RangeServed(c) ==
  LET s == session[c.pane]
      verdict == Rejection(s, c.baseline, c.page)
  IN /\ c.kind = "range"
     /\ calls' = (calls \ {c}) \cup
          {[kind |-> "ranged", pane |-> c.pane, token |-> c.token, page |-> c.page,
            baseline |-> c.baseline, verdict |-> verdict,
            total |-> IF verdict = "served" THEN Len(SessionRows(s)) ELSE 0,
            rows |-> IF verdict = "served" THEN PageOf(SessionRows(s), c.page) ELSE <<>>]}
     /\ UNCHANGED <<sessVars, client>>

\* drainQueue: pages that were loaded meanwhile are skipped; then the next
\* waiting page takes the free place.
Drained(p, l) ==
  LET todo == SelectSeq(l.waiting, LAMBDA page : ~Loaded(l, page)) IN
  IF todo = <<>> THEN [listing |-> [l EXCEPT !.waiting = <<>>], sent |-> {}]
  ELSE [listing |-> [l EXCEPT !.waiting = Tail(todo), !.inFlight = @ \cup {Head(todo)}],
        sent |-> {RangeCall(p, l, Head(todo))}]

\* Mutant: an answer is installed whatever baseline it was given under.
Installed(l, c) ==
  [l EXCEPT !.total = c.total, !.pages[c.page] = PageWith(c.rows)]
InstallAlways(l, c) == IF c.verdict # "served" THEN l ELSE Installed(l, c)

Install(l, c) ==
  IF c.verdict # "served" \/ l.baseline # c.baseline THEN l ELSE Installed(l, c)

RangeAnswered(c) ==
  LET l == [client[c.pane] EXCEPT !.inFlight = @ \ {c.page}]
      d == Drained(c.pane, Install(l, c))
  IN /\ c.kind = "ranged"
     /\ IF Current(c) THEN Set(c.pane, d.listing) /\ calls' = (calls \ {c}) \cup d.sent
        ELSE calls' = calls \ {c} /\ UNCHANGED client
     /\ UNCHANGED sessVars

-----------------------------------------------------------------------------
(* Patches and release.                                                    *)

\* A patch of another baseline is ignored; an accepted one empties the pages and
\* pulls the first.  The pages in flight stay noted.
ApplyPatch(p) ==
  LET e == Head(patches[p])
      l == [Fenced(p) EXCEPT !.baseline = e.to, !.pages = NoPages, !.total = e.total]
      first == Ensured(p, l, 0)
  IN /\ patches[p] # <<>> /\ patches' = [patches EXCEPT ![p] = Tail(@)]
     /\ IF client[p].baseline # e.from THEN UNCHANGED <<client, calls>>
        ELSE Set(p, first.listing) /\ calls' = calls \cup first.sent
     /\ UNCHANGED <<worldVars, nextId, reservation, session, nav, report, folds, newestId>>

Release(p) ==
  /\ client[p].token < MaxTokens /\ client[p].status # "idle"
  /\ Set(p, [Emptied(Fenced(p)) EXCEPT !.baseline = NoBaseline, !.status = "idle"])
  /\ calls' = IF client[p].baseline = NoBaseline THEN calls
              ELSE calls \cup {[kind |-> "release", pane |-> p, id |-> client[p].baseline.id]}
  /\ UNCHANGED sessVars
ReleaseServed(c) ==
  /\ c.kind = "release" /\ calls' = calls \ {c} /\ ReleaseSession(c.pane, c.id)
  /\ UNCHANGED <<worldVars, nextId, nav, foldVars, newestId, client>>

-----------------------------------------------------------------------------
ListNext ==
  \/ ServiceStep /\ UNCHANGED <<client, calls>>
  \/ \E p \in Panes :
       \/ \E v \in ViewChoices : ReviseView(p, v) \/ \E i \in Navs, path \in Paths : Begin(p, i, path, v)
       \/ \E page \in PageNumbers : NeedPage(p, page)
       \/ ApplyPatch(p) \/ Release(p)
  \/ \E c \in calls :
       \/ BeginServed(c) \/ BeginAnswered(c) \/ ReviseServed(c) \/ ReviseAnswered(c)
       \/ RangeServed(c) \/ RangeAnswered(c) \/ ReleaseServed(c)

ListSpec == ListInit /\ [][ListNext]_listVars

-----------------------------------------------------------------------------
(* Properties.                                                             *)

\* What a pane shows under the session's current baseline is the session's
\* view, page by page: no answer, revision or patch that overtook another one
\* leaves rows of another view behind.
ShownIsSessionView ==
  \A p \in Panes : LET l == client[p] IN
    l.baseline # NoBaseline /\ session[p] # NoSession /\ l.baseline = BaselineOf(session[p]) =>
      /\ l.total = Len(SessionRows(session[p]))
      /\ \A i \in PageNumbers : Loaded(l, i) => l.pages[i].rows = PageOf(SessionRows(session[p]), i)

\* ensurePageLoaded says that waiting pages are drained as the requests in
\* flight complete: a page noted as in flight has a request that will be heard.
InFlightIsAwaited ==
  \A p \in Panes : \A page \in client[p].inFlight :
    \E c \in calls : c.kind \in {"range", "ranged"} /\ c.pane = p /\ c.page = page /\ Current(c)

\* Once every call is answered and every patch consumed, a pane that shows a
\* session shows its current view.
SettledIsCurrent ==
  calls = {} /\ (\A p \in Panes : patches[p] = <<>>) =>
    \A p \in Panes : client[p].status = "ready" /\ session[p].id = client[p].baseline.id
      => client[p].baseline = BaselineOf(session[p])
=============================================================================
