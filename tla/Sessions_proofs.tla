-------------------------- MODULE Sessions_proofs --------------------------
(***************************************************************************)
(* Proofs about the directory sessions and the panes that show them        *)
(* (DirectorySession, ListingSession), for any number of panes, folders,   *)
(* navigations and calls in flight, any page size and any view.            *)
(*                                                                         *)
(* SessionCore is the inductive invariant of the service: what each        *)
(* navigation holds, that no two under way have one number, and what a     *)
(* navigation that missed a change still has to read.  Carried extends it  *)
(* to the panes: whatever names a baseline - a pane, a call, an answer, a  *)
(* patch - names one the session has passed or has now, and then says of   *)
(* its view what the session says.                                         *)
(***************************************************************************)
EXTENDS ListingSession, FiniteSetTheorems, SequenceTheorems, TLAPS
LOCAL INSTANCE SequencesExt

Stages == {"reserve", "capture", "enumerate", "drain", "publish"}
Contents == [Children -> 0..MaxVersion]
NavRecords ==
  [at : Stages, pane : Panes, path : Paths, params : ViewChoices, id : Nat \ {0},
   captures : BOOLEAN, heard : BOOLEAN, missed : SUBSET Children, again : BOOLEAN,
   entries : Contents, unread : SUBSET Children]
Sessions ==
  [id : Nat \ {0}, path : Paths, watch : Nat, view : Nat, snapshot : Contents,
   params : ViewChoices]
Reports == [path : Paths, read : UNION {[some -> 0..MaxVersion] : some \in SUBSET Children}]

UnderWay(i) == nav[i].at \in Stages

CoreTypes ==
  /\ onDisk \in [Paths -> Contents] /\ changes \in 0..MaxChanges /\ nextId \in Nat \ {0}
  /\ reservation \in [Panes -> Nat]
  /\ session \in [Panes -> Sessions \cup {NoSession}]
  /\ report \in [Panes -> Reports \cup {NoReport}]
  /\ DOMAIN nav = Navs
  /\ \A i \in Navs : nav[i].at \in Stages \cup {"new", "failed", "done"}
  /\ \A i \in Navs : UnderWay(i) => nav[i] \in NavRecords

\* The numbers of navigations and sessions are drawn before they are used, and
\* each is drawn once.
Numbered ==
  /\ \A i \in Navs : UnderWay(i) => nav[i].id < nextId
  /\ \A i, j \in Navs : UnderWay(i) /\ UnderWay(j) /\ nav[i].id = nav[j].id => i = j
  /\ \A p \in Panes : session[p] # NoSession => session[p].id < nextId

\* What a navigation missed so far: a capture has heard of it, or the second
\* reading has still to come to it.
Reading(i) ==
  UnderWay(i) =>
    /\ nav[i].at \in {"reserve", "capture"} => nav[i].missed = {} /\ ~nav[i].again
    /\ nav[i].at \in {"enumerate", "drain"} /\ ~nav[i].again /\ nav[i].missed # {}
         => nav[i].captures /\ nav[i].heard
    /\ nav[i].at = "enumerate" /\ nav[i].again
         => nav[i].missed \subseteq nav[i].unread /\ ~nav[i].captures
    /\ nav[i].at = "drain" => ~nav[i].again
    /\ nav[i].at = "publish" => nav[i].missed = {}

\* What the renderer's commands ask for.
CallTypes ==
  \A c \in calls :
    /\ c.pane \in Panes
    /\ c.kind = "begin" => c.nav \in Navs /\ c.path \in Paths /\ c.params \in ViewChoices
    /\ c.kind = "revise" => c.params \in ViewChoices

SessionCore ==
  /\ CoreTypes /\ Numbered /\ SessionOrNavigation /\ CallTypes
  /\ \A i \in Navs : Reading(i)

-----------------------------------------------------------------------------
(* The service's steps keep SessionCore.                                   *)

\* At first nothing is under way.
LEMMA CoreInit == ListInit => SessionCore
<1> SUFFICES ASSUME ListInit PROVE SessionCore
  OBVIOUS
<1> USE DEF ListInit, SessInit
<1>1. \A i \in Navs : nav[i].at = "new"
  BY DEF NewNav
<1>2. CoreTypes
  BY <1>1, SessAssumption DEF CoreTypes, Contents, UnderWay, Stages, NewNav, Nobody
<1>3. Numbered /\ SessionOrNavigation /\ CallTypes /\ \A i \in Navs : Reading(i)
  BY <1>1 DEF Numbered, SessionOrNavigation, CallTypes, Reading, UnderWay, Stages
<1> QED
  BY <1>2, <1>3 DEF SessionCore

\* A change of the disk: only captures that are open hear of it.
LEMMA CoreChange ==
  ASSUME SessionCore, Change, UNCHANGED <<client, calls>>
  PROVE  /\ SessionCore' /\ UNCHANGED <<nextId, session, patches>>
         /\ \A i \in Navs : nav'[i] = nav[i] \/
              (UnderWay(i) /\ nav'[i].at = nav[i].at /\ nav'[i].id = nav[i].id
               /\ nav'[i].pane = nav[i].pane)
<1> USE SessAssumption
<1>t. CoreTypes /\ Numbered /\ \A i \in Navs : Reading(i)
  BY DEF SessionCore
<1>1. PICK path \in Paths, n \in Children, v \in 0..MaxVersion :
        /\ onDisk' = [onDisk EXCEPT ![path][n] = v]
        /\ \E hears \in SUBSET {i \in Navs : nav[i].at \in {"enumerate", "drain"}
                                      /\ nav[i].path = path /\ nav[i].captures} :
            nav' = [i \in Navs |-> IF i \notin hears THEN nav[i]
                      ELSE [nav[i] EXCEPT !.heard = TRUE, !.missed = @ \cup ({n} \ nav[i].unread)]]
  BY DEF Change
<1>2. PICK hears \in SUBSET {i \in Navs : nav[i].at \in {"enumerate", "drain"}
                                      /\ nav[i].path = path /\ nav[i].captures} :
        nav' = [i \in Navs |-> IF i \notin hears THEN nav[i]
                  ELSE [nav[i] EXCEPT !.heard = TRUE, !.missed = @ \cup ({n} \ nav[i].unread)]]
  BY <1>1
<1>3. UNCHANGED <<nextId, reservation, session, report>> /\ changes' \in 0..MaxChanges
  <2>1. UNCHANGED <<nextId, reservation, session, report>>
    BY DEF Change, foldVars
  <2>2. changes < MaxChanges /\ changes' = changes + 1
    BY DEF Change
  <2> QED
    BY <2>1, <2>2, <1>t DEF CoreTypes
<1>4. onDisk' \in [Paths -> Contents]
  BY <1>1, <1>t DEF CoreTypes, Contents
<1>5. \A i \in Navs : i \notin hears => nav'[i] = nav[i]
  BY <1>2
<1>6. ASSUME NEW i \in Navs, i \in hears
      PROVE  /\ nav[i] \in NavRecords /\ UnderWay(i) /\ nav'[i] \in NavRecords
             /\ nav'[i].at = nav[i].at /\ nav'[i].id = nav[i].id /\ nav[i].captures
             /\ nav'[i].captures = nav[i].captures /\ nav'[i].heard
             /\ nav'[i].again = nav[i].again /\ nav'[i].unread = nav[i].unread
             /\ nav[i].at \in {"enumerate", "drain"} /\ nav'[i].pane = nav[i].pane
  <2>1. nav[i].at \in {"enumerate", "drain"} /\ nav[i].captures
    BY <1>6
  <2>2. UnderWay(i) /\ nav[i] \in NavRecords
    BY <2>1, <1>t DEF CoreTypes, UnderWay, Stages
  <2>3. nav'[i] = [nav[i] EXCEPT !.heard = TRUE, !.missed = @ \cup ({n} \ nav[i].unread)]
    BY <1>2, <1>6
  <2>4. nav[i].missed \cup ({n} \ nav[i].unread) \in SUBSET Children
    BY <2>2 DEF NavRecords
  <2>5. nav'[i] = [nav[i] EXCEPT !.heard = TRUE, !.missed = nav[i].missed \cup ({n} \ nav[i].unread)]
    BY <2>3
  <2>6. PICK m \in SUBSET Children : nav'[i] = [nav[i] EXCEPT !.heard = TRUE, !.missed = m]
    BY <2>4, <2>5
  <2>7. nav'[i] \in NavRecords
    BY <2>2, <2>6, ZenonT(40) DEF NavRecords
  <2> QED
    BY <2>1, <2>2, <2>6, <2>7 DEF NavRecords
<1>7. DOMAIN nav' = Navs
  BY <1>2
<1>8. CoreTypes'
  BY <1>t, <1>3, <1>4, <1>5, <1>6, <1>7 DEF CoreTypes, UnderWay
<1>9. Numbered'
  <2>1. \A j \in Navs : UnderWay(j)' => UnderWay(j) /\ nav'[j].id = nav[j].id
    BY <1>5, <1>6 DEF UnderWay
  <2> QED
    BY <2>1, <1>t, <1>3 DEF Numbered
<1>10. ASSUME NEW i \in Navs PROVE Reading(i)'
  <2>1. Reading(i)
    BY <1>t
  <2>2. CASE i \notin hears
    BY <2>1, <2>2, <1>5 DEF Reading, UnderWay
  <2>3. CASE i \in hears
    BY <2>1, <2>3, <1>6 DEF Reading, UnderWay, Stages
  <2> QED
    BY <2>2, <2>3
<1>11. SessionOrNavigation'
  BY <1>3 DEF SessionCore, SessionOrNavigation
<1>12. CallTypes'
  BY DEF SessionCore, CallTypes
<1>13. UNCHANGED patches
  BY DEF Change, foldVars
<1> QED
  BY <1>3, <1>5, <1>6, <1>8, <1>9, <1>10, <1>11, <1>12, <1>13 DEF SessionCore

\* What is asked of a step of one navigation that leaves the pane's session and
\* its reservation alone.
NavMoves(i) ==
  /\ DOMAIN nav' = Navs /\ \A j \in Navs \ {i} : nav'[j] = nav[j]
  /\ nav'[i].at \in Stages \cup {"failed"} /\ UnderWay(i)
  /\ nav'[i].at \in Stages =>
       nav'[i] \in NavRecords /\ nav'[i].id = nav[i].id /\ nav'[i].pane = nav[i].pane
  /\ Reading(i)'
  /\ UNCHANGED <<onDisk, changes, nextId, reservation, session, report, patches, calls>>

LEMMA CoreNavMoves ==
  ASSUME SessionCore, NEW i \in Navs, NavMoves(i) PROVE SessionCore'
<1>t. CoreTypes /\ Numbered /\ \A j \in Navs : Reading(j)
  BY DEF SessionCore
<1>1. CoreTypes'
  BY <1>t DEF CoreTypes, NavMoves, UnderWay
<1>2. Numbered'
  BY <1>t DEF Numbered, NavMoves, UnderWay
<1>3. ASSUME NEW j \in Navs PROVE Reading(j)'
  <2>1. CASE j = i
    BY <2>1 DEF NavMoves
  <2>2. CASE j # i
    BY <2>2, <1>t DEF NavMoves, Reading, UnderWay
  <2> QED
    BY <2>1, <2>2
<1>4. SessionOrNavigation' /\ CallTypes'
  BY DEF SessionCore, SessionOrNavigation, CallTypes, NavMoves
<1> QED
  BY <1>1, <1>2, <1>3, <1>4 DEF SessionCore

\* A navigation that fails leaves its reservation.
LEMMA CoreNavFails ==
  ASSUME SessionCore, NEW i \in Navs, NavFails(i), UNCHANGED <<client, calls>>
  PROVE  SessionCore' /\ NavMoves(i)
<1>0. [NewNav EXCEPT !.at = "failed"] = [at |-> "failed"]
  BY DEF NewNav
<1>1. nav' = [nav EXCEPT ![i] = [at |-> "failed"]]
  BY <1>0 DEF NavFails
<1>2. nav'[i].at = "failed" /\ DOMAIN nav' = Navs /\ \A j \in Navs \ {i} : nav'[j] = nav[j]
  BY <1>1 DEF SessionCore, CoreTypes
<1>3. NavMoves(i)
  BY <1>2 DEF NavMoves, NavFails, Reading, UnderWay, Stages, worldVars, foldVars
<1> QED
  BY <1>3, CoreNavMoves

\* The capture opens, or does not work.
LEMMA CoreCapture ==
  ASSUME SessionCore, NEW i \in Navs, Capture(i), UNCHANGED <<client, calls>>
  PROVE  SessionCore' /\ NavMoves(i)
<1>1. PICK works \in BOOLEAN :
        nav' = [nav EXCEPT ![i] = [nav[i] EXCEPT !.at = "enumerate", !.captures = works]]
  BY DEF Capture, At
<1>2. nav[i].at = "capture" /\ UnderWay(i) /\ nav[i] \in NavRecords /\ Reading(i) /\ DOMAIN nav = Navs
  BY DEF Capture, At, SessionCore, CoreTypes, UnderWay, Stages
<1>3. nav'[i] = [nav[i] EXCEPT !.at = "enumerate", !.captures = works]
  BY <1>1, <1>2
<1>4. nav'[i] \in NavRecords /\ nav'[i].at = "enumerate" /\ nav'[i].id = nav[i].id
        /\ nav'[i].missed = nav[i].missed /\ nav'[i].again = nav[i].again
        /\ nav'[i].pane = nav[i].pane
  BY <1>2, <1>3 DEF NavRecords, Stages
<1>5. DOMAIN nav' = Navs /\ \A j \in Navs \ {i} : nav'[j] = nav[j]
  BY <1>1, <1>2
<1>6. Reading(i)'
  BY <1>2, <1>4 DEF Reading, UnderWay
<1>7. NavMoves(i)
  BY <1>2, <1>4, <1>5, <1>6 DEF NavMoves, Capture, Stages, worldVars, foldVars
<1> QED
  BY <1>7, CoreNavMoves

\* A part of the folder is read: what was missed in it is missed no more.
LEMMA CoreEnumerate ==
  ASSUME SessionCore, NEW i \in Navs, Enumerate(i), UNCHANGED <<client, calls>>
  PROVE  SessionCore' /\ NavMoves(i)
<1>1. nav[i].at = "enumerate" /\ UnderWay(i) /\ nav[i] \in NavRecords /\ Reading(i) /\ DOMAIN nav = Navs
  BY DEF Enumerate, SessionCore, CoreTypes, UnderWay, Stages
<1>2. PICK part \in IF Torn THEN {{n} : n \in nav[i].unread} ELSE {nav[i].unread} :
        nav' = [nav EXCEPT ![i] = PartRead(nav[i], part, onDisk[nav[i].path])]
  BY DEF Enumerate
<1> DEFINE r == nav[i]
           s == nav'[i]
           folder == onDisk[r.path]
           found == [n \in Children |-> IF n \in part THEN folder[n] ELSE r.entries[n]]
           to == IF r.unread \ part # {} THEN "enumerate" ELSE IF r.again THEN "publish" ELSE "drain"
<1>3. s = PartRead(r, part, folder)
  BY <1>1, <1>2
<1>4. folder \in Contents
  BY <1>1 DEF SessionCore, CoreTypes, NavRecords
<1>5. found \in Contents
  BY <1>1, <1>4 DEF NavRecords, Contents
<1>6. /\ s \in NavRecords /\ s.id = r.id /\ s.at = to /\ s.pane = r.pane
      /\ s.missed = r.missed \ part /\ s.unread = r.unread \ part
      /\ s.again = r.again /\ s.captures = r.captures /\ s.heard = r.heard
  <2>1. s = [r EXCEPT !.entries = found, !.unread = r.unread \ part,
                      !.missed = r.missed \ part, !.at = to]
    BY <1>1, <1>3 DEF PartRead, NavRecords
  <2>2. to \in Stages /\ r.unread \ part \in SUBSET Children /\ r.missed \ part \in SUBSET Children
    BY <1>1 DEF NavRecords, Stages
  <2> HIDE DEF found, to
  <2> QED
    BY <1>1, <1>5, <2>1, <2>2, ZenonT(40) DEF NavRecords
<1>7. DOMAIN nav' = Navs /\ \A j \in Navs \ {i} : nav'[j] = nav[j]
  BY <1>1, <1>2
<1>8. Reading(i)'
  BY <1>1, <1>6 DEF Reading, UnderWay
<1>9. NavMoves(i)
  BY <1>1, <1>6, <1>7, <1>8 DEF NavMoves, Enumerate, Stages, worldVars, foldVars
<1> QED
  BY <1>9, CoreNavMoves

\* The capture ends: what was missed and heard of is read again.
LEMMA CoreDrain ==
  ASSUME SessionCore, NEW i \in Navs, DrainCapture(i), UNCHANGED <<client, calls>>
  PROVE  SessionCore' /\ NavMoves(i)
<1>1. nav[i].at = "drain" /\ UnderWay(i) /\ nav[i] \in NavRecords /\ Reading(i) /\ DOMAIN nav = Navs
  BY DEF DrainCapture, At, SessionCore, CoreTypes, UnderWay, Stages
<1>2. PICK unresolved \in BOOLEAN :
        nav' = [nav EXCEPT ![i] =
          IF Raced(nav[i], unresolved)
          THEN [nav[i] EXCEPT !.at = "enumerate", !.again = TRUE, !.captures = FALSE,
                              !.unread = Children]
          ELSE [nav[i] EXCEPT !.at = "publish", !.captures = FALSE]]
  BY DEF DrainCapture, At
<1>3. DOMAIN nav' = Navs /\ \A j \in Navs \ {i} : nav'[j] = nav[j]
  BY <1>1, <1>2
<1>4. nav'[i] \in NavRecords /\ nav'[i].id = nav[i].id /\ Reading(i)' /\ nav'[i].pane = nav[i].pane
  <2>1. CASE Raced(nav[i], unresolved)
    <3>1. nav'[i] = [nav[i] EXCEPT !.at = "enumerate", !.again = TRUE, !.captures = FALSE,
                                   !.unread = Children]
      BY <1>1, <1>2, <2>1
    <3> QED
      BY <1>1, <3>1 DEF NavRecords, Stages, Reading, UnderWay
  <2>2. CASE ~Raced(nav[i], unresolved)
    <3>1. nav'[i] = [nav[i] EXCEPT !.at = "publish", !.captures = FALSE]
      BY <1>1, <1>2, <2>2
    <3>2. nav[i].missed = {}
      BY <1>1, <2>2 DEF Reading, Raced
    <3> QED
      BY <1>1, <3>1, <3>2 DEF NavRecords, Stages, Reading, UnderWay
  <2> QED
    BY <2>1, <2>2
<1>5. NavMoves(i)
  BY <1>1, <1>3, <1>4 DEF NavMoves, DrainCapture, NavRecords, worldVars, foldVars
<1> QED
  BY <1>5, CoreNavMoves

\* What is asked of a step that leaves the navigations alone, may give a pane a
\* revised session, or none, and may end a reservation with the session.
SessionMoves ==
  /\ UNCHANGED <<onDisk, changes, nextId, nav>>
  /\ report' \in [Panes -> Reports \cup {NoReport}] /\ CallTypes'
  /\ reservation' \in [Panes -> Nat] /\ session' \in [Panes -> Sessions \cup {NoSession}]
  /\ \A p \in Panes :
       /\ session'[p] = NoSession
            \/ (session[p] # NoSession /\ session'[p].id = session[p].id
                /\ reservation'[p] = reservation[p])

LEMMA CoreSessionMoves ==
  ASSUME SessionCore, SessionMoves PROVE SessionCore'
<1>1. CoreTypes' /\ Numbered' /\ SessionOrNavigation' /\ \A j \in Navs : Reading(j)'
  BY DEF SessionCore, SessionMoves, CoreTypes, Numbered, SessionOrNavigation, Reading, UnderWay
<1> QED
  BY <1>1 DEF SessionCore, SessionMoves

\* A navigation draws its number.
LEMMA CoreNumber ==
  ASSUME SessionCore, NEW c \in calls, BeginServed(c)
  PROVE  /\ SessionCore' /\ UNCHANGED <<session, patches, client, calls>>
         /\ nextId \in Nat /\ nextId' = nextId + 1
         /\ c.kind = "begin" /\ c.nav \in Navs /\ nav[c.nav].at = "new"
         /\ nav'[c.nav].at = "reserve" /\ nav'[c.nav].id = nextId /\ nav'[c.nav].pane = c.pane
         /\ \A j \in Navs \ {c.nav} : nav'[j] = nav[j]
<1> DEFINE i == c.nav
           r == [at |-> "reserve", pane |-> c.pane, path |-> c.path, params |-> c.params,
                 id |-> nextId, captures |-> FALSE, heard |-> FALSE, missed |-> {},
                 again |-> FALSE, entries |-> [n \in Children |-> 0], unread |-> Children]
<1>t. CoreTypes /\ Numbered /\ \A j \in Navs : Reading(j)
  BY DEF SessionCore
<1>1. /\ i \in Navs /\ c.pane \in Panes /\ c.path \in Paths /\ c.params \in ViewChoices
      /\ nav[i].at = "new" /\ nav' = [nav EXCEPT ![i] = r] /\ nextId' = nextId + 1
      /\ UNCHANGED <<onDisk, changes, reservation, session, report, calls>>
  BY DEF BeginServed, Number, At, SessionCore, CallTypes, worldVars, foldVars
<1>2. r \in NavRecords
  <2>1. [n \in Children |-> 0] \in Contents
    BY SessAssumption DEF Contents
  <2>2. nextId \in Nat \ {0}
    BY <1>t DEF CoreTypes
  <2> QED
    BY <1>1, <2>1, <2>2 DEF NavRecords, Stages
<1>3. /\ nav'[i] = r /\ r.id = nextId /\ r.at = "reserve" /\ r.missed = {} /\ ~r.again
      /\ r.pane = c.pane
      /\ DOMAIN nav' = Navs /\ \A j \in Navs \ {i} : nav'[j] = nav[j]
  BY <1>1, <1>t DEF CoreTypes
<1> HIDE DEF i, r
<1>4. nextId \in Nat /\ nextId' \in Nat \ {0}
  BY <1>1, <1>t DEF CoreTypes
<1>5. CoreTypes'
  BY <1>1, <1>2, <1>3, <1>4, <1>t DEF CoreTypes, UnderWay, Stages
<1>6. Numbered'
  <2>1. \A j \in Navs : UnderWay(j)' =>
          \/ j = i /\ nav'[j].id = nextId
          \/ j # i /\ UnderWay(j) /\ nav'[j].id = nav[j].id /\ nav[j].id < nextId
               /\ nav[j].id \in Nat
    BY <1>3, <1>t DEF UnderWay, Numbered, CoreTypes, NavRecords
  <2>2. \A j, k \in Navs : UnderWay(j)' /\ UnderWay(k)' /\ nav'[j].id = nav'[k].id => j = k
    BY <2>1, <1>4, <1>t DEF Numbered
  <2>3. \A p \in Panes : session[p] # NoSession => session[p].id \in Nat /\ session[p].id < nextId
    BY <1>t DEF CoreTypes, Sessions, Numbered
  <2> QED
    BY <2>1, <2>2, <2>3, <1>1, <1>4 DEF Numbered
<1>7. ASSUME NEW j \in Navs PROVE Reading(j)'
  BY <1>3, <1>t DEF Reading, UnderWay
<1>8. SessionOrNavigation' /\ CallTypes'
  BY <1>1 DEF SessionCore, SessionOrNavigation, CallTypes
<1>9. UNCHANGED <<patches, client>> /\ c.kind = "begin"
  BY DEF BeginServed, Number, foldVars
<1> QED
  BY <1>1, <1>3, <1>4, <1>5, <1>6, <1>7, <1>8, <1>9 DEF SessionCore, i

\* The pane's session ends and the reservation is the navigation's.
LEMMA CoreReserve ==
  ASSUME SessionCore, NEW i \in Navs, Reserve(i), UNCHANGED <<client, calls>>
  PROVE  /\ SessionCore' /\ UNCHANGED <<nextId, patches>> /\ UnderWay(i)
         /\ nav'[i].at = "capture" /\ nav'[i].id = nav[i].id /\ nav'[i].pane = nav[i].pane
         /\ \A j \in Navs \ {i} : nav'[j] = nav[j]
         /\ \A p \in Panes : session'[p] = NoSession \/ session'[p] = session[p]
<1>t. CoreTypes /\ Numbered /\ \A j \in Navs : Reading(j)
  BY DEF SessionCore
<1>1. nav[i].at = "reserve" /\ UnderWay(i) /\ nav[i] \in NavRecords /\ nav[i].pane \in Panes /\ nav[i].id \in Nat
  BY <1>t DEF Reserve, At, CoreTypes, UnderWay, Stages, NavRecords
<1>2. /\ nav' = [nav EXCEPT ![i] = [nav[i] EXCEPT !.at = "capture"]]
      /\ reservation' = [reservation EXCEPT ![nav[i].pane] = nav[i].id]
      /\ session' = [session EXCEPT ![nav[i].pane] = NoSession]
      /\ UNCHANGED <<onDisk, changes, nextId, report, patches, calls>>
  BY DEF Reserve, At, worldVars, foldVars
<1>3. /\ nav'[i] = [nav[i] EXCEPT !.at = "capture"] /\ DOMAIN nav' = Navs
      /\ \A j \in Navs \ {i} : nav'[j] = nav[j]
  BY <1>2, <1>t DEF CoreTypes
<1>4. /\ nav'[i] \in NavRecords /\ nav'[i].at = "capture" /\ nav'[i].id = nav[i].id
      /\ nav'[i].missed = nav[i].missed /\ nav'[i].again = nav[i].again
      /\ nav'[i].pane = nav[i].pane
  BY <1>1, <1>3 DEF NavRecords, Stages
<1>5. reservation' \in [Panes -> Nat] /\ session' \in [Panes -> Sessions \cup {NoSession}]
  BY <1>1, <1>2, <1>t DEF CoreTypes
<1>6. \A p \in Panes : session'[p] = NoSession \/ (session'[p] = session[p] /\ reservation'[p] = reservation[p])
  BY <1>1, <1>2, <1>t DEF CoreTypes
<1>7. CoreTypes'
  BY <1>1, <1>2, <1>3, <1>4, <1>5, <1>t DEF CoreTypes, UnderWay, Stages
<1>8. Numbered'
  BY <1>1, <1>2, <1>3, <1>4, <1>6, <1>t DEF Numbered, UnderWay
<1>9. ASSUME NEW j \in Navs PROVE Reading(j)'
  <2>1. CASE j = i
    BY <2>1, <1>1, <1>4, <1>t DEF Reading, UnderWay
  <2>2. CASE j # i
    BY <2>2, <1>3, <1>t DEF Reading, UnderWay
  <2> QED
    BY <2>1, <2>2
<1>10. SessionOrNavigation' /\ CallTypes'
  BY <1>2, <1>6 DEF SessionCore, SessionOrNavigation, CallTypes
<1> QED
  BY <1>1, <1>2, <1>3, <1>4, <1>6, <1>7, <1>8, <1>9, <1>10 DEF SessionCore

\* Only the navigation that holds the reservation publishes, and gives it up.
LEMMA CorePublish ==
  ASSUME SessionCore, NEW i \in Navs, Publish(i), UNCHANGED <<client, calls>>
  PROVE  /\ SessionCore'
         /\ nav[i].at = "publish" /\ nav'[i].at \in {"done", "failed"}
         /\ \A j \in Navs \ {i} : nav'[j] = nav[j]
         /\ UNCHANGED <<nextId, patches>>
         /\ \A p \in Panes : session'[p] = session[p]
              \/ (session'[p] # NoSession /\ session'[p].id = nav[i].id
                  /\ p = nav[i].pane /\ nav'[i].at = "done")
         /\ nav'[i].at = "done" =>
              /\ session'[nav[i].pane] # NoSession /\ session'[nav[i].pane].id = nav[i].id
              /\ nav'[i].pane = nav[i].pane /\ nav[i].pane \in Panes
              /\ nav'[i].reply = FirstPage(session'[nav[i].pane])
<1> DEFINE p == nav[i].pane
           new == [id |-> nav[i].id, path |-> nav[i].path,
                   watch |-> IF nav[i].again THEN 1 ELSE 0, view |-> 0,
                   snapshot |-> nav[i].entries, params |-> nav[i].params]
           mine == reservation[p] = nav[i].id
<1>t. CoreTypes /\ Numbered /\ \A j \in Navs : Reading(j)
  BY DEF SessionCore
<1>1. nav[i].at = "publish" /\ UnderWay(i) /\ nav[i] \in NavRecords /\ p \in Panes /\ nav[i].id \in Nat \ {0}
  BY <1>t DEF Publish, At, CoreTypes, UnderWay, Stages, NavRecords
<1>2. new \in Sessions /\ new # NoSession /\ new.id = nav[i].id
  <2>1. (IF nav[i].again THEN 1 ELSE 0) \in Nat
    OBVIOUS
  <2>2. new \in Sessions /\ new.id = nav[i].id
    BY <1>1, <2>1 DEF Sessions, NavRecords
  <2>3. NoSession.id = -1
    BY DEF NoSession
  <2> QED
    BY <2>2, <2>3, <1>1
<1>3. /\ nav' = [nav EXCEPT ![i] = IF mine THEN [at |-> "done", pane |-> p, reply |-> FirstPage(new)]
                                   ELSE [at |-> "failed"]]
      /\ UNCHANGED <<onDisk, changes, nextId, report, patches, calls>>
      /\ mine => session' = [session EXCEPT ![p] = new] /\ reservation' = [reservation EXCEPT ![p] = Nobody]
      /\ ~mine => UNCHANGED <<session, reservation>>
  BY DEF Publish, At, worldVars, foldVars
<1> HIDE DEF new
<1>4. /\ nav'[i].at \in {"done", "failed"} /\ DOMAIN nav' = Navs
      /\ \A j \in Navs \ {i} : nav'[j] = nav[j]
      /\ mine => nav'[i].at = "done" /\ nav'[i].pane = p /\ nav'[i].reply = FirstPage(new)
      /\ ~mine => nav'[i].at = "failed"
  BY <1>3, <1>t DEF CoreTypes
<1>5. reservation' \in [Panes -> Nat] /\ session' \in [Panes -> Sessions \cup {NoSession}]
  BY <1>1, <1>2, <1>3, <1>t DEF CoreTypes, Nobody
<1>6. \A q \in Panes : (session'[q] = session[q] /\ reservation'[q] = reservation[q])
                       \/ (mine /\ q = p /\ session'[q] = new /\ reservation'[q] = Nobody)
  BY <1>1, <1>3, <1>t DEF CoreTypes
<1>7. CoreTypes'
  BY <1>3, <1>4, <1>5, <1>t DEF CoreTypes, UnderWay, Stages
<1>8. Numbered'
  <2>1. nav[i].id < nextId
    BY <1>1, <1>t DEF Numbered
  <2>2. \A j \in Navs : UnderWay(j)' => j # i /\ UnderWay(j) /\ nav'[j] = nav[j]
    BY <1>4 DEF UnderWay, Stages
  <2> QED
    BY <2>1, <2>2, <1>2, <1>3, <1>6, <1>t DEF Numbered
<1>9. ASSUME NEW j \in Navs PROVE Reading(j)'
  <2>1. CASE j = i
    BY <2>1, <1>4 DEF Reading, UnderWay, Stages
  <2>2. CASE j # i
    BY <2>2, <1>4, <1>t DEF Reading, UnderWay
  <2> QED
    BY <2>1, <2>2
<1>10. SessionOrNavigation' /\ CallTypes'
  BY <1>3, <1>6 DEF SessionCore, SessionOrNavigation, CallTypes
<1>11. SessionCore'
  BY <1>7, <1>8, <1>9, <1>10 DEF SessionCore
<1>12. nav'[i].at = "done" => mine /\ session'[p] = new
  BY <1>1, <1>3, <1>4, <1>t DEF CoreTypes
<1> QED
  BY <1>1, <1>2, <1>3, <1>4, <1>6, <1>11, <1>12

\* The watch worker reads some children again.
LEMMA CoreReread ==
  ASSUME SessionCore, NEW p \in Panes, Reread(p), UNCHANGED <<client, calls>>
  PROVE  SessionCore'
<1>t. CoreTypes
  BY DEF SessionCore
<1>1. PICK path \in Paths, some \in (SUBSET Children) \ {{}} :
        report' = [report EXCEPT ![p] = [path |-> path, read |-> [n \in some |-> onDisk[path][n]]]]
  BY DEF Reread
<1>2. [n \in some |-> onDisk[path][n]] \in [some -> 0..MaxVersion]
  BY <1>t DEF CoreTypes, Contents
<1>3. [path |-> path, read |-> [n \in some |-> onDisk[path][n]]] \in Reports
  BY <1>2 DEF Reports
<1>4. report' \in [Panes -> Reports \cup {NoReport}]
  BY <1>1, <1>3, <1>t DEF CoreTypes
<1>5. SessionMoves
  BY <1>4, <1>t DEF SessionMoves, Reread, worldVars, CoreTypes, SessionCore, CallTypes
<1> QED
  BY <1>5, CoreSessionMoves

\* What the watch worker folds into a session: the session with a new snapshot,
\* and with new revisions when its view differs.
LEMMA FoldedSession ==
  ASSUME SessionCore, NEW p \in Panes, Fold(p)
  PROVE  \/ UNCHANGED <<session, patches>>
         \/ \E u \in Sessions :
              /\ session[p] \in Sessions /\ session[p] # NoSession /\ u.id = session[p].id
              /\ u.watch = session[p].watch /\ u.view = session[p].view
              /\ SessionRows(session[p]) = SessionRows(u)
              /\ session' = [session EXCEPT ![p] = u] /\ UNCHANGED patches
         \/ \E u \in Sessions : \E d :
              /\ session[p] \in Sessions /\ session[p] # NoSession /\ u.id = session[p].id
              /\ u.watch = session[p].watch + 1 /\ u.view = session[p].view + 1
              /\ session' = [session EXCEPT ![p] = u]
              /\ patches' = [patches EXCEPT ![p] = Append(@, [from |-> BaselineOf(session[p]),
                         to |-> BaselineOf(u), total |-> Len(SessionRows(u)), delta |-> d])]
<1> DEFINE s == session[p]
           u == Updated(s, report[p].read)
           v == [u EXCEPT !.watch = @ + 1, !.view = @ + 1]
<1>t. CoreTypes
  BY DEF SessionCore
<1>1. CASE s = NoSession \/ s.path # report[p].path
  BY <1>1 DEF Fold
<1>2. CASE ~(s = NoSession \/ s.path # report[p].path)
  <2>1. s \in Sessions /\ s # NoSession /\ report[p] \in Reports
    BY <1>2, <1>t DEF CoreTypes, Fold
  <2>2. [n \in Children |-> IF n \in DOMAIN report[p].read THEN report[p].read[n] ELSE s.snapshot[n]]
          \in Contents
    BY <2>1 DEF Reports, Sessions, Contents
  <2>3. u \in Sessions /\ u.id = s.id /\ u.watch = s.watch /\ u.view = s.view
    BY <2>1, <2>2 DEF Updated, Sessions
  <2>4. /\ session' = [session EXCEPT ![p] = IF SessionRows(s) # SessionRows(u) THEN v ELSE u]
        /\ patches' = IF SessionRows(s) # SessionRows(u)
                  THEN [patches EXCEPT ![p] = Append(@, [from |-> BaselineOf(s),
                         to |-> BaselineOf(v), total |-> Len(SessionRows(v)),
                         delta |-> Classified(SessionRows(s), SessionRows(v))])]
                  ELSE patches
    BY <1>2 DEF Fold
  <2> HIDE DEF u
  <2>5. v \in Sessions /\ v.id = s.id /\ v.watch = s.watch + 1 /\ v.view = s.view + 1
    <3>1. u.watch + 1 \in Nat /\ u.view + 1 \in Nat
      BY <2>3 DEF Sessions
    <3>2. PICK m \in Nat, n \in Nat : m = u.watch + 1 /\ n = u.view + 1 /\ v = [u EXCEPT !.watch = m, !.view = n]
      BY <3>1
    <3>3. v \in Sessions /\ v.id = u.id /\ v.watch = m /\ v.view = n
      BY <2>3, <3>2 DEF Sessions
    <3> QED
      BY <2>3, <3>2, <3>3
  <2> HIDE DEF v
  <2>6. CASE SessionRows(s) = SessionRows(u)
    BY <2>1, <2>3, <2>4, <2>6
  <2>7. CASE SessionRows(s) # SessionRows(u)
    <3> DEFINE d == Classified(SessionRows(s), SessionRows(v))
    <3> HIDE DEF d
    <3>1. patches' = [patches EXCEPT ![p] = Append(@, [from |-> BaselineOf(s),
                         to |-> BaselineOf(v), total |-> Len(SessionRows(v)), delta |-> d])]
      BY <2>4, <2>7 DEF d
    <3>2. session' = [session EXCEPT ![p] = v]
      BY <2>4, <2>7
    <3> QED
      BY <2>1, <2>5, <3>1, <3>2
  <2> QED
    BY <2>6, <2>7
<1> QED
  BY <1>1, <1>2

\* A report is folded: the session keeps its number.
LEMMA CoreFold ==
  ASSUME SessionCore, NEW p \in Panes, Fold(p), UNCHANGED <<client, calls>>
  PROVE  SessionCore'
<1>t. CoreTypes
  BY DEF SessionCore
<1>1. /\ report' = [report EXCEPT ![p] = NoReport]
      /\ UNCHANGED <<onDisk, changes, nextId, nav, reservation, calls>>
  BY DEF Fold, worldVars
<1>2. session' = session
        \/ \E u \in Sessions : session' = [session EXCEPT ![p] = u] /\ u.id = session[p].id
                               /\ session[p] # NoSession
  BY FoldedSession
<1>3. session' \in [Panes -> Sessions \cup {NoSession}]
        /\ \A q \in Panes : session'[q] = session[q] \/ (session[q] # NoSession /\ session'[q].id = session[q].id)
  BY <1>2, <1>t DEF CoreTypes
<1>4. SessionMoves
  BY <1>1, <1>3, <1>t DEF SessionMoves, CoreTypes, SessionCore, CallTypes
<1> QED
  BY <1>4, CoreSessionMoves

\* What reviseView makes of a session.
LEMMA RevisedSession ==
  ASSUME SessionCore, NEW p \in Panes, NEW id, NEW v \in ViewChoices, ReviseSession(p, id, v)
  PROVE  \E u \in Sessions :
           /\ session[p] \in Sessions /\ session[p] # NoSession /\ u.id = session[p].id
           /\ u.watch = session[p].watch /\ u.view = session[p].view + 1
           /\ session' = [session EXCEPT ![p] = u]
<1>t. CoreTypes
  BY DEF SessionCore
<1> DEFINE u == [session[p] EXCEPT !.view = @ + 1, !.params = v]
<1>1. session[p] # NoSession /\ session[p] \in Sessions
  BY <1>t DEF ReviseSession, CoreTypes
<1>2. u \in Sessions /\ u.id = session[p].id /\ u.watch = session[p].watch /\ u.view = session[p].view + 1
  <2>1. session[p].view + 1 \in Nat
    BY <1>1 DEF Sessions
  <2>2. PICK n \in Nat : n = session[p].view + 1 /\ u = [session[p] EXCEPT !.view = n, !.params = v]
    BY <2>1
  <2>3. u \in Sessions /\ u.id = session[p].id /\ u.watch = session[p].watch /\ u.view = n
    BY <1>1, <2>2 DEF Sessions
  <2> QED
    BY <2>2, <2>3
<1>3. session' = [session EXCEPT ![p].view = @ + 1, ![p].params = v]
  BY DEF ReviseSession
<1>4. session' = [session EXCEPT ![p] = u]
  BY <1>3, <1>1, <1>t DEF CoreTypes, Sessions
<1> QED
  BY <1>1, <1>2, <1>4

\* A command for the service is answered: a session is revised or released.
LEMMA CoreReviseServed ==
  ASSUME SessionCore, NEW c \in calls, ReviseServed(c) PROVE SessionCore'
<1>t. CoreTypes /\ CallTypes
  BY DEF SessionCore
<1>1. c.kind = "revise" /\ c.pane \in Panes /\ c.params \in ViewChoices
  BY <1>t DEF ReviseServed, CallTypes
<1>2. UNCHANGED <<onDisk, changes, nextId, nav, reservation, report>>
  BY DEF ReviseServed, worldVars, foldVars
<1>3. session' = session
        \/ \E u \in Sessions : session' = [session EXCEPT ![c.pane] = u] /\ u.id = session[c.pane].id
                               /\ session[c.pane] # NoSession
  <2>1. CASE session[c.pane].id = c.id
    <3>1. ReviseSession(c.pane, c.id, c.params)
      BY <2>1 DEF ReviseServed
    <3> QED
      BY <3>1, <1>1, RevisedSession
  <2>2. CASE session[c.pane].id # c.id
    BY <2>2 DEF ReviseServed
  <2> QED
    BY <2>1, <2>2
<1>4. session' \in [Panes -> Sessions \cup {NoSession}]
        /\ \A q \in Panes : session'[q] = session[q] \/ (session[q] # NoSession /\ session'[q].id = session[q].id)
  BY <1>1, <1>3, <1>t DEF CoreTypes
<1>5. \A d \in calls' : d \in calls \/ (d.kind = "revised" /\ d.pane = c.pane)
  BY DEF ReviseServed
<1>6. CallTypes'
  BY <1>1, <1>5, <1>t DEF CallTypes
<1>7. SessionMoves
  BY <1>2, <1>4, <1>6, <1>t DEF SessionMoves, CoreTypes
<1> QED
  BY <1>7, CoreSessionMoves

LEMMA CoreReleaseServed ==
  ASSUME SessionCore, NEW c \in calls, ReleaseServed(c) PROVE SessionCore'
<1>t. CoreTypes /\ CallTypes
  BY DEF SessionCore
<1>1. c.pane \in Panes
  BY <1>t DEF CallTypes
<1>2. UNCHANGED <<onDisk, changes, nextId, nav, report>> /\ calls' = calls \ {c}
  BY DEF ReleaseServed, worldVars, foldVars
<1>3. UNCHANGED <<session, reservation>>
        \/ (session' = [session EXCEPT ![c.pane] = NoSession]
            /\ reservation' = [reservation EXCEPT ![c.pane] = Nobody])
  BY DEF ReleaseServed, ReleaseSession
<1>4. session' \in [Panes -> Sessions \cup {NoSession}] /\ reservation' \in [Panes -> Nat]
        /\ \A q \in Panes : session'[q] = NoSession \/ (session'[q] = session[q] /\ reservation'[q] = reservation[q])
  BY <1>1, <1>3, <1>t DEF CoreTypes, Nobody
<1>5. CallTypes'
  BY <1>2, <1>t DEF CallTypes
<1>6. SessionMoves
  BY <1>2, <1>4, <1>5, <1>t DEF SessionMoves, CoreTypes
<1> QED
  BY <1>6, CoreSessionMoves

\* What the renderer does alone leaves the service as it is.
LEMMA CoreRenderer ==
  ASSUME SessionCore, UNCHANGED <<onDisk, changes, nextId, reservation, session, nav, report>>,
         CallTypes'
  PROVE  SessionCore'
<1>1. SessionMoves
  BY DEF SessionMoves, SessionCore, CoreTypes
<1> QED
  BY <1>1, CoreSessionMoves

\* The calls that a listing sends are ranges of its own pane.
LEMMA EnsuredSends ==
  ASSUME NEW p, NEW l, NEW page
  PROVE  /\ \A d \in Ensured(p, l, page).sent :
              d = RangeCall(p, l, page) /\ d.kind = "range" /\ d.pane = p
         /\ \A d \in Drained(p, l).sent : d.kind = "range" /\ d.pane = p
<1>1. \A d \in Ensured(p, l, page).sent :
              d = RangeCall(p, l, page) /\ d.kind = "range" /\ d.pane = p
  BY DEF Ensured, RangeCall
<1>2. \A d \in Drained(p, l).sent : d.kind = "range" /\ d.pane = p
  BY DEF Drained, RangeCall
<1> QED
  BY <1>1, <1>2

\* The calls after a step of the renderer are those before it, and new ones that
\* are of its kind.
LEMMA CoreRendererSteps ==
  ASSUME SessionCore,
         \/ \E p \in Panes :
              \/ \E v \in ViewChoices : ReviseView(p, v) \/ \E i \in Navs, path \in Paths : Begin(p, i, path, v)
              \/ \E page \in PageNumbers : NeedPage(p, page)
              \/ ApplyPatch(p) \/ Release(p)
         \/ \E c \in calls : BeginAnswered(c) \/ ReviseAnswered(c) \/ RangeServed(c) \/ RangeAnswered(c)
  PROVE  SessionCore'
<1>t. CallTypes
  BY DEF SessionCore
<1> USE DEF sessVars, worldVars, foldVars
<1>1. ASSUME NEW p \in Panes, NEW v \in ViewChoices, ReviseView(p, v) PROVE SessionCore'
  <2> DEFINE new == [kind |-> "revise", pane |-> p, id |-> client[p].baseline.id,
                     params |-> v, token |-> client[p].token + 1]
  <2>0. calls' = calls \cup {new}
    BY <1>1 DEF ReviseView
  <2>1. \A d \in calls' : d \in calls \/ (d.kind = "revise" /\ d.pane = p /\ d.params = v)
    BY <2>0
  <2>2. CallTypes'
    BY <2>1, <1>t DEF CallTypes
  <2> QED
    BY <1>1, <2>2, CoreRenderer DEF ReviseView
<1>2. ASSUME NEW p \in Panes, NEW v \in ViewChoices, NEW i \in Navs, NEW path \in Paths, Begin(p, i, path, v)
      PROVE  SessionCore'
  <2> DEFINE new == [kind |-> "begin", nav |-> i, pane |-> p, path |-> path,
                     params |-> v, token |-> client[p].token + 1]
  <2>0. calls' = calls \cup {new}
    BY <1>2 DEF Begin
  <2>1. \A d \in calls' : d \in calls
          \/ (d.kind = "begin" /\ d.pane = p /\ d.nav = i /\ d.path = path /\ d.params = v)
    BY <2>0
  <2>2. CallTypes'
    BY <2>1, <1>t DEF CallTypes
  <2> QED
    BY <1>2, <2>2, CoreRenderer DEF Begin
<1>3. ASSUME NEW p \in Panes, NEW page \in PageNumbers, NeedPage(p, page) PROVE SessionCore'
  <2>1. \A d \in calls' : d \in calls \/ (d.kind = "range" /\ d.pane = p)
    BY <1>3, EnsuredSends DEF NeedPage
  <2>2. CallTypes'
    BY <2>1, <1>t DEF CallTypes
  <2> QED
    BY <1>3, <2>2, CoreRenderer DEF NeedPage
<1>4. ASSUME NEW p \in Panes, ApplyPatch(p) PROVE SessionCore'
  <2>0. \E l : calls' \subseteq calls \cup Ensured(p, l, 0).sent
    BY <1>4 DEF ApplyPatch
  <2>1. \A d \in calls' : d \in calls \/ (d.kind = "range" /\ d.pane = p)
    BY <2>0, EnsuredSends
  <2>2. CallTypes'
    BY <2>1, <1>t DEF CallTypes
  <2> QED
    BY <1>4, <2>2, CoreRenderer DEF ApplyPatch
<1>5. ASSUME NEW p \in Panes, Release(p) PROVE SessionCore'
  <2> DEFINE new == [kind |-> "release", pane |-> p, id |-> client[p].baseline.id]
  <2>0. calls' \subseteq calls \cup {new}
    BY <1>5 DEF Release
  <2>1. \A d \in calls' : d \in calls \/ (d.kind = "release" /\ d.pane = p)
    BY <2>0
  <2>2. CallTypes'
    BY <2>1, <1>t DEF CallTypes
  <2> QED
    BY <1>5, <2>2, CoreRenderer DEF Release
<1>6. ASSUME NEW c \in calls, BeginAnswered(c) PROVE SessionCore'
  BY <1>6, <1>t, CoreRenderer DEF BeginAnswered, CallTypes
<1>7. ASSUME NEW c \in calls, ReviseAnswered(c) PROVE SessionCore'
  BY <1>7, <1>t, CoreRenderer DEF ReviseAnswered, CallTypes
<1>8. ASSUME NEW c \in calls, RangeServed(c) PROVE SessionCore'
  <2>1. \A d \in calls' : d \in calls \/ (d.kind = "ranged" /\ d.pane = c.pane)
    BY <1>8 DEF RangeServed
  <2>2. CallTypes'
    BY <2>1, <1>t DEF CallTypes
  <2> QED
    BY <1>8, <2>2, CoreRenderer DEF RangeServed
<1>9. ASSUME NEW c \in calls, RangeAnswered(c) PROVE SessionCore'
  <2>0. \E l : calls' \subseteq calls \cup Drained(c.pane, l).sent
    BY <1>9 DEF RangeAnswered
  <2>1. \A d \in calls' : d \in calls \/ (d.kind = "range" /\ d.pane = c.pane)
    BY <2>0, EnsuredSends
  <2>2. CallTypes'
    BY <2>1, <1>t DEF CallTypes
  <2> QED
    BY <1>9, <2>2, CoreRenderer DEF RangeAnswered
<1> QED
  BY <1>1, <1>2, <1>3, <1>4, <1>5, <1>6, <1>7, <1>8, <1>9

\* Every step of the service and of the renderer keeps SessionCore.
LEMMA CoreStep ==
  ASSUME SessionCore, [ListNext]_listVars PROVE SessionCore'
<1>1. CASE UNCHANGED listVars
  BY <1>1, CoreRenderer DEF listVars, sessVars, SessionCore, CallTypes
<1>2. CASE ServiceStep /\ UNCHANGED <<client, calls>>
  <2>1. CASE Change
    BY <1>2, <2>1, CoreChange
  <2>2. ASSUME NEW i \in Navs, NavStep(i) PROVE SessionCore'
    BY <1>2, <2>2, CoreReserve, CoreNavFails, CoreCapture, CoreEnumerate, CoreDrain, CorePublish
       DEF NavStep
  <2>3. ASSUME NEW p \in Panes, Reread(p) \/ Fold(p) PROVE SessionCore'
    BY <1>2, <2>3, CoreReread, CoreFold
  <2> QED
    BY <1>2, <2>1, <2>2, <2>3 DEF ServiceStep
<1>3. ASSUME NEW c \in calls, BeginServed(c) \/ ReviseServed(c) \/ ReleaseServed(c) PROVE SessionCore'
  BY <1>3, CoreNumber, CoreReviseServed, CoreReleaseServed
<1> QED
  BY <1>1, <1>2, <1>3, CoreRendererSteps DEF ListNext

LEMMA CoreAlways == ListSpec => []SessionCore
<1>1. ListInit => SessionCore
  BY CoreInit
<1>2. SessionCore /\ [ListNext]_listVars => SessionCore'
  BY CoreStep
<1> QED
  BY <1>1, <1>2, PTL DEF ListSpec

\* A pane has a session or a navigation under way, never both, and everything has
\* its type: begin_navigation, revise_view, apply_watch_mutation and
\* release_session in any order.
THEOREM SessionsSound == ListSpec => []SessInv
<1>1. SessionCore => SessInv
  <2> SUFFICES ASSUME SessionCore PROVE SessInv
    OBVIOUS
  <2>t. CoreTypes /\ Numbered
    BY DEF SessionCore
  <2>1. SessTypeOK
    <3>1. ASSUME NEW p \in Panes, session[p] # NoSession
          PROVE  /\ session[p].id \in 1..nextId /\ session[p].path \in Paths
                 /\ session[p].snapshot \in [Children -> 0..MaxVersion]
                 /\ session[p].params \in ViewChoices
      <4>1. session[p] \in Sessions /\ session[p].id < nextId /\ nextId \in Nat
        BY <3>1, <2>t DEF CoreTypes, Numbered
      <4> QED
        BY <4>1 DEF Sessions, Contents
    <3> QED
      BY <3>1, <2>t DEF SessTypeOK, CoreTypes, Contents
  <2> QED
    BY <2>1 DEF SessInv, SessionCore
<1> QED
  BY <1>1, CoreAlways, PTL

\* A change that a capture heard of is in the snapshot its navigation publishes,
\* whatever the reading of the folder, child by child, had missed.
THEOREM ChangesRead == ListSpec => []CapturedChangeIsRead
<1>1. SessionCore => CapturedChangeIsRead
  BY DEF SessionCore, CapturedChangeIsRead, Reading, UnderWay, Stages
<1> QED
  BY <1>1, CoreAlways, PTL

-----------------------------------------------------------------------------
(* What the panes, calls, answers and patches carry.                       *)

Baselines == [id : Nat \ {0}, watch : Nat, view : Nat]

\* A baseline of the pane that the session has, or has passed for good.
Past(p, b) ==
  /\ b \in Baselines /\ b.id < nextId
  /\ \A i \in Navs : UnderWay(i) => nav[i].id # b.id
  /\ session[p] # NoSession /\ session[p].id = b.id
       => b.watch <= session[p].watch /\ b.view <= session[p].view

Has(p, b) == session[p] # NoSession /\ BaselineOf(session[p]) = b

\* The baseline with the total, and with the rows of a page, that go with it.
Says(p, b, total) == Past(p, b) /\ (Has(p, b) => total = Len(SessionRows(session[p])))
SaysPage(p, b, i, rows) ==
  Past(p, b) /\ (Has(p, b) => rows = PageOf(SessionRows(session[p]), i))
SaysReply(p, r) == Says(p, r.baseline, r.total) /\ SaysPage(p, r.baseline, 0, r.rows)

\* A listing: all its fields, and what it shows.
Listing(l) ==
  /\ l = [token |-> l.token, status |-> l.status, baseline |-> l.baseline, pages |-> l.pages,
          total |-> l.total, inFlight |-> l.inFlight, waiting |-> l.waiting]
  /\ l.pages = [i \in PageNumbers |-> l.pages[i]]
Shows(p, l) ==
  /\ Listing(l) /\ l.baseline \in Baselines \cup {NoBaseline}
  /\ l.baseline # NoBaseline =>
       /\ Says(p, l.baseline, l.total)
       /\ \A i \in PageNumbers : Loaded(l, i) => SaysPage(p, l.baseline, i, l.pages[i].rows)

\* A call or an answer.
CallSays(c) ==
  /\ c.kind = "revised" /\ c.ok => SaysReply(c.pane, c.reply)
  /\ c.kind = "range" => c.baseline \in Baselines \cup {NoBaseline}
  /\ c.kind = "ranged" /\ c.verdict = "served" =>
       Says(c.pane, c.baseline, c.total) /\ SaysPage(c.pane, c.baseline, c.page, c.rows)

IsSequence(s) == s \in Seq({s[k] : k \in DOMAIN s})
Known(i) == nav[i].at \in Stages \cup {"done"}

CarriesSessions == \A p \in Panes : session[p] # NoSession => Past(p, BaselineOf(session[p]))
CarriesListings == DOMAIN client = Panes /\ \A p \in Panes : Shows(p, client[p])
CarriesPatches ==
  /\ DOMAIN patches = Panes
  /\ \A p \in Panes : IsSequence(patches[p])
  /\ \A p \in Panes : \A k \in DOMAIN patches[p] : Says(p, patches[p][k].to, patches[p][k].total)
CarriesCalls == \A c \in calls : CallSays(c)
CarriesReplies ==
  \A i \in Navs : nav[i].at = "done" => nav[i].pane \in Panes /\ SaysReply(nav[i].pane, nav[i].reply)

\* Each navigation belongs to one call, of its own pane.
CarriesBegins ==
  /\ \A c, d \in calls : c.kind = "begin" /\ d.kind = "begin" /\ c.nav = d.nav => c = d
  /\ \A c \in calls : c.kind = "begin" /\ Known(c.nav) => nav[c.nav].pane = c.pane

Carried ==
  /\ CarriesSessions /\ CarriesListings /\ CarriesPatches /\ CarriesCalls
  /\ CarriesReplies /\ CarriesBegins

-----------------------------------------------------------------------------
(* How a session may change, and that what is past stays past.             *)

\* A session in a step: as it was, gone, that of a navigation that was under way,
\* or revised - then its view, if it differs, has a revision of its own.
Revises(p) ==
  /\ session[p] # NoSession /\ session[p] \in Sessions /\ session'[p] \in Sessions
  /\ session'[p].id = session[p].id
  /\ \/ /\ session'[p].watch = session[p].watch /\ session'[p].view = session[p].view
        /\ SessionRows(session'[p]) = SessionRows(session[p])
     \/ /\ session'[p].watch \in {session[p].watch, session[p].watch + 1}
        /\ session'[p].view = session[p].view + 1

Succeeds(p) ==
  /\ nextId' = nextId /\ session'[p] \in Sessions
  /\ \E i \in Navs :
       /\ UnderWay(i) /\ session'[p].id = nav[i].id
       /\ \A j \in Navs : UnderWay(j)' => j # i /\ UnderWay(j) /\ nav'[j].id = nav[j].id

Evolves ==
  /\ nextId \in Nat /\ nextId' \in Nat /\ nextId <= nextId'
  /\ \A i \in Navs : UnderWay(i)' => (UnderWay(i) /\ nav'[i].id = nav[i].id) \/ nav'[i].id = nextId
  /\ \A p \in Panes :
       \/ session'[p] = session[p] \/ session'[p] = NoSession
       \/ Succeeds(p)
       \/ Revises(p)

\* A folded or revised session of one pane.
LEMMA FoldRevises ==
  ASSUME SessionCore, NEW p \in Panes, Fold(p)
  PROVE  \A q \in Panes : session'[q] = session[q] \/ Revises(q)
<1>t. session \in [Panes -> Sessions \cup {NoSession}]
  BY DEF SessionCore, CoreTypes
<1>1. ASSUME NEW u \in Sessions, session' = [session EXCEPT ![p] = u]
      PROVE  session'[p] = u /\ \A q \in Panes \ {p} : session'[q] = session[q]
  BY <1>1, <1>t
<1>2. \/ UNCHANGED session
      \/ \E u \in Sessions :
              /\ session[p] \in Sessions /\ session[p] # NoSession /\ u.id = session[p].id
              /\ session' = [session EXCEPT ![p] = u]
              /\ \/ /\ u.watch = session[p].watch /\ u.view = session[p].view
                    /\ SessionRows(session[p]) = SessionRows(u)
                 \/ u.watch = session[p].watch + 1 /\ u.view = session[p].view + 1
  BY FoldedSession
<1>3. ASSUME NEW u \in Sessions,
             session[p] \in Sessions, session[p] # NoSession, u.id = session[p].id,
             session' = [session EXCEPT ![p] = u],
             \/ /\ u.watch = session[p].watch /\ u.view = session[p].view
                /\ SessionRows(session[p]) = SessionRows(u)
             \/ u.watch = session[p].watch + 1 /\ u.view = session[p].view + 1
      PROVE  \A q \in Panes : session'[q] = session[q] \/ Revises(q)
  <2>1. session'[p] = u /\ \A q \in Panes \ {p} : session'[q] = session[q]
    BY <1>1, <1>3
  <2>2. Revises(p)
    BY <1>3, <2>1 DEF Revises
  <2> QED
    BY <2>1, <2>2
<1>4. CASE UNCHANGED session
  BY <1>4
<1> QED
  BY <1>2, <1>3, <1>4

LEMMA ReviseRevises ==
  ASSUME SessionCore, NEW c \in calls, ReviseServed(c)
  PROVE  \A q \in Panes : session'[q] = session[q] \/ Revises(q)
<1>t. session \in [Panes -> Sessions \cup {NoSession}] /\ c.pane \in Panes /\ c.params \in ViewChoices
  BY DEF SessionCore, CoreTypes, CallTypes, ReviseServed
<1>1. CASE session[c.pane].id = c.id
  <2>1. ReviseSession(c.pane, c.id, c.params)
    BY <1>1 DEF ReviseServed
  <2>2. PICK u \in Sessions :
           /\ session[c.pane] \in Sessions /\ session[c.pane] # NoSession /\ u.id = session[c.pane].id
           /\ u.watch = session[c.pane].watch /\ u.view = session[c.pane].view + 1
           /\ session' = [session EXCEPT ![c.pane] = u]
    BY <2>1, <1>t, RevisedSession
  <2>3. session'[c.pane] = u /\ \A q \in Panes \ {c.pane} : session'[q] = session[q]
    BY <2>2, <1>t
  <2> QED
    BY <2>2, <2>3 DEF Revises
<1>2. CASE session[c.pane].id # c.id
  BY <1>2 DEF ReviseServed
<1> QED
  BY <1>1, <1>2

LEMMA SessionsEvolve ==
  ASSUME SessionCore, [ListNext]_listVars PROVE Evolves
<1>t. CoreTypes /\ CallTypes
  BY DEF SessionCore
<1>n. nextId \in Nat /\ nextId + 1 \in Nat /\ nextId <= nextId + 1
  BY <1>t DEF CoreTypes
<1>1. CASE UNCHANGED <<nextId, session, nav>>
  BY <1>1, <1>n DEF Evolves, UnderWay
<1>2. ASSUME ServiceStep, UNCHANGED <<client, calls>> PROVE Evolves
  <2>1. CASE Change
    BY <1>2, <2>1, <1>n, CoreChange DEF Evolves, UnderWay
  <2>2. ASSUME NEW i \in Navs, NavMoves(i) PROVE Evolves
    BY <2>2, <1>n DEF Evolves, NavMoves, UnderWay
  <2>3. ASSUME NEW i \in Navs, Reserve(i) PROVE Evolves
    BY <1>2, <2>3, <1>n, CoreReserve DEF Evolves, UnderWay
  <2>4. ASSUME NEW i \in Navs, Publish(i) PROVE Evolves
    <3>1. /\ nav[i].at = "publish" /\ nav'[i].at \in {"done", "failed"}
          /\ \A j \in Navs \ {i} : nav'[j] = nav[j]
          /\ UNCHANGED nextId
          /\ \A p \in Panes : session'[p] = session[p]
              \/ (session'[p] # NoSession /\ session'[p].id = nav[i].id)
          /\ session' \in [Panes -> Sessions \cup {NoSession}]
      BY <1>2, <2>4, CorePublish DEF SessionCore, CoreTypes
    <3>2. \A j \in Navs : UnderWay(j)' => j # i /\ UnderWay(j) /\ nav'[j].id = nav[j].id
      BY <3>1 DEF UnderWay, Stages
    <3>3. UnderWay(i)
      BY <3>1 DEF UnderWay, Stages
    <3>4. \A p \in Panes : session'[p] = session[p] \/ Succeeds(p)
      BY <3>1, <3>2, <3>3 DEF Succeeds
    <3> QED
      BY <3>1, <3>2, <3>4, <1>n DEF Evolves
  <2>5. ASSUME NEW p \in Panes, Reread(p) PROVE Evolves
    BY <2>5, <1>1 DEF Reread
  <2>6. ASSUME NEW p \in Panes, Fold(p) PROVE Evolves
    <3>1. UNCHANGED <<nextId, nav>>
      BY <2>6 DEF Fold
    <3> QED
      BY <2>6, <3>1, <1>n, FoldRevises DEF Evolves, UnderWay
  <2> QED
    BY <1>2, <2>1, <2>2, <2>3, <2>4, <2>5, <2>6, CoreNavFails, CoreCapture, CoreEnumerate, CoreDrain
       DEF ServiceStep, NavStep
<1>3. ASSUME NEW c \in calls, BeginServed(c) PROVE Evolves
  BY <1>3, <1>n, CoreNumber DEF Evolves, UnderWay
<1>4. ASSUME NEW c \in calls, ReviseServed(c) PROVE Evolves
  <2>1. UNCHANGED <<nextId, nav>>
    BY <1>4 DEF ReviseServed
  <2> QED
    BY <1>4, <2>1, <1>n, ReviseRevises DEF Evolves, UnderWay
<1>5. ASSUME NEW c \in calls, ReleaseServed(c) PROVE Evolves
  <2>1. UNCHANGED <<nextId, nav>> /\ c.pane \in Panes
    BY <1>5, <1>t DEF ReleaseServed, CallTypes
  <2>2. session' = session \/ session' = [session EXCEPT ![c.pane] = NoSession]
    BY <1>5 DEF ReleaseServed, ReleaseSession
  <2>3. \A p \in Panes : session'[p] = session[p] \/ session'[p] = NoSession
    BY <2>1, <2>2, <1>t DEF CoreTypes
  <2> QED
    BY <2>1, <2>3, <1>n DEF Evolves, UnderWay
<1>6. ASSUME NEW p \in Panes,
             \/ \E v \in ViewChoices : ReviseView(p, v) \/ \E i \in Navs, path \in Paths : Begin(p, i, path, v)
             \/ \E page \in PageNumbers : NeedPage(p, page)
             \/ ApplyPatch(p) \/ Release(p)
      PROVE  Evolves
  BY <1>6, <1>1 DEF ReviseView, Begin, NeedPage, ApplyPatch, Release, sessVars
<1>7. ASSUME NEW c \in calls, BeginAnswered(c) \/ ReviseAnswered(c) \/ RangeServed(c) \/ RangeAnswered(c)
      PROVE  Evolves
  BY <1>7, <1>1 DEF BeginAnswered, ReviseAnswered, RangeServed, RangeAnswered, sessVars
<1>8. CASE UNCHANGED listVars
  BY <1>8, <1>1 DEF listVars, sessVars
<1> QED
  BY <1>2, <1>3, <1>4, <1>5, <1>6, <1>7, <1>8 DEF ListNext

\* What is past stays past, and what is said of a baseline stays true: a session
\* never comes back to a baseline it has left.
LEMMA PastStays ==
  ASSUME SessionCore, Evolves, NEW p \in Panes, NEW b, Past(p, b)
  PROVE  /\ Past(p, b)'
         /\ Has(p, b)' => Has(p, b) /\ SessionRows(session'[p]) = SessionRows(session[p])
<1>t. session[p] \in Sessions \cup {NoSession} /\ \A i \in Navs : UnderWay(i) => nav[i] \in NavRecords
  BY DEF SessionCore, CoreTypes
<1>1. b \in Baselines /\ b.id \in Nat \ {0} /\ b.watch \in Nat /\ b.view \in Nat /\ b.id < nextId
  BY DEF Past, Baselines
<1>2. nextId \in Nat /\ nextId' \in Nat /\ nextId <= nextId'
  BY DEF Evolves
<1>3. b.id < nextId'
  BY <1>1, <1>2
<1>4. \A i \in Navs : UnderWay(i)' => nav'[i].id # b.id
  BY <1>1, <1>2 DEF Evolves, Past
<1>5. CASE session'[p] = session[p]
  BY <1>1, <1>3, <1>4, <1>5 DEF Past, Has
<1>6. CASE session'[p] = NoSession
  BY <1>1, <1>3, <1>4, <1>6 DEF Past, Has
<1>7. CASE Succeeds(p)
  <2>1. session'[p].id # b.id
    BY <1>7 DEF Past, Succeeds
  <2> QED
    BY <1>1, <1>3, <1>4, <2>1 DEF Past, Has, BaselineOf
<1>8. CASE Revises(p)
  <2>1. /\ session[p].watch \in Nat /\ session[p].view \in Nat
        /\ session'[p].watch \in Nat /\ session'[p].view \in Nat /\ session[p] # NoSession
        /\ session'[p].id = session[p].id
    BY <1>8 DEF Revises, Sessions
  <2>2. session[p].id = b.id => b.watch <= session[p].watch /\ b.view <= session[p].view
    BY <2>1 DEF Past
  <2>3. CASE /\ session'[p].watch = session[p].watch /\ session'[p].view = session[p].view
             /\ SessionRows(session'[p]) = SessionRows(session[p])
    BY <1>1, <1>3, <1>4, <2>1, <2>2, <2>3 DEF Past, Has, BaselineOf
  <2>4. CASE /\ session'[p].watch \in {session[p].watch, session[p].watch + 1}
             /\ session'[p].view = session[p].view + 1
    <3>1. session'[p].id = b.id => b.watch <= session'[p].watch /\ b.view < session'[p].view
      BY <1>1, <2>1, <2>2, <2>4
    <3>2. ~Has(p, b)'
      BY <1>1, <2>1, <3>1 DEF Has, BaselineOf
    <3>3. session'[p].id = b.id => b.watch <= session'[p].watch /\ b.view <= session'[p].view
      BY <1>1, <2>1, <3>1
    <3> QED
      BY <1>1, <1>3, <1>4, <3>2, <3>3 DEF Past
  <2> QED
    BY <1>8, <2>3, <2>4 DEF Revises
<1> QED
  BY <1>5, <1>6, <1>7, <1>8 DEF Evolves

\* Whatever a session becomes, its baseline is new or the one it had.
LEMMA SessionsPast ==
  ASSUME SessionCore, Evolves, CarriesSessions PROVE CarriesSessions'
<1> SUFFICES ASSUME NEW p \in Panes, session'[p] # NoSession
             PROVE  Past(p, BaselineOf(session[p]))'
  BY DEF CarriesSessions
<1>t. Numbered /\ nextId \in Nat /\ nextId' \in Nat /\ nextId <= nextId'
        /\ session[p] \in Sessions \cup {NoSession}
  BY DEF SessionCore, CoreTypes, Evolves
<1>1. CASE session'[p] = session[p]
  <2>1. Past(p, BaselineOf(session[p]))
    BY <1>1 DEF CarriesSessions
  <2> DEFINE b == BaselineOf(session[p])
  <2>2. PICK c : c = b
    OBVIOUS
  <2>3. Past(p, c)'
    BY <2>1, <2>2, PastStays
  <2>4. c = BaselineOf(session[p])'
    BY <1>1, <2>2 DEF BaselineOf
  <2> QED
    BY <2>3, <2>4
<1>2. CASE Succeeds(p)
  <2>1. PICK i \in Navs : UnderWay(i) /\ session'[p].id = nav[i].id
          /\ \A j \in Navs : UnderWay(j)' => j # i /\ UnderWay(j) /\ nav'[j].id = nav[j].id
    BY <1>2 DEF Succeeds
  <2>2. session'[p] \in Sessions /\ nextId' = nextId
    BY <1>2 DEF Succeeds
  <2>3. nav[i].id < nextId /\ \A j \in Navs : UnderWay(j) /\ nav[j].id = nav[i].id => j = i
    BY <2>1, <1>t DEF Numbered
  <2>4. BaselineOf(session'[p]) \in Baselines /\ BaselineOf(session'[p]).id = session'[p].id
          /\ BaselineOf(session'[p]).watch = session'[p].watch /\ BaselineOf(session'[p]).view = session'[p].view
    BY <2>2 DEF BaselineOf, Baselines, Sessions
  <2> QED
    BY <2>1, <2>2, <2>3, <2>4 DEF Past, Sessions
<1>3. CASE Revises(p)
  <2>1. session[p] # NoSession /\ session'[p] \in Sessions /\ session'[p].id = session[p].id /\ session[p] \in Sessions
    BY <1>3 DEF Revises
  <2>2. Past(p, BaselineOf(session[p]))
    BY <2>1 DEF CarriesSessions
  <2>3. BaselineOf(session'[p]) \in Baselines /\ BaselineOf(session'[p]).id = session'[p].id
          /\ BaselineOf(session'[p]).watch = session'[p].watch /\ BaselineOf(session'[p]).view = session'[p].view
          /\ BaselineOf(session[p]).id = session[p].id
    BY <2>1 DEF BaselineOf, Baselines, Sessions
  <2>4. session[p].id \in Nat /\ session[p].id < nextId /\ session[p].id < nextId'
    BY <2>1, <1>t DEF Sessions, Numbered
  <2>5. \A i \in Navs : UnderWay(i)' => nav'[i].id # session[p].id
    BY <2>2, <2>3, <2>4, <1>t DEF Past, Evolves
  <2> QED
    BY <2>1, <2>3, <2>4, <2>5 DEF Past, Sessions
<1> QED
  BY <1>1, <1>2, <1>3 DEF Evolves

\* What is said stays true in a step.
LEMMA SayingsStay ==
  ASSUME SessionCore, Evolves
  PROVE  /\ \A p \in Panes : \A b, t : Says(p, b, t) => Says(p, b, t)'
         /\ \A p \in Panes : \A b, i, r : SaysPage(p, b, i, r) => SaysPage(p, b, i, r)'
         /\ \A p \in Panes : \A r : SaysReply(p, r) => SaysReply(p, r)'
         /\ \A p \in Panes : \A l : Shows(p, l) => Shows(p, l)'
         /\ \A c : c.pane \in Panes /\ CallSays(c) => CallSays(c)'
<1>1. ASSUME NEW p \in Panes, NEW b, NEW t, Says(p, b, t) PROVE Says(p, b, t)'
  BY <1>1, PastStays DEF Says
<1>2. ASSUME NEW p \in Panes, NEW b, NEW i, NEW r, SaysPage(p, b, i, r) PROVE SaysPage(p, b, i, r)'
  BY <1>2, PastStays DEF SaysPage
<1>3. ASSUME NEW p \in Panes, NEW r, SaysReply(p, r) PROVE SaysReply(p, r)'
  BY <1>1, <1>2, <1>3 DEF SaysReply
<1>4. ASSUME NEW p \in Panes, NEW l, Shows(p, l) PROVE Shows(p, l)'
  <2>1. Listing(l) /\ l.baseline \in Baselines \cup {NoBaseline}
    BY <1>4 DEF Shows
  <2>2. ASSUME l.baseline # NoBaseline
        PROVE  /\ Says(p, l.baseline, l.total)'
               /\ \A i \in PageNumbers : Loaded(l, i) => SaysPage(p, l.baseline, i, l.pages[i].rows)'
    BY <2>2, <1>1, <1>2, <1>4 DEF Shows
  <2> QED
    BY <2>1, <2>2 DEF Shows
<1>5. ASSUME NEW c, c.pane \in Panes, CallSays(c) PROVE CallSays(c)'
  BY <1>1, <1>2, <1>3, <1>5 DEF CallSays
<1> QED
  BY <1>1, <1>2, <1>3, <1>4, <1>5

\* The conjuncts of Carried that a step does not touch.
LEMMA CarriedKept ==
  ASSUME SessionCore, Evolves, Carried
  PROVE  /\ CarriesSessions'
         /\ UNCHANGED client => CarriesListings'
         /\ UNCHANGED patches => CarriesPatches'
         /\ (\A d \in calls' : d \in calls \/ d.kind \in {"begin", "revise", "release"}
                \/ (d.kind = "range" /\ d.baseline \in Baselines \cup {NoBaseline}))
              => CarriesCalls'
         /\ (\A i \in Navs : nav'[i].at = "done" => nav'[i] = nav[i]) => CarriesReplies'
         /\ (\A d \in calls' : d.kind = "begin" => d \in calls)
               /\ (\A i \in Navs : Known(i)' => Known(i) /\ nav'[i].pane = nav[i].pane)
              => CarriesBegins'
<1>1. CarriesSessions'
  BY SessionsPast DEF Carried
<1>2. ASSUME UNCHANGED client PROVE CarriesListings'
  BY <1>2, SayingsStay DEF Carried, CarriesListings
<1>3. ASSUME UNCHANGED patches PROVE CarriesPatches'
  BY <1>3, SayingsStay DEF Carried, CarriesPatches
<1>4. ASSUME \A d \in calls' : d \in calls \/ d.kind \in {"begin", "revise", "release"}
                \/ (d.kind = "range" /\ d.baseline \in Baselines \cup {NoBaseline})
      PROVE  CarriesCalls'
  <2> SUFFICES ASSUME NEW d \in calls' PROVE CallSays(d)'
    BY DEF CarriesCalls
  <2>1. CASE d \in calls
    BY <2>1, SayingsStay DEF Carried, CarriesCalls, SessionCore, CallTypes
  <2>2. CASE d.kind \in {"begin", "revise", "release"}
                \/ (d.kind = "range" /\ d.baseline \in Baselines \cup {NoBaseline})
    BY <2>2 DEF CallSays
  <2> QED
    BY <1>4, <2>1, <2>2
<1>5. ASSUME \A i \in Navs : nav'[i].at = "done" => nav'[i] = nav[i] PROVE CarriesReplies'
  <2>1. ASSUME NEW i \in Navs, nav'[i].at = "done"
        PROVE  nav'[i].pane \in Panes /\ SaysReply(nav[i].pane, nav[i].reply)'
    <3>1. nav'[i] = nav[i] /\ nav[i].at = "done"
      BY <1>5, <2>1
    <3>2. nav[i].pane \in Panes /\ SaysReply(nav[i].pane, nav[i].reply)
      BY <3>1 DEF Carried, CarriesReplies
    <3>3. \A r : SaysReply(nav[i].pane, r) => \A p \in Panes : p = nav[i].pane => SaysReply(p, r)'
      BY SayingsStay
    <3>4. PICK p \in Panes : p = nav[i].pane
      BY <3>2
    <3>r. PICK r : r = nav[i].reply
      OBVIOUS
    <3>5. SaysReply(p, r)'
      BY <3>2, <3>3, <3>4, <3>r
    <3>6. p = nav'[i].pane /\ r = nav'[i].reply
      BY <3>1, <3>4, <3>r
    <3> QED
      BY <3>5, <3>6
  <2> QED
    BY <2>1 DEF CarriesReplies
<1>6. ASSUME \A d \in calls' : d.kind = "begin" => d \in calls,
             \A i \in Navs : Known(i)' => Known(i) /\ nav'[i].pane = nav[i].pane
      PROVE  CarriesBegins'
  BY <1>6 DEF Carried, CarriesBegins, SessionCore, CallTypes
<1> QED
  BY <1>1, <1>2, <1>3, <1>4, <1>5, <1>6

-----------------------------------------------------------------------------
(* What the listing's operators keep.                                      *)

\* A listing that differs in its status, token or queues only shows the same.
LEMMA SameShown ==
  ASSUME NEW p, NEW l, Shows(p, l)
  PROVE  /\ \A x, y : Shows(p, [l EXCEPT !.inFlight = x, !.waiting = y])
         /\ \A x : Shows(p, [l EXCEPT !.inFlight = x])
         /\ \A y : Shows(p, [l EXCEPT !.waiting = y])
         /\ \A x : Shows(p, [l EXCEPT !.status = x])
         /\ \A x, y, t : Shows(p, [l EXCEPT !.token = t, !.inFlight = x, !.waiting = y])
<1>1. ASSUME NEW m, Listing(m), m.baseline = l.baseline, m.pages = l.pages, m.total = l.total
      PROVE  Shows(p, m)
  BY <1>1 DEF Shows, Loaded
<1>2. Listing(l)
  BY DEF Shows
<1>3. ASSUME NEW x, NEW y PROVE Shows(p, [l EXCEPT !.inFlight = x, !.waiting = y])
  <2>1. PICK m : m = [l EXCEPT !.inFlight = x, !.waiting = y]
    OBVIOUS
  <2>2. m.baseline = l.baseline /\ m.pages = l.pages /\ m.total = l.total /\ Listing(m)
    BY <1>2, <2>1 DEF Listing
  <2> QED
    BY <1>1, <2>1, <2>2
<1>4. ASSUME NEW x PROVE Shows(p, [l EXCEPT !.inFlight = x])
  BY <1>1, <1>2 DEF Listing
<1>5. ASSUME NEW x PROVE Shows(p, [l EXCEPT !.waiting = x])
  BY <1>1, <1>2 DEF Listing
<1>6. ASSUME NEW x PROVE Shows(p, [l EXCEPT !.status = x])
  BY <1>1, <1>2 DEF Listing
<1>7. ASSUME NEW x, NEW y, NEW t
      PROVE  Shows(p, [l EXCEPT !.token = t, !.inFlight = x, !.waiting = y])
  <2>1. PICK m : m = [l EXCEPT !.token = t, !.inFlight = x, !.waiting = y]
    OBVIOUS
  <2>2. m.baseline = l.baseline /\ m.pages = l.pages /\ m.total = l.total /\ Listing(m)
    BY <1>2, <2>1 DEF Listing
  <2> QED
    BY <1>1, <2>1, <2>2
<1> QED
  BY <1>3, <1>4, <1>5, <1>6, <1>7

\* A listing without a baseline says nothing.
LEMMA NothingShown ==
  ASSUME NEW p, NEW l, Listing(l), l.baseline = NoBaseline PROVE Shows(p, l)
BY DEF Shows

\* Asking for a page, and draining the queue, send ranges of the baseline shown.
LEMMA EnsuredShows ==
  ASSUME NEW p, NEW l, NEW page, Shows(p, l)
  PROVE  /\ Shows(p, Ensured(p, l, page).listing)
         /\ \A d \in Ensured(p, l, page).sent :
              d.kind = "range" /\ d.baseline \in Baselines \cup {NoBaseline}
<1>1. Shows(p, Ensured(p, l, page).listing)
  BY SameShown DEF Ensured
<1>2. \A d \in Ensured(p, l, page).sent : d.kind = "range" /\ d.baseline = l.baseline
  BY DEF Ensured, RangeCall
<1> QED
  BY <1>1, <1>2 DEF Shows

LEMMA DrainedShows ==
  ASSUME NEW p, NEW l, Shows(p, l)
  PROVE  /\ Shows(p, Drained(p, l).listing)
         /\ \A d \in Drained(p, l).sent :
              d.kind = "range" /\ d.baseline \in Baselines \cup {NoBaseline}
<1>1. Shows(p, Drained(p, l).listing)
  BY SameShown DEF Drained
<1>2. \A d \in Drained(p, l).sent : d.kind = "range" /\ d.baseline = l.baseline
  BY DEF Drained, RangeCall
<1> QED
  BY <1>1, <1>2 DEF Shows

\* A reply that says the truth is shown truly.
LEMMA AdoptedShows ==
  ASSUME NEW p, NEW l, NEW r, Shows(p, l), SaysReply(p, r)
  PROVE  Shows(p, Adopted(l, r))
<1> DEFINE m == [l EXCEPT !.baseline = r.baseline, !.status = "ready", !.total = r.total,
                 !.pages = IF r.total > 0 THEN [NoPages EXCEPT ![0] = PageWith(r.rows)] ELSE NoPages]
<1>1. CASE Adopted(l, r) = l
  BY <1>1
<1>2. CASE Adopted(l, r) = m
  <2>1. Listing(l) /\ Says(p, r.baseline, r.total) /\ SaysPage(p, r.baseline, 0, r.rows) /\ r.baseline \in Baselines
    BY DEF Shows, SaysReply, Says, Past
  <2>2. PICK g : g = IF r.total > 0 THEN [NoPages EXCEPT ![0] = PageWith(r.rows)] ELSE NoPages
    OBVIOUS
  <2>3. g = [i \in PageNumbers |-> g[i]] /\ \A i \in PageNumbers : g[i].loaded => i = 0 /\ g[i].rows = r.rows
    BY <2>2 DEF NoPages, PageWith
  <2>4. PICK k : k = [l EXCEPT !.baseline = r.baseline, !.status = "ready", !.total = r.total, !.pages = g] /\ k = m
    BY <2>2
  <2>5. Listing(k) /\ k.baseline = r.baseline /\ k.total = r.total /\ k.pages = g
    BY <2>1, <2>3, <2>4 DEF Listing
  <2> QED
    BY <1>2, <2>1, <2>3, <2>4, <2>5, ZenonT(40) DEF Shows, Loaded
<1> QED
  BY <1>1, <1>2 DEF Adopted

\* So is the answer to a range, given under the baseline shown.
LEMMA InstallShows ==
  ASSUME NEW p, NEW l, NEW c, Shows(p, l), c.kind = "ranged", c.pane = p, CallSays(c)
  PROVE  Shows(p, Install(l, c))
<1>1. CASE Install(l, c) = l
  BY <1>1
<1>2. CASE c.verdict = "served" /\ l.baseline = c.baseline /\ Install(l, c) = Installed(l, c)
  <2>1. Listing(l) /\ Says(p, l.baseline, c.total) /\ SaysPage(p, l.baseline, c.page, c.rows) /\ l.baseline \in Baselines
    BY <1>2 DEF Shows, CallSays, Says, Past
  <2>2. PICK g : g = [l.pages EXCEPT ![c.page] = PageWith(c.rows)]
    OBVIOUS
  <2>3. g = [i \in PageNumbers |-> g[i]]
          /\ \A i \in PageNumbers : g[i] = l.pages[i] \/ (i = c.page /\ g[i].rows = c.rows)
    BY <2>1, <2>2 DEF Listing, PageWith
  <2>4. Installed(l, c) = [l EXCEPT !.total = c.total, !.pages = g]
    BY <2>1, <2>2 DEF Installed, Listing
  <2>5. PICK k : k = [l EXCEPT !.total = c.total, !.pages = g] /\ k = Installed(l, c)
    BY <2>4
  <2>6. Listing(k) /\ k.baseline = l.baseline /\ k.total = c.total /\ k.pages = g
    BY <2>1, <2>3, <2>5 DEF Listing
  <2>7. l.baseline # NoBaseline => \A i \in PageNumbers : Loaded(l, i) => SaysPage(p, l.baseline, i, l.pages[i].rows)
    BY DEF Shows
  <2>8. l.baseline # NoBaseline => \A i \in PageNumbers : Loaded(k, i) => SaysPage(p, l.baseline, i, k.pages[i].rows)
    BY <2>1, <2>3, <2>6, <2>7 DEF Loaded
  <2> QED
    BY <1>2, <2>1, <2>5, <2>6, <2>8 DEF Shows
<1> QED
  BY <1>1, <1>2 DEF Install

-----------------------------------------------------------------------------
(* Every step carries what the panes, calls, answers and patches say.      *)

LEMMA CarriedInit == ListInit => Carried
<1> SUFFICES ASSUME ListInit PROVE Carried
  OBVIOUS
<1>1. /\ session = [p \in Panes |-> NoSession] /\ nav = [n \in Navs |-> NewNav] /\ calls = {}
      /\ patches = [p \in Panes |-> <<>>] /\ client = [p \in Panes |-> Fresh]
  BY DEF ListInit, SessInit
<1>2. CarriesSessions
  BY <1>1 DEF CarriesSessions
<1>3. CarriesListings
  <2>1. Listing(Fresh) /\ Fresh.baseline = NoBaseline
    BY DEF Listing, Fresh, NoPages
  <2>2. \A p \in Panes : Shows(p, Fresh)
    BY <2>1, NothingShown
  <2> QED
    BY <1>1, <2>2 DEF CarriesListings
<1>4. CarriesPatches
  BY <1>1 DEF CarriesPatches, IsSequence
<1>5. CarriesCalls /\ CarriesBegins
  BY <1>1 DEF CarriesCalls, CarriesBegins
<1>6. CarriesReplies
  BY <1>1 DEF CarriesReplies, NewNav
<1> QED
  BY <1>2, <1>3, <1>4, <1>5, <1>6 DEF Carried

\* A pane's listing is replaced by one that shows the truth.
LEMMA SetCarries ==
  ASSUME SessionCore, Evolves, CarriesListings, NEW p \in Panes, NEW l, Shows(p, l), Set(p, l)
  PROVE  CarriesListings'
<1>1. DOMAIN client' = Panes /\ client'[p] = l /\ \A q \in Panes \ {p} : client'[q] = client[q]
  BY DEF Set, CarriesListings
<1>2. \A q \in Panes : \A m : Shows(q, m) => Shows(q, m)'
  BY SayingsStay
<1>3. ASSUME NEW q \in Panes PROVE Shows(q, client[q])'
  <2>1. PICK m : m = client'[q]
    OBVIOUS
  <2>2. Shows(q, m)
    BY <1>1, <2>1 DEF CarriesListings
  <2>3. Shows(q, m)'
    BY <1>2, <2>2
  <2> QED
    BY <2>1, <2>3
<1> QED
  BY <1>1, <1>3 DEF CarriesListings

\* What a listing becomes when its token advances and it forgets what it showed.
LEMMA EmptiedShows ==
  ASSUME NEW p \in Panes, CarriesListings, NEW x
  PROVE  /\ Shows(p, [Emptied(Fenced(p)) EXCEPT !.status = x, !.baseline = NoBaseline])
         /\ Shows(p, [Emptied(Fenced(p)) EXCEPT !.baseline = NoBaseline, !.status = x])
         /\ Shows(p, [Fenced(p) EXCEPT !.inFlight = {}, !.waiting = <<>>])
<1>1. Listing(client[p]) /\ Shows(p, client[p])
  BY DEF CarriesListings, Shows
<1>2. PICK f : f = Fenced(p)
  OBVIOUS
<1>f. Listing(f) /\ f.baseline = client[p].baseline /\ f.pages = client[p].pages /\ f.total = client[p].total
  BY <1>1, <1>2 DEF Fenced, Listing
<1>3. PICK e : e = Emptied(f)
  OBVIOUS
<1>e. Listing(e)
  BY <1>f, <1>3 DEF Emptied, Listing, NoPages
<1>4. Shows(p, f)
  BY <1>1, <1>f DEF Shows, Loaded
<1>5. PICK m : m = [e EXCEPT !.status = x, !.baseline = NoBaseline]
  OBVIOUS
<1>m. Listing(m) /\ m.baseline = NoBaseline
  BY <1>e, <1>5 DEF Listing
<1>6. PICK n : n = [e EXCEPT !.baseline = NoBaseline, !.status = x]
  OBVIOUS
<1>n. Listing(n) /\ n.baseline = NoBaseline
  BY <1>e, <1>6 DEF Listing
<1> QED
  BY <1>2, <1>3, <1>4, <1>5, <1>6, <1>m, <1>n, NothingShown, SameShown

\* The first page of a session says the truth.
LEMMA FirstPageSays ==
  ASSUME CarriesSessions', NEW p \in Panes, session'[p] # NoSession, NEW r, r = FirstPage(session'[p])
  PROVE  SaysReply(p, r)'
<1>1. PICK b : b = BaselineOf(session'[p])
  OBVIOUS
<1>2. Past(p, b)'
  BY <1>1 DEF CarriesSessions
<1>3. r.baseline = b /\ r.total = Len(SessionRows(session'[p])) /\ r.rows = PageOf(SessionRows(session'[p]), 0)
  BY <1>1 DEF FirstPage
<1> QED
  BY <1>2, <1>3 DEF SaysReply, Says, SaysPage

\* A page that was asked for under the session's baseline says the truth.
LEMMA ServedSays ==
  ASSUME SessionCore, CarriesSessions, NEW p \in Panes, NEW b \in Baselines \cup {NoBaseline}, NEW i,
         Rejection(session[p], b, i) = "served"
  PROVE  /\ Says(p, b, Len(SessionRows(session[p])))
         /\ SaysPage(p, b, i, PageOf(SessionRows(session[p]), i))
<1>1. session[p] # NoSession /\ b.id = session[p].id /\ b.watch = session[p].watch /\ b.view = session[p].view
  BY DEF Rejection
<1>2. b = BaselineOf(session[p])
  BY <1>1 DEF BaselineOf, Baselines, NoBaseline
<1> QED
  BY <1>1, <1>2 DEF CarriesSessions, Says, SaysPage

\* A queue of patches with one more, or one less.
LEMMA SequenceMoves ==
  ASSUME NEW s, IsSequence(s)
  PROVE  /\ \A e : IsSequence(Append(s, e))
                   /\ \A k \in DOMAIN Append(s, e) : Append(s, e)[k] = e \/ (k \in DOMAIN s /\ Append(s, e)[k] = s[k])
         /\ s # <<>> => IsSequence(Tail(s))
                        /\ \A k \in DOMAIN Tail(s) : k + 1 \in DOMAIN s /\ Tail(s)[k] = s[k + 1]
<1>1. ASSUME NEW S, NEW t \in Seq(S) PROVE IsSequence(t)
  <2>1. t = [k \in 1..Len(t) |-> t[k]] /\ Len(t) \in Nat /\ DOMAIN t = 1..Len(t)
    BY <1>1
  <2>2. t \in [1..Len(t) -> {t[k] : k \in DOMAIN t}]
    BY <2>1
  <2> QED
    BY <2>1, <2>2, SeqDef DEF IsSequence
<1> DEFINE S == {s[k] : k \in DOMAIN s}
<1>2. s \in Seq(S) /\ Len(s) \in Nat /\ DOMAIN s = 1..Len(s)
  BY DEF IsSequence
<1>3. ASSUME NEW e
      PROVE  /\ IsSequence(Append(s, e))
             /\ \A k \in DOMAIN Append(s, e) : Append(s, e)[k] = e \/ (k \in DOMAIN s /\ Append(s, e)[k] = s[k])
  <2>1. s \in Seq(S \cup {e})
    BY <1>2, SeqDef
  <2>2. Append(s, e) \in Seq(S \cup {e})
    BY <2>1
  <2>3. \A k \in DOMAIN Append(s, e) : Append(s, e)[k] = e \/ (k \in DOMAIN s /\ Append(s, e)[k] = s[k])
    BY <1>2, <2>1
  <2> QED
    BY <1>1, <2>2, <2>3
<1>4. ASSUME s # <<>>
      PROVE  /\ IsSequence(Tail(s))
             /\ \A k \in DOMAIN Tail(s) : k + 1 \in DOMAIN s /\ Tail(s)[k] = s[k + 1]
  <2>1. Tail(s) \in Seq(S) /\ \A k \in DOMAIN Tail(s) : k + 1 \in DOMAIN s /\ Tail(s)[k] = s[k + 1]
    BY <1>2, <1>4
  <2> QED
    BY <1>1, <2>1
<1> QED
  BY <1>3, <1>4

\* The steps of the service alone.
LEMMA CarriedService ==
  ASSUME SessionCore, SessionCore', Evolves, Carried, ServiceStep, UNCHANGED <<client, calls>>
  PROVE  Carried'
<1>t. CoreTypes
  BY DEF SessionCore
<1>0. /\ CarriesSessions' /\ CarriesListings' /\ CarriesCalls'
      /\ UNCHANGED patches => CarriesPatches'
      /\ (\A i \in Navs : nav'[i].at = "done" => nav'[i] = nav[i]) => CarriesReplies'
      /\ (\A i \in Navs : Known(i)' => Known(i) /\ nav'[i].pane = nav[i].pane) => CarriesBegins'
  BY CarriedKept
<1>1. CASE Change
  BY <1>0, <1>1, CoreChange DEF Carried, Known, UnderWay, Stages
<1>2. ASSUME NEW i \in Navs, NavMoves(i) PROVE Carried'
  BY <1>0, <1>2 DEF Carried, NavMoves, Known, UnderWay, Stages
<1>3. ASSUME NEW i \in Navs, Reserve(i) PROVE Carried'
  BY <1>0, <1>3, CoreReserve DEF Carried, Known, UnderWay, Stages
<1>4. ASSUME NEW i \in Navs, Publish(i) PROVE Carried'
  <2>1. /\ nav[i].at = "publish" /\ nav'[i].at \in {"done", "failed"}
        /\ \A j \in Navs \ {i} : nav'[j] = nav[j]
        /\ UNCHANGED patches
        /\ nav'[i].at = "done" =>
             /\ session'[nav[i].pane] # NoSession
             /\ nav'[i].pane = nav[i].pane /\ nav[i].pane \in Panes
             /\ nav'[i].reply = FirstPage(session'[nav[i].pane])
    BY <1>4, CorePublish
  <2>2. CarriesBegins'
    BY <1>0, <2>1 DEF Known, Stages
  <2>3. ASSUME nav'[i].at = "done" PROVE nav'[i].pane \in Panes /\ SaysReply(nav[i].pane, nav[i].reply)'
    <3>1. PICK p \in Panes : p = nav'[i].pane
      BY <2>1, <2>3
    <3>2. PICK r : r = nav'[i].reply
      OBVIOUS
    <3>3. SaysReply(p, r)'
      BY <1>0, <2>1, <2>3, <3>1, <3>2, FirstPageSays
    <3> QED
      BY <3>1, <3>2, <3>3
  <2>4. ASSUME NEW j \in Navs \ {i}, nav'[j].at = "done"
        PROVE  nav'[j].pane \in Panes /\ SaysReply(nav[j].pane, nav[j].reply)'
    <3>1. PICK p, r : p = nav[j].pane /\ r = nav[j].reply
      OBVIOUS
    <3>2. nav'[j] = nav[j] /\ p \in Panes /\ SaysReply(p, r)
      BY <2>1, <2>4, <3>1 DEF Carried, CarriesReplies
    <3>3. SaysReply(p, r)'
      BY <3>2, SayingsStay
    <3> QED
      BY <3>1, <3>2, <3>3
  <2>5. CarriesReplies'
    BY <2>3, <2>4 DEF CarriesReplies
  <2> QED
    BY <1>0, <2>1, <2>2, <2>5 DEF Carried
<1>5. ASSUME NEW p \in Panes, Reread(p) PROVE Carried'
  BY <1>0, <1>5 DEF Carried, Reread, Known, UnderWay
<1>6. ASSUME NEW p \in Panes, Fold(p) PROVE Carried'
  <2>1. UNCHANGED nav
    BY <1>6 DEF Fold
  <2>2. CASE UNCHANGED patches
    BY <1>0, <2>1, <2>2 DEF Carried, Known, UnderWay
  <2>3. ASSUME NEW u \in Sessions, NEW d,
               session' = [session EXCEPT ![p] = u],
               patches' = [patches EXCEPT ![p] = Append(@, [from |-> BaselineOf(session[p]),
                         to |-> BaselineOf(u), total |-> Len(SessionRows(u)), delta |-> d])]
        PROVE  Carried'
    <3>e. PICK e : e = [from |-> BaselineOf(session[p]), to |-> BaselineOf(u),
                        total |-> Len(SessionRows(u)), delta |-> d]
      OBVIOUS
    <3>1. session'[p] = u /\ u # NoSession
      BY <2>3, <1>t DEF CoreTypes, Sessions, NoSession
    <3>2. Says(p, e.to, e.total)'
      <4>1. PICK b : b = BaselineOf(u)
        OBVIOUS
      <4>2. Past(p, b)'
        BY <1>0, <3>1, <4>1 DEF CarriesSessions
      <4>3. e.to = b /\ e.total = Len(SessionRows(session'[p]))
        BY <3>1, <3>e, <4>1
      <4> QED
        BY <4>2, <4>3 DEF Says
    <3>3. /\ DOMAIN patches' = Panes /\ patches'[p] = Append(patches[p], e)
          /\ \A q \in Panes \ {p} : patches'[q] = patches[q]
          /\ IsSequence(patches[p])
      BY <2>3, <3>e DEF Carried, CarriesPatches
    <3>4. ASSUME NEW q \in Panes, NEW k \in DOMAIN patches'[q]
          PROVE  Says(q, patches[q][k].to, patches[q][k].total)'
      <4>1. PICK x : x = patches'[q][k]
        OBVIOUS
      <4>2. (q = p /\ x = e) \/ \E j \in DOMAIN patches[q] : x = patches[q][j]
        BY <3>3, <4>1, SequenceMoves
      <4>3. PICK b, t : b = x.to /\ t = x.total
        OBVIOUS
      <4>4. Says(q, b, t)'
        <5>1. CASE q = p /\ x = e
          BY <5>1, <3>2, <4>3
        <5>2. CASE \E j \in DOMAIN patches[q] : x = patches[q][j]
          <6>1. Says(q, b, t)
            BY <5>2, <4>3 DEF Carried, CarriesPatches
          <6> QED
            BY <6>1, SayingsStay
        <5> QED
          BY <4>2, <5>1, <5>2
      <4> QED
        BY <4>1, <4>3, <4>4
    <3>5. CarriesPatches'
      <4>1. ASSUME NEW q \in Panes PROVE IsSequence(patches'[q])
        <5>1. CASE q = p
          BY <5>1, <3>3, SequenceMoves
        <5>2. CASE q # p
          <6>1. patches'[q] = patches[q] /\ IsSequence(patches[q])
            BY <5>2, <3>3 DEF Carried, CarriesPatches
          <6> QED
            BY <6>1
        <5> QED
          BY <5>1, <5>2
      <4>2. \A q \in Panes : IsSequence(patches[q])'
        BY <4>1 DEF IsSequence
      <4> QED
        BY <3>3, <3>4, <4>2 DEF CarriesPatches
    <3> QED
      BY <1>0, <2>1, <3>5 DEF Carried, Known, UnderWay
  <2>4. \/ UNCHANGED <<session, patches>>
        \/ \E u \in Sessions :
              /\ session[p] \in Sessions /\ session[p] # NoSession /\ u.id = session[p].id
              /\ u.watch = session[p].watch /\ u.view = session[p].view
              /\ SessionRows(session[p]) = SessionRows(u)
              /\ session' = [session EXCEPT ![p] = u] /\ UNCHANGED patches
        \/ \E u \in Sessions : \E d :
              /\ session[p] \in Sessions /\ session[p] # NoSession /\ u.id = session[p].id
              /\ u.watch = session[p].watch + 1 /\ u.view = session[p].view + 1
              /\ session' = [session EXCEPT ![p] = u]
              /\ patches' = [patches EXCEPT ![p] = Append(@, [from |-> BaselineOf(session[p]),
                         to |-> BaselineOf(u), total |-> Len(SessionRows(u)), delta |-> d])]
    BY <1>6, FoldedSession, Zenon
  <2> QED
    BY <2>2, <2>3, <2>4
<1> QED
  BY <1>1, <1>2, <1>3, <1>4, <1>5, <1>6, CoreNavFails, CoreCapture, CoreEnumerate, CoreDrain
     DEF ServiceStep, NavStep

\* Commands that the service takes up.
LEMMA CarriedServed ==
  ASSUME SessionCore, SessionCore', Evolves, Carried, NEW c \in calls,
         BeginServed(c) \/ ReviseServed(c) \/ ReleaseServed(c) \/ RangeServed(c)
  PROVE  Carried'
<1>t. CoreTypes /\ CallTypes
  BY DEF SessionCore
<1>0. /\ CarriesSessions'
      /\ UNCHANGED client => CarriesListings'
      /\ UNCHANGED patches => CarriesPatches'
      /\ (\A d \in calls' : d \in calls) => CarriesCalls'
      /\ (\A i \in Navs : nav'[i].at = "done" => nav'[i] = nav[i]) => CarriesReplies'
      /\ (\A d \in calls' : d.kind = "begin" => d \in calls)
            /\ (\A i \in Navs : Known(i)' => Known(i) /\ nav'[i].pane = nav[i].pane)
           => CarriesBegins'
  BY CarriedKept
<1>1. CASE BeginServed(c)
  <2>1. /\ UNCHANGED <<session, patches, client, calls>>
        /\ c.kind = "begin" /\ c.nav \in Navs /\ nav[c.nav].at = "new"
        /\ nav'[c.nav].at = "reserve" /\ nav'[c.nav].pane = c.pane
        /\ \A j \in Navs \ {c.nav} : nav'[j] = nav[j]
    BY <1>1, CoreNumber
  <2>2. CarriesBegins'
    <3>1. ASSUME NEW d \in calls, d.kind = "begin", Known(d.nav)' PROVE nav'[d.nav].pane = d.pane
      <4>1. CASE d.nav = c.nav
        BY <2>1, <3>1, <4>1 DEF Carried, CarriesBegins
      <4>2. CASE d.nav # c.nav
        <5>1. d.nav \in Navs /\ nav'[d.nav] = nav[d.nav]
          BY <2>1, <3>1, <4>2, <1>t DEF CallTypes
        <5> QED
          BY <5>1, <3>1 DEF Carried, CarriesBegins, Known
      <4> QED
        BY <4>1, <4>2
    <3> QED
      BY <2>1, <3>1 DEF Carried, CarriesBegins
  <2>3. CarriesReplies' /\ CarriesCalls' /\ CarriesListings' /\ CarriesPatches'
    BY <1>0, <2>1
  <2> QED
    BY <1>0, <2>2, <2>3 DEF Carried
<1>2. ASSUME NEW a, calls' = (calls \ {c}) \cup {a}, a.kind \in {"revised", "ranged"}, CallSays(a)',
             UNCHANGED <<client, patches, nav>>
      PROVE  Carried'
  <2>1. CarriesCalls'
    <3>1. ASSUME NEW d \in calls PROVE CallSays(d)'
      <4>1. d.pane \in Panes /\ CallSays(d)
        BY <1>t DEF Carried, CarriesCalls, CallTypes
      <4> QED
        BY <4>1, SayingsStay
    <3> QED
      BY <1>2, <3>1 DEF CarriesCalls
  <2> QED
    BY <1>0, <1>2, <2>1 DEF Carried, Known, UnderWay
<1>3. CASE ReviseServed(c)
  <2>1. UNCHANGED <<client, patches, nav>> /\ c.kind = "revise" /\ c.pane \in Panes /\ c.params \in ViewChoices
    BY <1>3, <1>t DEF ReviseServed, foldVars, CallTypes
  <2>2. CASE session[c.pane].id = c.id
    <3>1. ReviseSession(c.pane, c.id, c.params)
      BY <1>3, <2>2 DEF ReviseServed
    <3>2. session'[c.pane] # NoSession
      <4>1. PICK u \in Sessions : session' = [session EXCEPT ![c.pane] = u]
        BY <2>1, <3>1, RevisedSession
      <4> QED
        BY <2>1, <4>1, <1>t DEF CoreTypes, Sessions, NoSession
    <3>3. PICK r : r = FirstPage(session'[c.pane])
      OBVIOUS
    <3>4. SaysReply(c.pane, r)'
      <4>1. PICK p \in Panes : p = c.pane
        BY <2>1
      <4>2. SaysReply(p, r)'
        BY <1>0, <3>2, <3>3, <4>1, FirstPageSays
      <4> QED
        BY <4>1, <4>2
    <3>5. PICK a : a = [kind |-> "revised", pane |-> c.pane, token |-> c.token, ok |-> TRUE, reply |-> r]
      OBVIOUS
    <3>6. calls' = (calls \ {c}) \cup {a}
      BY <1>3, <2>2, <3>3, <3>5 DEF ReviseServed
    <3>7. a.kind = "revised" /\ CallSays(a)'
      BY <3>4, <3>5 DEF CallSays
    <3> QED
      BY <1>2, <2>1, <3>6, <3>7
  <2>3. CASE session[c.pane].id # c.id
    <3>1. PICK a : a = [kind |-> "revised", pane |-> c.pane, token |-> c.token, ok |-> FALSE, reply |-> <<>>]
      OBVIOUS
    <3>2. calls' = (calls \ {c}) \cup {a}
      BY <1>3, <2>3, <3>1 DEF ReviseServed
    <3>3. a.kind = "revised" /\ CallSays(a)'
      BY <3>1 DEF CallSays
    <3> QED
      BY <1>2, <2>1, <3>2, <3>3
  <2> QED
    BY <2>2, <2>3
<1>4. CASE ReleaseServed(c)
  <2>1. UNCHANGED <<client, patches, nav>> /\ calls' = calls \ {c}
    BY <1>4 DEF ReleaseServed, foldVars
  <2>2. \A d \in calls' : d \in calls
    BY <2>1
  <2> QED
    BY <1>0, <2>1, <2>2 DEF Carried, Known, UnderWay
<1>5. CASE RangeServed(c)
  <2>1. UNCHANGED <<client, patches, nav, session>> /\ c.kind = "range" /\ c.pane \in Panes
          /\ c.baseline \in Baselines \cup {NoBaseline}
    BY <1>5, <1>t DEF RangeServed, sessVars, foldVars, CallTypes, Carried, CarriesCalls, CallSays
  <2>2. PICK v, t, r :
          /\ v = Rejection(session[c.pane], c.baseline, c.page)
          /\ t = IF v = "served" THEN Len(SessionRows(session[c.pane])) ELSE 0
          /\ r = IF v = "served" THEN PageOf(SessionRows(session[c.pane]), c.page) ELSE <<>>
    OBVIOUS
  <2>3. PICK a : a = [kind |-> "ranged", pane |-> c.pane, token |-> c.token, page |-> c.page,
                      baseline |-> c.baseline, verdict |-> v, total |-> t, rows |-> r]
    OBVIOUS
  <2>4. calls' = (calls \ {c}) \cup {a}
    BY <1>5, <2>2, <2>3 DEF RangeServed
  <2>5. CallSays(a)
    <3>1. CASE v = "served"
      <4>1. Says(c.pane, c.baseline, t) /\ SaysPage(c.pane, c.baseline, c.page, r)
        BY <2>1, <2>2, <3>1, ServedSays DEF Carried
      <4> QED
        BY <2>3, <4>1 DEF CallSays
    <3>2. CASE v # "served"
      BY <2>3, <3>2 DEF CallSays
    <3> QED
      BY <3>1, <3>2
  <2>6. a.kind = "ranged" /\ a.pane \in Panes
    BY <2>1, <2>3
  <2>7. CallSays(a)'
    BY <2>5, <2>6, SayingsStay
  <2> QED
    BY <1>2, <2>1, <2>4, <2>6, <2>7
<1> QED
  BY <1>1, <1>3, <1>4, <1>5

\* Commands that a pane sends, and answers and patches that it takes up.
LEMMA CarriedCommands ==
  ASSUME SessionCore, SessionCore', Evolves, Carried, NEW p \in Panes,
         \/ \E v \in ViewChoices : ReviseView(p, v) \/ \E i \in Navs, path \in Paths : Begin(p, i, path, v)
         \/ \E page \in PageNumbers : NeedPage(p, page)
         \/ Release(p)
  PROVE  Carried'
<1>t. CoreTypes /\ CallTypes
  BY DEF SessionCore
<1>u. UNCHANGED <<session, nav, patches, nextId>>
  BY DEF ReviseView, Begin, NeedPage, Release, sessVars, foldVars
<1>0. /\ CarriesSessions' /\ CarriesPatches' /\ CarriesReplies'
      /\ (\A d \in calls' : d \in calls \/ d.kind \in {"begin", "revise", "release"}
             \/ (d.kind = "range" /\ d.baseline \in Baselines \cup {NoBaseline}))
           => CarriesCalls'
      /\ (\A d \in calls' : d.kind = "begin" => d \in calls) => CarriesBegins'
  BY <1>u, CarriedKept DEF Known, UnderWay
<1>s. \A l : Shows(p, l) /\ Set(p, l) => CarriesListings'
  BY SetCarries DEF Carried
<1>c. Shows(p, client[p]) /\ CarriesListings
  BY DEF Carried, CarriesListings
<1>1. ASSUME NEW v \in ViewChoices, ReviseView(p, v) PROVE Carried'
  <2>1. PICK a : a = [kind |-> "revise", pane |-> p, id |-> client[p].baseline.id,
                      params |-> v, token |-> client[p].token + 1]
    OBVIOUS
  <2>2. calls' = calls \cup {a} /\ a.kind = "revise"
    BY <1>1, <2>1 DEF ReviseView
  <2>3. CarriesListings'
    BY <1>1, <1>s, <1>c, EmptiedShows DEF ReviseView
  <2> QED
    BY <1>0, <2>2, <2>3 DEF Carried
<1>2. ASSUME NEW v \in ViewChoices, NEW i \in Navs, NEW path \in Paths, Begin(p, i, path, v)
      PROVE  Carried'
  <2>1. PICK a : a = [kind |-> "begin", nav |-> i, pane |-> p, path |-> path,
                      params |-> v, token |-> client[p].token + 1]
    OBVIOUS
  <2>2. calls' = calls \cup {a} /\ a.kind = "begin" /\ a.nav = i /\ ~Known(i)
          /\ \A c \in calls : c.kind = "begin" => c.nav # i
    BY <1>2, <2>1 DEF Begin, Known, Stages
  <2>3. CarriesListings'
    BY <1>2, <1>s, <1>c, EmptiedShows DEF Begin
  <2>4. CarriesBegins'
    <3>1. \A i1 \in Navs : Known(i1)' <=> Known(i1)
      BY <1>u DEF Known
    <3>2. \A c, d \in calls' : c.kind = "begin" /\ d.kind = "begin" /\ c.nav = d.nav => c = d
      BY <2>2 DEF Carried, CarriesBegins
    <3>3. ASSUME NEW c \in calls', c.kind = "begin", Known(c.nav)' PROVE nav'[c.nav].pane = c.pane
      <4>1. c # a
        BY <2>2, <3>1, <3>3
      <4> QED
        BY <1>u, <2>2, <3>3, <4>1 DEF Carried, CarriesBegins, Known
    <3> QED
      BY <3>2, <3>3 DEF CarriesBegins
  <2>5. CarriesCalls'
    BY <1>0, <2>2
  <2> QED
    BY <1>0, <2>3, <2>4, <2>5 DEF Carried
<1>3. ASSUME NEW page \in PageNumbers, NeedPage(p, page) PROVE Carried'
  <2>1. PICK e : e = Ensured(p, client[p], page)
    OBVIOUS
  <2>2. Set(p, e.listing) /\ calls' = calls \cup e.sent
    BY <1>3, <2>1 DEF NeedPage
  <2>3. Shows(p, e.listing) /\ \A d \in e.sent : d.kind = "range" /\ d.baseline \in Baselines \cup {NoBaseline}
    BY <1>c, <2>1, EnsuredShows
  <2>4. \A d \in calls' : d \in calls \/ (d.kind = "range" /\ d.baseline \in Baselines \cup {NoBaseline})
    BY <2>2, <2>3
  <2>5. CarriesCalls' /\ CarriesBegins'
    BY <1>0, <2>4
  <2> QED
    BY <1>0, <1>s, <2>2, <2>3, <2>5 DEF Carried
<1>4. ASSUME Release(p) PROVE Carried'
  <2>1. \A d \in calls' : d \in calls \/ d.kind = "release"
    <3>1. PICK a : a = [kind |-> "release", pane |-> p, id |-> client[p].baseline.id]
      OBVIOUS
    <3>2. calls' = calls \/ calls' = calls \cup {a}
      BY <1>4, <3>1 DEF Release
    <3> QED
      BY <3>1, <3>2
  <2>2. CarriesListings'
    BY <1>4, <1>s, <1>c, EmptiedShows DEF Release
  <2>3. CarriesCalls' /\ CarriesBegins'
    BY <1>0, <2>1
  <2> QED
    BY <1>0, <2>2, <2>3 DEF Carried
<1> QED
  BY <1>1, <1>2, <1>3, <1>4

LEMMA CarriedAnswers ==
  ASSUME SessionCore, SessionCore', Evolves, Carried, NEW c \in calls,
         BeginAnswered(c) \/ ReviseAnswered(c) \/ RangeAnswered(c)
  PROVE  Carried'
<1>t. CoreTypes /\ CallTypes /\ c.pane \in Panes /\ CallSays(c)
  BY DEF SessionCore, CallTypes, Carried, CarriesCalls
<1>u. UNCHANGED <<session, nav, patches, nextId>>
  BY DEF BeginAnswered, ReviseAnswered, RangeAnswered, sessVars, foldVars
<1>0. /\ CarriesSessions' /\ CarriesPatches' /\ CarriesReplies'
      /\ UNCHANGED client => CarriesListings'
      /\ (\A d \in calls' : d \in calls \/ (d.kind = "range" /\ d.baseline \in Baselines \cup {NoBaseline}))
           => CarriesCalls' /\ CarriesBegins'
  BY <1>u, CarriedKept DEF Known, UnderWay
<1>s. \A l : Shows(c.pane, l) /\ Set(c.pane, l) => CarriesListings'
  BY <1>t, SetCarries DEF Carried
<1>c. Shows(c.pane, client[c.pane])
  BY <1>t DEF Carried, CarriesListings
<1>a. ASSUME calls' = calls \ {c},
             UNCHANGED client \/ \E l : Shows(c.pane, l) /\ Set(c.pane, l)
      PROVE  Carried'
  <2>1. CarriesListings' /\ CarriesCalls' /\ CarriesBegins'
    BY <1>0, <1>s, <1>a
  <2> QED
    BY <1>0, <2>1 DEF Carried
<1>1. CASE BeginAnswered(c)
  <2>1. c.kind = "begin" /\ c.nav \in Navs /\ calls' = calls \ {c}
    BY <1>1, <1>t DEF BeginAnswered, CallTypes
  <2>2. CASE nav[c.nav].at = "done"
    <3>1. PICK r : r = nav[c.nav].reply
      OBVIOUS
    <3>2. SaysReply(c.pane, r)
      BY <2>1, <2>2, <3>1 DEF Carried, CarriesReplies, CarriesBegins, Known
    <3>3. Shows(c.pane, Adopted(client[c.pane], r))
      BY <1>c, <3>2, AdoptedShows
    <3>4. UNCHANGED client \/ Set(c.pane, Adopted(client[c.pane], r))
      BY <1>1, <2>2, <3>1 DEF BeginAnswered
    <3> QED
      BY <1>a, <2>1, <3>3, <3>4
  <2>3. CASE nav[c.nav].at = "failed"
    <3>1. UNCHANGED client \/ Set(c.pane, [client[c.pane] EXCEPT !.status = "error"])
      BY <1>1, <2>3 DEF BeginAnswered
    <3> QED
      BY <1>a, <1>c, <2>1, <3>1, SameShown
  <2> QED
    BY <1>1, <2>2, <2>3 DEF BeginAnswered
<1>2. CASE ReviseAnswered(c)
  <2>1. c.kind = "revised" /\ calls' = calls \ {c}
    BY <1>2 DEF ReviseAnswered
  <2>2. CASE c.ok
    <3>1. Shows(c.pane, Adopted(client[c.pane], c.reply))
      BY <1>c, <1>t, <2>1, <2>2, AdoptedShows DEF CallSays
    <3>2. UNCHANGED client \/ Set(c.pane, Adopted(client[c.pane], c.reply))
      BY <1>2 DEF ReviseAnswered
    <3> QED
      BY <1>a, <2>1, <3>1, <3>2
  <2>3. CASE ~c.ok
    <3>1. UNCHANGED client
      BY <1>2, <2>3 DEF ReviseAnswered
    <3> QED
      BY <1>a, <2>1, <3>1
  <2> QED
    BY <2>2, <2>3
<1>3. CASE RangeAnswered(c)
  <2>1. PICK l, d : l = [client[c.pane] EXCEPT !.inFlight = @ \ {c.page}] /\ d = Drained(c.pane, Install(l, c))
    OBVIOUS
  <2>2. PICK x : x = client[c.pane].inFlight \ {c.page}
    OBVIOUS
  <2>3. l = [client[c.pane] EXCEPT !.inFlight = x]
    BY <2>1, <2>2
  <2>4. Shows(c.pane, l)
    BY <1>c, <2>3, SameShown
  <2>5. Shows(c.pane, Install(l, c))
    BY <1>3, <1>t, <2>4, InstallShows DEF RangeAnswered
  <2>6. Shows(c.pane, d.listing) /\ \A a \in d.sent : a.kind = "range" /\ a.baseline \in Baselines \cup {NoBaseline}
    BY <2>1, <2>5, DrainedShows
  <2>7. \/ Set(c.pane, d.listing) /\ calls' = (calls \ {c}) \cup d.sent
        \/ calls' = calls \ {c} /\ UNCHANGED client
    BY <1>3, <2>1 DEF RangeAnswered
  <2>8. CASE calls' = calls \ {c} /\ UNCHANGED client
    BY <1>a, <2>8
  <2>9. CASE Set(c.pane, d.listing) /\ calls' = (calls \ {c}) \cup d.sent
    <3>1. \A a \in calls' : a \in calls \/ (a.kind = "range" /\ a.baseline \in Baselines \cup {NoBaseline})
      BY <2>6, <2>9
    <3>2. CarriesCalls' /\ CarriesBegins' /\ CarriesListings'
      BY <1>0, <1>s, <2>6, <2>9, <3>1
    <3> QED
      BY <1>0, <3>2 DEF Carried
  <2> QED
    BY <2>7, <2>8, <2>9
<1> QED
  BY <1>1, <1>2, <1>3

LEMMA CarriedPatch ==
  ASSUME SessionCore, SessionCore', Evolves, Carried, NEW p \in Panes, ApplyPatch(p)
  PROVE  Carried'
<1>1. PICK e : e = Head(patches[p])
  OBVIOUS
<1>2. PICK l : l = [Fenced(p) EXCEPT !.baseline = e.to, !.pages = NoPages, !.total = e.total]
  OBVIOUS
<1>3. PICK f : f = Ensured(p, l, 0)
  OBVIOUS
<1>4. /\ patches[p] # <<>> /\ patches' = [patches EXCEPT ![p] = Tail(@)]
      /\ UNCHANGED <<client, calls>> \/ (Set(p, f.listing) /\ calls' = calls \cup f.sent)
      /\ UNCHANGED <<session, nav, nextId>>
  BY <1>1, <1>2, <1>3 DEF ApplyPatch, worldVars
<1>0. /\ CarriesSessions' /\ CarriesReplies'
      /\ UNCHANGED client => CarriesListings'
      /\ (\A d \in calls' : d \in calls \/ (d.kind = "range" /\ d.baseline \in Baselines \cup {NoBaseline}))
           => CarriesCalls' /\ CarriesBegins'
  BY <1>4, CarriedKept DEF Known, UnderWay
<1>5. IsSequence(patches[p]) /\ Says(p, e.to, e.total)
  <2>1. IsSequence(patches[p]) /\ \A k \in DOMAIN patches[p] : Says(p, patches[p][k].to, patches[p][k].total)
    BY DEF Carried, CarriesPatches
  <2>2. 1 \in DOMAIN patches[p] /\ e = patches[p][1]
    BY <1>1, <1>4, <2>1 DEF IsSequence
  <2> QED
    BY <2>1, <2>2
<1>6. Shows(p, l)
  <2>1. Listing(client[p])
    BY DEF Carried, CarriesListings, Shows
  <2>2. PICK g : g = Fenced(p)
    OBVIOUS
  <2>3. Listing(g)
    BY <2>1, <2>2 DEF Fenced, Listing
  <2>4. Listing(l) /\ l.baseline = e.to /\ l.pages = NoPages /\ l.total = e.total
    BY <1>2, <2>2, <2>3 DEF Listing, NoPages
  <2>5. e.to \in Baselines /\ \A i \in PageNumbers : ~Loaded(l, i)
    BY <1>5, <2>4 DEF Says, Past, Loaded, NoPages
  <2> QED
    BY <1>5, <2>4, <2>5 DEF Shows
<1>7. Shows(p, f.listing) /\ \A d \in f.sent : d.kind = "range" /\ d.baseline \in Baselines \cup {NoBaseline}
  BY <1>3, <1>6, EnsuredShows
<1>8. CarriesListings' /\ CarriesCalls' /\ CarriesBegins'
  <2>1. CASE UNCHANGED <<client, calls>>
    BY <1>0, <2>1
  <2>2. CASE Set(p, f.listing) /\ calls' = calls \cup f.sent
    <3>1. CarriesListings'
      BY <1>7, <2>2, SetCarries DEF Carried
    <3>2. \A d \in calls' : d \in calls \/ (d.kind = "range" /\ d.baseline \in Baselines \cup {NoBaseline})
      BY <1>7, <2>2
    <3> QED
      BY <1>0, <3>1, <3>2
  <2> QED
    BY <1>4, <2>1, <2>2
<1>9. CarriesPatches'
  <2>1. DOMAIN patches' = Panes /\ patches'[p] = Tail(patches[p]) /\ \A q \in Panes \ {p} : patches'[q] = patches[q]
    BY <1>4 DEF Carried, CarriesPatches
  <2>2. IsSequence(Tail(patches[p]))
          /\ \A k \in DOMAIN Tail(patches[p]) : k + 1 \in DOMAIN patches[p] /\ Tail(patches[p])[k] = patches[p][k + 1]
    BY <1>4, <1>5, SequenceMoves
  <2>3. ASSUME NEW q \in Panes PROVE IsSequence(patches'[q])
    <3>1. CASE q = p
      BY <2>1, <2>2, <3>1
    <3>2. CASE q # p
      <4>1. patches'[q] = patches[q] /\ IsSequence(patches[q])
        BY <2>1, <3>2 DEF Carried, CarriesPatches
      <4> QED
        BY <4>1
    <3> QED
      BY <3>1, <3>2
  <2>4. \A q \in Panes : IsSequence(patches[q])'
    BY <2>3 DEF IsSequence
  <2>5. ASSUME NEW q \in Panes, NEW k \in DOMAIN patches'[q]
        PROVE  Says(q, patches[q][k].to, patches[q][k].total)'
    <3>1. PICK x : x = patches'[q][k]
      OBVIOUS
    <3>2. \E j \in DOMAIN patches[q] : x = patches[q][j]
      <4>1. CASE q = p
        BY <2>1, <2>2, <3>1, <4>1
      <4>2. CASE q # p
        BY <2>1, <3>1, <4>2
      <4> QED
        BY <4>1, <4>2
    <3>3. PICK b, t : b = x.to /\ t = x.total
      OBVIOUS
    <3>4. Says(q, b, t)
      BY <3>2, <3>3 DEF Carried, CarriesPatches
    <3>5. Says(q, b, t)'
      BY <3>4, SayingsStay
    <3> QED
      BY <3>1, <3>3, <3>5
  <2> QED
    BY <2>1, <2>4, <2>5 DEF CarriesPatches
<1> QED
  BY <1>0, <1>8, <1>9 DEF Carried

LEMMA CarriedStep ==
  ASSUME SessionCore, SessionCore', Carried, [ListNext]_listVars PROVE Carried'
<1>0. Evolves
  BY SessionsEvolve
<1>1. CASE UNCHANGED listVars
  BY <1>0, <1>1, CarriedKept DEF listVars, sessVars, foldVars, Known, UnderWay, Carried
<1>2. CASE ServiceStep /\ UNCHANGED <<client, calls>>
  BY <1>0, <1>2, CarriedService
<1>3. ASSUME NEW p \in Panes,
             \/ \E v \in ViewChoices : ReviseView(p, v) \/ \E i \in Navs, path \in Paths : Begin(p, i, path, v)
             \/ \E page \in PageNumbers : NeedPage(p, page)
             \/ ApplyPatch(p) \/ Release(p)
      PROVE  Carried'
  BY <1>0, <1>3, CarriedCommands, CarriedPatch
<1>4. ASSUME NEW c \in calls,
             BeginServed(c) \/ BeginAnswered(c) \/ ReviseServed(c) \/ ReviseAnswered(c)
               \/ RangeServed(c) \/ RangeAnswered(c) \/ ReleaseServed(c)
      PROVE  Carried'
  BY <1>0, <1>4, CarriedServed, CarriedAnswers
<1> QED
  BY <1>1, <1>2, <1>3, <1>4 DEF ListNext

\* What a pane shows under its session's current baseline is the session's view,
\* page by page: begin, reviseView, the ranges, the patches and their late answers
\* in any order, for any number of panes, navigations and calls in flight.
THEOREM ShownIsView == ListSpec => []ShownIsSessionView
<1>1. ListInit => Carried
  BY CarriedInit
<1>2. SessionCore /\ SessionCore' /\ Carried /\ [ListNext]_listVars => Carried'
  BY CarriedStep
<1>3. Carried => ShownIsSessionView
  BY DEF Carried, CarriesListings, Shows, Says, SaysPage, Has, ShownIsSessionView
<1> QED
  BY <1>1, <1>2, <1>3, CoreAlways, PTL DEF ListSpec

-----------------------------------------------------------------------------
(* The rows of a view are ordered: a row stands at the number of the rows  *)
(* before it.                                                              *)

Shown(a, v) == {n \in Children : a[n] > 0 /\ n \notin v.hides}
Rank(a, v, S, n) == Cardinality({m \in S : Before(a, v, m, n)})

LEMMA BeforeOrders ==
  ASSUME NEW a \in Contents, NEW v, NEW x \in Children, NEW y \in Children, NEW z \in Children
  PROVE  /\ ~Before(a, v, x, x)
         /\ Before(a, v, x, y) /\ Before(a, v, y, z) => Before(a, v, x, z)
         /\ x # y => Before(a, v, x, y) \/ Before(a, v, y, x)
         /\ ~(Before(a, v, x, y) /\ Before(a, v, y, x))
<1>1. x \in Nat /\ y \in Nat /\ z \in Nat /\ a[x] \in Nat /\ a[y] \in Nat /\ a[z] \in Nat
  BY SessAssumption DEF Contents
<1>2. CASE v.by = "version"
  BY <1>1, <1>2 DEF Before
<1>3. CASE v.by # "version"
  BY <1>1, <1>3 DEF Before
<1> QED
  BY <1>2, <1>3

LEMMA RankFacts ==
  ASSUME NEW a \in Contents, NEW v, NEW S, S \subseteq Children, NEW x \in S, NEW y \in S
  PROVE  /\ IsFiniteSet(S) /\ Cardinality(S) \in Nat
         /\ Rank(a, v, S, x) \in Nat /\ Rank(a, v, S, x) < Cardinality(S)
         /\ Before(a, v, x, y) => Rank(a, v, S, x) < Rank(a, v, S, y)
<1>1. IsFiniteSet(S) /\ Cardinality(S) \in Nat
  BY SessAssumption, FS_Subset, FS_CardinalityType
<1>2. PICK P, Q : P = {m \in S : Before(a, v, m, x)} /\ Q = {m \in S : Before(a, v, m, y)}
  OBVIOUS
<1>3. IsFiniteSet(P) /\ IsFiniteSet(Q) /\ Cardinality(P) \in Nat /\ Cardinality(Q) \in Nat
  BY <1>1, <1>2, FS_Subset, FS_CardinalityType
<1>4. x \notin P /\ P \subseteq S
  BY <1>2, BeforeOrders
<1>5. Cardinality(P) < Cardinality(S)
  <2>1. Cardinality(P) <= Cardinality(S) /\ (Cardinality(S) = Cardinality(P) => S = P)
    BY <1>1, <1>4, FS_Subset
  <2> QED
    BY <1>1, <1>3, <1>4, <2>1
<1>6. ASSUME Before(a, v, x, y) PROVE Cardinality(P) < Cardinality(Q)
  <2>1. P \subseteq Q
    BY <1>2, <1>6, BeforeOrders
  <2>2. x \in Q
    BY <1>2, <1>6
  <2>3. Cardinality(P) <= Cardinality(Q) /\ (Cardinality(Q) = Cardinality(P) => Q = P)
    BY <1>3, <2>1, FS_Subset
  <2> QED
    BY <1>3, <1>4, <2>2, <2>3
<1> QED
  BY <1>1, <1>2, <1>3, <1>5, <1>6 DEF Rank

LEMMA RankOrders ==
  ASSUME NEW a \in Contents, NEW v, NEW S, S \subseteq Children, NEW x \in S, NEW y \in S
  PROVE  /\ Before(a, v, x, y) <=> Rank(a, v, S, x) < Rank(a, v, S, y)
         /\ Rank(a, v, S, x) = Rank(a, v, S, y) => x = y
<1>1. /\ Rank(a, v, S, x) \in Nat /\ Rank(a, v, S, y) \in Nat
      /\ Before(a, v, x, y) => Rank(a, v, S, x) < Rank(a, v, S, y)
      /\ Before(a, v, y, x) => Rank(a, v, S, y) < Rank(a, v, S, x)
  BY RankFacts
<1>2. x # y => Before(a, v, x, y) \/ Before(a, v, y, x)
  BY BeforeOrders
<1> QED
  BY <1>1, <1>2

LEMMA RankOnto ==
  ASSUME NEW a \in Contents, NEW v, NEW S, S \subseteq Children, NEW k \in Nat, k < Cardinality(S)
  PROVE  \E x \in S : Rank(a, v, S, x) = k
<1>1. IsFiniteSet(S) /\ Cardinality(S) \in Nat
  BY SessAssumption, FS_Subset, FS_CardinalityType
<1>2. PICK N \in Int : N = Cardinality(S) - 1
  BY <1>1
<1>3. PICK T : T = (0..N) \ {k}
  OBVIOUS
<1>4. IsFiniteSet(T) /\ Cardinality(T) < Cardinality(S)
  <2>1. PICK I : I = 0..N
    OBVIOUS
  <2>2. IsFiniteSet(I) /\ Cardinality(I) = Cardinality(S)
    BY <1>1, <1>2, <2>1, FS_Interval
  <2>3. k \in I
    BY <1>1, <1>2, <2>1
  <2>4. IsFiniteSet(I \ {k}) /\ Cardinality(I \ {k}) = Cardinality(S) - 1
    BY <2>2, <2>3, FS_RemoveElement
  <2> QED
    BY <1>1, <1>3, <2>1, <2>4
<1>5. SUFFICES ASSUME \A x \in S : Rank(a, v, S, x) # k PROVE FALSE
  OBVIOUS
<1>6. PICK f : f = [x \in S |-> Rank(a, v, S, x)]
  OBVIOUS
<1>7. f \in [S -> T]
  <2>1. ASSUME NEW x \in S PROVE Rank(a, v, S, x) \in T
    BY <1>1, <1>2, <1>3, <1>5, RankFacts
  <2> QED
    BY <1>6, <2>1
<1>8. PICK x, y \in S : x # y /\ f[x] = f[y]
  BY <1>1, <1>4, <1>7, FS_PigeonHole
<1> QED
  BY <1>6, <1>8, RankOrders

\* Each row stands where its rank says.
LEMMA RowsFacts ==
  ASSUME NEW a \in Contents, NEW v
  PROVE  LET S == Shown(a, v)  R == Rows(a, v) IN
         /\ Cardinality(S) \in Nat
         /\ R = [i \in 1..Cardinality(S) |-> [name |-> R[i].name, version |-> a[R[i].name]]]
         /\ \A i \in 1..Cardinality(S) : R[i].name \in S /\ Rank(a, v, S, R[i].name) = i - 1
         /\ \A n \in S : Rank(a, v, S, n) + 1 \in 1..Cardinality(S) /\ R[Rank(a, v, S, n) + 1].name = n
<1>1. PICK S : S = Shown(a, v)
  OBVIOUS
<1>2. S \subseteq Children
  BY <1>1 DEF Shown
<1>3. Cardinality(S) \in Nat
  BY <1>2, SessAssumption, FS_Subset, FS_CardinalityType
<1>4. PICK at : at = [i \in 1..Cardinality(S) |-> CHOOSE n \in S : Rank(a, v, S, n) = i - 1]
  OBVIOUS
<1>5. PICK R : R = Rows(a, v)
  OBVIOUS
<1>6. R = [i \in 1..Cardinality(S) |-> [name |-> at[i], version |-> a[at[i]]]]
  BY <1>1, <1>4, <1>5 DEF Rows, Shown, Rank
<1>7. ASSUME NEW i \in 1..Cardinality(S) PROVE at[i] \in S /\ Rank(a, v, S, at[i]) = i - 1
  <2>0. PICK k \in Nat : k = i - 1 /\ k < Cardinality(S)
    BY <1>3
  <2>1. \E n \in S : Rank(a, v, S, n) = i - 1
    BY <1>2, <2>0, RankOnto
  <2> QED
    BY <1>4, <2>1
<1>8. ASSUME NEW n \in S
      PROVE  Rank(a, v, S, n) + 1 \in 1..Cardinality(S) /\ at[Rank(a, v, S, n) + 1] = n
  <2>1. Rank(a, v, S, n) \in Nat /\ Rank(a, v, S, n) < Cardinality(S)
    BY <1>2, RankFacts
  <2>2. PICK i : i = Rank(a, v, S, n) + 1
    OBVIOUS
  <2>3. i \in 1..Cardinality(S)
    BY <1>3, <2>1, <2>2
  <2>4. at[i] \in S /\ Rank(a, v, S, at[i]) = Rank(a, v, S, n)
    BY <1>7, <2>1, <2>2, <2>3
  <2>5. at[i] = n
    BY <1>2, <2>4, RankOrders
  <2> QED
    BY <2>2, <2>3, <2>5
<1>9. \A i \in 1..Cardinality(S) : R[i] = [name |-> at[i], version |-> a[at[i]]] /\ R[i].name = at[i]
  BY <1>6
<1>10. R = [i \in 1..Cardinality(S) |-> [name |-> R[i].name, version |-> a[R[i].name]]]
  BY <1>6, <1>9
<1> QED
  BY <1>1, <1>3, <1>5, <1>7, <1>8, <1>9, <1>10

\* The rows but n keep their order: those after n move up by one.
LEMMA RankWithout ==
  ASSUME NEW a \in Contents, NEW v, NEW S, S \subseteq Children, NEW n \in S, NEW m \in S \ {n}
  PROVE  Rank(a, v, S \ {n}, m) = IF Rank(a, v, S, m) < Rank(a, v, S, n)
                                  THEN Rank(a, v, S, m) ELSE Rank(a, v, S, m) - 1
<1>1. PICK P, Q : P = {k \in S : Before(a, v, k, m)} /\ Q = {k \in S \ {n} : Before(a, v, k, m)}
  OBVIOUS
<1>2. IsFiniteSet(P) /\ Q = P \ {n} /\ Cardinality(P) \in Nat
  <2>1. IsFiniteSet(S)
    BY SessAssumption, FS_Subset
  <2> QED
    BY <1>1, <2>1, FS_Subset, FS_CardinalityType
<1>3. Cardinality(Q) = IF n \in P THEN Cardinality(P) - 1 ELSE Cardinality(P)
  BY <1>2, FS_RemoveElement
<1>4. n \in P <=> Rank(a, v, S, n) < Rank(a, v, S, m)
  BY <1>1, RankOrders
<1>5. Rank(a, v, S, n) # Rank(a, v, S, m) /\ Rank(a, v, S, n) \in Nat /\ Rank(a, v, S, m) \in Nat
  BY RankFacts, RankOrders
<1>6. Rank(a, v, S, m) = Cardinality(P) /\ Rank(a, v, S \ {n}, m) = Cardinality(Q)
  BY <1>1 DEF Rank
<1> QED
  BY <1>3, <1>4, <1>5, <1>6

LEMMA RankSame ==
  ASSUME NEW a, NEW b, NEW v, NEW S, \A k \in S : a[k] = b[k], NEW m \in S
  PROVE  Rank(a, v, S, m) = Rank(b, v, S, m)
<1>1. \A k \in S : Before(a, v, k, m) = Before(b, v, k, m)
  BY DEF Before
<1>2. {k \in S : Before(a, v, k, m)} = {k \in S : Before(b, v, k, m)}
  BY <1>1
<1> QED
  BY <1>2 DEF Rank

\* A view's rows, their names, and where a name stands.
LEMMA RowsAre ==
  ASSUME NEW a \in Contents, NEW v
  PROVE  LET S == Shown(a, v)  R == Rows(a, v) IN
         /\ RowsOf(R) = {[name |-> n, version |-> a[n]] : n \in S}
         /\ NamesOf(R) = S
         /\ \A n \in S : IndexOf(R, n) = Rank(a, v, S, n) + 1
         /\ \A n : n \notin S => IndexOf(R, n) = 0
         /\ Len(R) = Cardinality(S)
<1>1. PICK S, R, N : S = Shown(a, v) /\ R = Rows(a, v) /\ N = Cardinality(S)
  OBVIOUS
<1>2. /\ N \in Nat
      /\ R = [i \in 1..N |-> [name |-> R[i].name, version |-> a[R[i].name]]]
      /\ \A i \in 1..N : R[i].name \in S /\ Rank(a, v, S, R[i].name) = i - 1
      /\ \A n \in S : Rank(a, v, S, n) + 1 \in 1..N /\ R[Rank(a, v, S, n) + 1].name = n
  BY <1>1, RowsFacts
<1>3. DOMAIN R = 1..N /\ Len(R) = N /\ \A i \in 1..N : R[i] = [name |-> R[i].name, version |-> a[R[i].name]]
  BY <1>2
<1>4. RowsOf(R) = {[name |-> n, version |-> a[n]] : n \in S}
  <2>1. ASSUME NEW r \in RowsOf(R) PROVE r \in {[name |-> n, version |-> a[n]] : n \in S}
    BY <1>2, <1>3 DEF RowsOf
  <2>2. ASSUME NEW n \in S PROVE [name |-> n, version |-> a[n]] \in RowsOf(R)
    <3>1. PICK i \in 1..N : R[i].name = n
      BY <1>2
    <3>2. R[i] = [name |-> n, version |-> a[n]]
      BY <1>3, <3>1
    <3> QED
      BY <1>3, <3>2 DEF RowsOf
  <2> QED
    BY <2>1, <2>2
<1>5. NamesOf(R) = S
  BY <1>2, <1>3, SMTT(40) DEF NamesOf
<1>6. ASSUME NEW n \in S PROVE IndexOf(R, n) = Rank(a, v, S, n) + 1
  <2>1. \E i \in DOMAIN R : R[i].name = n
    BY <1>2, <1>3
  <2>2. PICK i : i = CHOOSE j \in DOMAIN R : R[j].name = n
    OBVIOUS
  <2>3. i \in 1..N /\ R[i].name = n
    BY <1>3, <2>1, <2>2
  <2>4. Rank(a, v, S, n) = i - 1
    BY <1>2, <2>3
  <2>5. IndexOf(R, n) = i
    BY <2>1, <2>2 DEF IndexOf
  <2> QED
    BY <2>3, <2>4, <2>5
<1>7. ASSUME NEW n, n \notin S PROVE IndexOf(R, n) = 0
  BY <1>2, <1>3, <1>7 DEF IndexOf
<1> QED
  BY <1>1, <1>3, <1>4, <1>5, <1>6, <1>7

Ranked(a, v, S, R, N) ==
  /\ N \in Nat /\ Len(R) = N
  /\ R = [i \in 1..N |-> [name |-> R[i].name, version |-> a[R[i].name]]]
  /\ \A i \in 1..N : R[i].name \in S /\ Rank(a, v, S, R[i].name) = i - 1
  /\ \A n \in S : Rank(a, v, S, n) + 1 \in 1..N /\ R[Rank(a, v, S, n) + 1].name = n
  /\ \A n \in S : IndexOf(R, n) = Rank(a, v, S, n) + 1

LEMMA RowsKnown ==
  ASSUME NEW a \in Contents, NEW v, NEW S, S = Shown(a, v), NEW R, R = Rows(a, v),
         NEW N, N = Cardinality(S)
  PROVE  Ranked(a, v, S, R, N)
BY RowsFacts, RowsAre DEF Ranked

\* When one child is touched, the rest of the two views is the same.
LEMMA OthersSame ==
  ASSUME NEW a \in Contents, NEW b \in Contents, NEW v, NEW old, NEW new, NEW T,
         old = Rows(a, v), new = Rows(b, v),
         T = ChangedNames(old, new) \cup RemovedNames(old, new), Cardinality(T) = 1
  PROVE  \E n \in Children :
           /\ (CHOOSE x \in T : TRUE) = n
           /\ n \in Shown(a, v) \/ n \in Shown(b, v)
           /\ \A m \in Children \ {n} :
                /\ m \in Shown(a, v) <=> m \in Shown(b, v)
                /\ m \in Shown(a, v) => a[m] = b[m]
<1>1. PICK A, B : A = Shown(a, v) /\ B = Shown(b, v) /\ A \subseteq Children /\ B \subseteq Children
  BY DEF Shown
<1>2. /\ RowsOf(old) = {[name |-> n, version |-> a[n]] : n \in A} /\ NamesOf(old) = A
      /\ RowsOf(new) = {[name |-> n, version |-> b[n]] : n \in B} /\ NamesOf(new) = B
  BY <1>1, RowsAre
<1>3. RemovedNames(old, new) = A \ B
  BY <1>2 DEF RemovedNames
<1>4. \A n : n \in ChangedNames(old, new) <=> n \in B /\ ~(n \in A /\ a[n] = b[n])
  <2>1. ASSUME NEW n \in ChangedNames(old, new) PROVE n \in B /\ ~(n \in A /\ a[n] = b[n])
    <3>1. PICK r \in RowsOf(new) : r \notin RowsOf(old) /\ r.name = n
      BY DEF ChangedNames
    <3>2. PICK m \in B : r = [name |-> m, version |-> b[m]]
      BY <1>2, <3>1
    <3>3. m = n
      BY <3>1, <3>2
    <3>4. ~(n \in A /\ a[n] = b[n])
      BY <1>2, <3>1, <3>2, <3>3
    <3> QED
      BY <3>2, <3>3, <3>4
  <2>2. ASSUME NEW n \in B, ~(n \in A /\ a[n] = b[n]) PROVE n \in ChangedNames(old, new)
    <3>1. PICK r : r = [name |-> n, version |-> b[n]]
      OBVIOUS
    <3>2. r \in RowsOf(new) /\ r.name = n
      BY <1>2, <3>1
    <3>3. r \notin RowsOf(old)
      <4>1. SUFFICES ASSUME r \in RowsOf(old) PROVE FALSE
        OBVIOUS
      <4>2. PICK m \in A : r = [name |-> m, version |-> a[m]]
        BY <1>2, <4>1
      <4>3. m = n /\ a[n] = b[n]
        BY <3>1, <4>2
      <4> QED
        BY <2>2, <4>2, <4>3
    <3> QED
      BY <3>2, <3>3 DEF ChangedNames
  <2> QED
    BY <2>1, <2>2
<1>5. T \subseteq Children
  BY <1>1, <1>3, <1>4
<1>6. IsFiniteSet(T)
  BY <1>5, SessAssumption, FS_Subset
<1>7. PICK n : T = {n}
  BY <1>6, FS_Singleton
<1>8. n \in Children /\ (CHOOSE x \in T : TRUE) = n
  BY <1>5, <1>7
<1>9. n \in A \/ n \in B
  BY <1>3, <1>4, <1>7
<1>10. ASSUME NEW m \in Children \ {n} PROVE (m \in A <=> m \in B) /\ (m \in A => a[m] = b[m])
  BY <1>3, <1>4, <1>7
<1> QED
  BY <1>1, <1>8, <1>9, <1>10

\* t is s without, with, or but for its row i.
TakenOut(s, t, i) == t = [k \in 1..(Len(s) - 1) |-> IF k < i THEN s[k] ELSE s[k + 1]]
PutIn(s, t, e, i) ==
  t = [k \in 1..(Len(s) + 1) |-> IF k < i THEN s[k] ELSE IF k = i THEN e ELSE s[k - 1]]
PutFor(s, t, i) == t = [s EXCEPT ![i] = t[i]]

\* b shows what a shows, without n.
Lacks(a, A, b, B, n) == n \in A /\ B = A \ {n} /\ \A m \in B : a[m] = b[m]

\* The rows of a view and of the same view without the child n.
LEMMA RowsWithout ==
  ASSUME NEW a \in Contents, NEW b \in Contents, NEW v, NEW n,
         NEW A, A = Shown(a, v), NEW B, B = Shown(b, v), NEW P, P = Rows(a, v), NEW Q, Q = Rows(b, v),
         NEW w, w = IndexOf(P, n), Lacks(a, A, b, B, n)
  PROVE  Len(P) \in Nat /\ w \in 1..Len(P) /\ Len(Q) = Len(P) - 1 /\ TakenOut(P, Q, w)
<1>1. PICK N, M : N = Cardinality(A) /\ M = Cardinality(B)
  OBVIOUS
<1>l. n \in A /\ B = A \ {n} /\ \A m \in B : a[m] = b[m]
  BY DEF Lacks
<1>2. A \subseteq Children /\ B \subseteq Children
  BY DEF Shown
<1>3. /\ N \in Nat
      /\ P = [i \in 1..N |-> [name |-> P[i].name, version |-> a[P[i].name]]]
      /\ \A i \in 1..N : P[i].name \in A /\ Rank(a, v, A, P[i].name) = i - 1
      /\ \A m \in A : Rank(a, v, A, m) + 1 \in 1..N /\ P[Rank(a, v, A, m) + 1].name = m
      /\ \A m \in A : IndexOf(P, m) = Rank(a, v, A, m) + 1
      /\ Len(P) = N
  <2>1. Ranked(a, v, A, P, N)
    BY <1>1, RowsKnown
  <2> QED
    BY <2>1 DEF Ranked
<1>4. IsFiniteSet(A)
  BY <1>2, SessAssumption, FS_Subset
<1>5. M = N - 1
  BY <1>1, <1>2, <1>4, <1>l, FS_RemoveElement
<1>q. Ranked(b, v, B, Q, M)
  BY <1>1, RowsKnown
<1>6. /\ Q = [i \in 1..M |-> [name |-> Q[i].name, version |-> b[Q[i].name]]]
      /\ \A i \in 1..M : Q[i].name \in B /\ Rank(b, v, B, Q[i].name) = i - 1
      /\ Len(Q) = M
  BY <1>q DEF Ranked
<1>7. w = Rank(a, v, A, n) + 1 /\ w \in 1..N
  BY <1>3, <1>l
<1>8. ASSUME NEW i \in 1..M PROVE Q[i] = IF i < w THEN P[i] ELSE P[i + 1]
  <2>1. PICK m : m = Q[i].name
    OBVIOUS
  <2>2. m \in B /\ m \in A \ {n} /\ Rank(b, v, B, m) = i - 1 /\ a[m] = b[m]
    BY <1>2, <1>l, <1>6, <2>1
  <2>3. Q[i] = [name |-> m, version |-> a[m]]
    BY <1>6, <2>1, <2>2
  <2>4. Rank(a, v, B, m) = Rank(b, v, B, m)
    BY <1>2, <1>l, <2>2, RankSame
  <2>5. Rank(a, v, B, m) = IF Rank(a, v, A, m) < Rank(a, v, A, n)
                           THEN Rank(a, v, A, m) ELSE Rank(a, v, A, m) - 1
    BY <1>2, <1>l, <2>2, RankWithout
  <2>6. Rank(a, v, A, m) \in Nat /\ Rank(a, v, A, m) # Rank(a, v, A, n) /\ Rank(a, v, A, n) \in Nat
    BY <1>2, <1>l, <2>2, RankFacts, RankOrders
  <2>7. PICK k \in Nat : k = Rank(a, v, A, m)
    BY <2>6
  <2>12. i \in 1..(N - 1)
    BY <1>5
  <2>8. k + 1 \in 1..N /\ P[k + 1].name = m
    BY <1>3, <2>2, <2>7
  <2>9. P[k + 1] = [name |-> m, version |-> a[m]]
    BY <1>3, <2>8
  <2>10. CASE i < w
    <3>1. k = i - 1
      BY <1>7, <2>2, <2>4, <2>5, <2>6, <2>7, <2>10, <2>12
    <3>2. k + 1 = i
      BY <3>1
    <3> QED
      BY <2>3, <2>9, <2>10, <3>2
  <2>11. CASE ~(i < w)
    <3>1. k = i
      BY <1>7, <2>2, <2>4, <2>5, <2>6, <2>7, <2>11, <2>12
    <3> QED
      BY <2>3, <2>9, <2>11, <3>1
  <2> QED
    BY <2>10, <2>11
<1>9. Q = [i \in 1..(N - 1) |-> IF i < w THEN P[i] ELSE P[i + 1]]
  BY <1>5, <1>6, <1>8
<1> QED
  BY <1>3, <1>5, <1>6, <1>7, <1>9 DEF TakenOut

\* The rows of two views that differ in the child n only, and show it in one place.
LEMMA RowsUpdated ==
  ASSUME NEW a \in Contents, NEW b \in Contents, NEW v, NEW n,
         NEW S, S = Shown(a, v), S = Shown(b, v), NEW P, P = Rows(a, v), NEW Q, Q = Rows(b, v),
         NEW w, w = IndexOf(P, n), w = IndexOf(Q, n), n \in S, \A m \in S \ {n} : a[m] = b[m]
  PROVE  PutFor(P, Q, w)
<1>1. PICK N : N = Cardinality(S)
  OBVIOUS
<1>2. S \subseteq Children /\ S \ {n} \subseteq Children
  BY DEF Shown
<1>r. Ranked(a, v, S, P, N) /\ Ranked(b, v, S, Q, N)
  BY <1>1, RowsKnown
<1>3. /\ N \in Nat
      /\ P = [i \in 1..N |-> [name |-> P[i].name, version |-> a[P[i].name]]]
      /\ \A m \in S : Rank(a, v, S, m) + 1 \in 1..N /\ P[Rank(a, v, S, m) + 1].name = m
  BY <1>r DEF Ranked
<1>4. /\ Q = [i \in 1..N |-> [name |-> Q[i].name, version |-> b[Q[i].name]]]
      /\ \A i \in 1..N : Q[i].name \in S /\ Rank(b, v, S, Q[i].name) = i - 1
  BY <1>r DEF Ranked
<1>5. w = Rank(a, v, S, n) + 1 /\ w = Rank(b, v, S, n) + 1 /\ w \in 1..N
  <2>1. \A m \in S : IndexOf(P, m) = Rank(a, v, S, m) + 1 /\ IndexOf(Q, m) = Rank(b, v, S, m) + 1
    BY <1>r DEF Ranked
  <2> QED
    BY <1>3, <2>1
<1>6. ASSUME NEW i \in 1..N, i # w PROVE Q[i] = P[i]
  <2>1. PICK m : m = Q[i].name
    OBVIOUS
  <2>2. m \in S /\ Rank(b, v, S, m) = i - 1
    BY <1>4, <2>1
  <2>3. m # n
    BY <1>4, <1>5, <1>6, <2>1, <2>2
  <2>4. m \in S \ {n} /\ a[m] = b[m] /\ \A k \in S \ {n} : a[k] = b[k]
    BY <1>1, <2>2, <2>3
  <2>5. Rank(a, v, S \ {n}, m) = Rank(b, v, S \ {n}, m)
    BY <2>4, RankSame
  <2>6. /\ Rank(a, v, S \ {n}, m) = IF Rank(a, v, S, m) < Rank(a, v, S, n)
                                    THEN Rank(a, v, S, m) ELSE Rank(a, v, S, m) - 1
        /\ Rank(b, v, S \ {n}, m) = IF Rank(b, v, S, m) < Rank(b, v, S, n)
                                    THEN Rank(b, v, S, m) ELSE Rank(b, v, S, m) - 1
    BY <1>2, <2>4, RankWithout
  <2>7. /\ Rank(a, v, S, m) \in Nat /\ Rank(a, v, S, m) # Rank(a, v, S, n)
        /\ Rank(b, v, S, m) \in Nat /\ Rank(b, v, S, m) # Rank(b, v, S, n)
    BY <1>2, <2>2, <2>3, RankFacts, RankOrders
  <2>8. Rank(a, v, S, m) + 1 = i
    <3>1. PICK j \in Nat, k \in Nat, l \in Nat :
            j = Rank(a, v, S, m) /\ k = Rank(b, v, S, m) /\ l = Rank(a, v, S, n) /\ l = Rank(b, v, S, n)
      BY <1>2, <1>5, <2>7, RankFacts
    <3>2. (IF j < l THEN j ELSE j - 1) = (IF k < l THEN k ELSE k - 1) /\ j # l /\ k # l /\ k = i - 1
      BY <2>2, <2>5, <2>6, <2>7, <3>1
    <3> QED
      BY <3>1, <3>2
  <2>9. P[i].name = m
    BY <1>3, <2>2, <2>8
  <2> QED
    BY <1>3, <1>4, <2>1, <2>4, <2>9
<1>7. Q = [P EXCEPT ![w] = Q[w]]
  BY <1>3, <1>4, <1>5, <1>6
<1> QED
  BY <1>7 DEF PutFor

\* A row taken out of a sequence, and one put in.
LEMMA Elements ==
  ASSUME NEW X, NEW s \in Seq(X) PROVE s = [k \in 1..Len(s) |-> s[k]]
OBVIOUS

IsJoin(f, g, h) ==
  /\ Len(h) = Len(f) + Len(g)
  /\ h = [k \in 1..(Len(f) + Len(g)) |-> IF k <= Len(f) THEN f[k] ELSE g[k - Len(f)]]

LEMMA Joined ==
  ASSUME NEW X, NEW f \in Seq(X), NEW g \in Seq(X), NEW h, h = f \o g
  PROVE  h \in Seq(X) /\ IsJoin(f, g, h)
<1>1. /\ h \in Seq(X) /\ Len(h) = Len(f) + Len(g)
      /\ \A k \in 1..Len(f) + Len(g) : h[k] = IF k <= Len(f) THEN f[k] ELSE g[k - Len(f)]
  BY ConcatProperties, Zenon
<1>2. PICK N \in Nat : N = Len(f) + Len(g) /\ N = Len(h)
  BY <1>1
<1>3. h = [k \in 1..Len(h) |-> h[k]]
  BY <1>1, Elements, Zenon
<1>4. h = [k \in 1..N |-> h[k]]
  BY <1>2, <1>3
<1>5. \A k \in 1..N : h[k] = IF k <= Len(f) THEN f[k] ELSE g[k - Len(f)]
  BY <1>1, <1>2
<1> QED
  BY <1>1, <1>2, <1>4, <1>5 DEF IsJoin

LEMMA Parts ==
  ASSUME NEW X, NEW s \in Seq(X), NEW i \in 1..(Len(s) + 1), NEW j \in 0..Len(s), i <= j + 1
  PROVE  /\ SubSeq(s, i, j) \in Seq(X) /\ Len(SubSeq(s, i, j)) = j - i + 1
         /\ \A k \in 1..(j - i + 1) : SubSeq(s, i, j)[k] = s[i + k - 1]
<1>1. PICK f : f = SubSeq(s, i, j)
  OBVIOUS
<1>2. f = [k \in 1..(j - i + 1) |-> s[i + k - 1]]
  BY <1>1, SubSeqProperties
<1>3. f \in Seq(X) /\ Len(f) = j - i + 1
  BY <1>1, SubSeqProperties
<1> QED
  BY <1>1, <1>2, <1>3

LEMMA RowOut ==
  ASSUME NEW X, NEW s \in Seq(X), NEW i \in 1..Len(s)
  PROVE  TakenOut(s, Without1(s, i), i)
<1>1. PICK f, g, h : f = SubSeq(s, 1, i - 1) /\ g = SubSeq(s, i + 1, Len(s)) /\ h = f \o g
  OBVIOUS
<1>2. f \in Seq(X) /\ Len(f) = i - 1 /\ \A k \in 1..(i - 1) : f[k] = s[k]
  <2>1. PICK j \in 0..Len(s) : j = i - 1
    OBVIOUS
  <2>2. f \in Seq(X) /\ Len(f) = j - 1 + 1 /\ \A k \in 1..(j - 1 + 1) : f[k] = s[1 + k - 1]
    BY <1>1, <2>1, Parts
  <2> QED
    BY <2>1, <2>2
<1>3. g \in Seq(X) /\ Len(g) = Len(s) - i /\ \A k \in 1..(Len(s) - i) : g[k] = s[i + k]
  <2>1. PICK j \in 1..(Len(s) + 1) : j = i + 1
    OBVIOUS
  <2>2. /\ g \in Seq(X) /\ Len(g) = Len(s) - j + 1
        /\ \A k \in 1..(Len(s) - j + 1) : g[k] = s[j + k - 1]
    BY <1>1, <2>1, Parts
  <2> QED
    BY <2>1, <2>2
<1>4. h = [k \in 1..(Len(f) + Len(g)) |-> IF k <= Len(f) THEN f[k] ELSE g[k - Len(f)]]
  <2>1. f \in Seq(X) /\ g \in Seq(X) /\ h = f \o g
    BY <1>1, <1>2, <1>3
  <2>2. IsJoin(f, g, h)
    BY <2>1, Joined
  <2> QED
    BY <2>2 DEF IsJoin
<1>5. Len(f) + Len(g) = Len(s) - 1
  BY <1>2, <1>3
<1>6. ASSUME NEW k \in 1..(Len(s) - 1) PROVE h[k] = IF k < i THEN s[k] ELSE s[k + 1]
  <2>1. h[k] = IF k <= Len(f) THEN f[k] ELSE g[k - Len(f)]
    BY <1>4, <1>5
  <2>2. CASE k < i
    <3>1. k \in 1..(i - 1) /\ k <= Len(f)
      BY <1>2, <2>2
    <3> QED
      BY <1>2, <2>1, <2>2, <3>1
  <2>3. CASE ~(k < i)
    <3>1. k - i + 1 \in 1..(Len(s) - i) /\ k - i + 1 = k - Len(f) /\ ~(k <= Len(f))
      BY <1>2, <2>3
    <3>3. PICK j \in 1..(Len(s) - i) : j = k - i + 1 /\ j = k - Len(f) /\ i + j = k + 1
      BY <3>1
    <3>2. h[k] = g[j] /\ g[j] = s[k + 1]
      BY <1>3, <2>1, <3>1, <3>3
    <3> QED
      BY <2>3, <3>2
  <2> QED
    BY <2>2, <2>3
<1>7. h = [k \in 1..(Len(s) - 1) |-> IF k < i THEN s[k] ELSE s[k + 1]]
  BY <1>4, <1>5, <1>6
<1> QED
  BY <1>1, <1>7 DEF Without1, TakenOut

LEMMA RowIn ==
  ASSUME NEW X, NEW s \in Seq(X), NEW e \in X, NEW i \in 1..(Len(s) + 1)
  PROVE  PutIn(s, SubSeq(s, 1, i - 1) \o <<e>> \o SubSeq(s, i, Len(s)), e, i)
<1>1. PICK f, g, o, h, t : f = SubSeq(s, 1, i - 1) /\ g = SubSeq(s, i, Len(s)) /\ o = <<e>>
                           /\ h = f \o o /\ t = h \o g
  OBVIOUS
<1>2. f \in Seq(X) /\ Len(f) = i - 1 /\ \A k \in 1..(i - 1) : f[k] = s[k]
  <2>1. PICK j \in 0..Len(s) : j = i - 1
    OBVIOUS
  <2>2. f \in Seq(X) /\ Len(f) = j - 1 + 1 /\ \A k \in 1..(j - 1 + 1) : f[k] = s[1 + k - 1]
    BY <1>1, <2>1, Parts
  <2> QED
    BY <2>1, <2>2
<1>3. g \in Seq(X) /\ Len(g) = Len(s) - i + 1 /\ \A k \in 1..(Len(s) - i + 1) : g[k] = s[i + k - 1]
  <2>1. Len(s) \in 0..Len(s) /\ i <= Len(s) + 1
    OBVIOUS
  <2> QED
    BY <1>1, <2>1, Parts
<1>o. o \in Seq(X) /\ Len(o) = 1 /\ o[1] = e
  BY <1>1
<1>4. /\ h \in Seq(X) /\ Len(h) = Len(f) + Len(o)
      /\ h = [k \in 1..(Len(f) + Len(o)) |-> IF k <= Len(f) THEN f[k] ELSE o[k - Len(f)]]
  <2>1. f \in Seq(X) /\ o \in Seq(X) /\ h = f \o o
    BY <1>1, <1>2, <1>o
  <2>2. h \in Seq(X) /\ IsJoin(f, o, h)
    BY <2>1, Joined
  <2> QED
    BY <2>2 DEF IsJoin
<1>5. t = [k \in 1..(Len(h) + Len(g)) |-> IF k <= Len(h) THEN h[k] ELSE g[k - Len(h)]]
  <2>1. h \in Seq(X) /\ g \in Seq(X) /\ t = h \o g
    BY <1>1, <1>3, <1>4
  <2>2. IsJoin(h, g, t)
    BY <2>1, Joined
  <2> QED
    BY <2>2 DEF IsJoin
<1>6. Len(h) = i /\ Len(h) + Len(g) = Len(s) + 1
  BY <1>2, <1>3, <1>4, <1>o
<1>7. ASSUME NEW k \in 1..i PROVE h[k] = IF k < i THEN s[k] ELSE e
  <2>1. h[k] = IF k <= Len(f) THEN f[k] ELSE o[k - Len(f)]
    BY <1>4, <1>6
  <2>2. CASE k < i
    BY <1>2, <2>1, <2>2
  <2>3. CASE k = i
    <3>1. ~(k <= Len(f)) /\ k - Len(f) = 1
      BY <1>2, <2>3
    <3> QED
      BY <1>o, <2>1, <2>3, <3>1
  <2> QED
    BY <2>2, <2>3
<1>8. ASSUME NEW k \in 1..(Len(s) + 1)
      PROVE  t[k] = IF k < i THEN s[k] ELSE IF k = i THEN e ELSE s[k - 1]
  <2>1. t[k] = IF k <= i THEN h[k] ELSE g[k - i]
    BY <1>5, <1>6
  <2>2. CASE k <= i
    <3>1. k \in 1..i
      BY <2>2
    <3> QED
      BY <1>7, <2>1, <2>2, <3>1
  <2>3. CASE ~(k <= i)
    <3>1. PICK j \in 1..(Len(s) - i + 1) : j = k - i /\ i + j - 1 = k - 1 /\ k # i /\ ~(k < i)
      BY <2>3
    <3>2. t[k] = g[j] /\ g[j] = s[k - 1]
      BY <1>3, <2>1, <2>3, <3>1
    <3> QED
      BY <3>1, <3>2
  <2> QED
    BY <2>2, <2>3
<1>9. t = [k \in 1..(Len(s) + 1) |-> IF k < i THEN s[k] ELSE IF k = i THEN e ELSE s[k - 1]]
  BY <1>5, <1>6, <1>8
<1> QED
  BY <1>1, <1>9 DEF PutIn

\* A delta applied to the rows of the one view gives the rows of the other: what
\* single_row_delta takes for certain is.
LEMMA DeltaExact ==
  ASSUME NEW a \in Contents, NEW b \in Contents, NEW v, NEW P, P = Rows(a, v), NEW Q, Q = Rows(b, v),
         NEW d, d = Classified(P, Q), d.kind # "replace"
  PROVE  AppliedDelta(d, P) = Q
<1>1. PICK A, B, N, M, T : /\ A = Shown(a, v) /\ B = Shown(b, v) /\ N = Cardinality(A) /\ M = Cardinality(B)
                           /\ T = ChangedNames(P, Q) \cup RemovedNames(P, Q)
  OBVIOUS
<1>2. Cardinality(T) = 1 /\ d = RowDelta(P, Q, CHOOSE x \in T : TRUE)
  BY <1>1 DEF Classified
<1>3. PICK n \in Children :
        /\ (CHOOSE x \in T : TRUE) = n
        /\ n \in A \/ n \in B
        /\ \A m \in Children \ {n} : (m \in A <=> m \in B) /\ (m \in A => a[m] = b[m])
  BY <1>1, <1>2, OthersSame
<1>4. A \subseteq Children /\ B \subseteq Children
  BY <1>1 DEF Shown
<1>5. Ranked(a, v, A, P, N) /\ Ranked(b, v, B, Q, M)
  BY <1>1, RowsKnown
<1>6. PICK was, is : was = IndexOf(P, n) /\ is = IndexOf(Q, n)
  OBVIOUS
<1>7. /\ n \in A => was \in 1..N
      /\ n \notin A => was = 0
      /\ n \in B => is \in 1..M
      /\ n \notin B => is = 0
  <2>1. (n \in A => was \in 1..N) /\ (n \in B => is \in 1..M)
    BY <1>5, <1>6, ZenonT(40) DEF Ranked
  <2>2. (n \notin A => was = 0) /\ (n \notin B => is = 0)
    BY <1>1, <1>6, RowsAre
  <2> QED
    BY <2>1, <2>2
<1>8. PICK X : P \in Seq(X) /\ \A i \in DOMAIN Q : Q[i] \in X
  <2>1. PICK X : X = {P[i] : i \in DOMAIN P} \cup {Q[i] : i \in DOMAIN Q}
    OBVIOUS
  <2>2. N \in Nat /\ DOMAIN P = 1..N /\ P = [i \in DOMAIN P |-> P[i]]
    BY <1>5 DEF Ranked
  <2>3. P \in [1..N -> X]
    BY <2>1, <2>2
  <2>4. P \in Seq(X)
    BY <2>2, <2>3, SeqDef
  <2> QED
    BY <2>1, <2>4
<1>9. /\ N \in Nat /\ M \in Nat /\ Len(P) = N /\ Len(Q) = M /\ DOMAIN Q = 1..M
      /\ P = [i \in 1..N |-> P[i]] /\ Q = [i \in 1..M |-> Q[i]]
  BY <1>5 DEF Ranked
<1>10. d = RowDelta(P, Q, n)
  BY <1>2, <1>3
<1>11. CASE n \notin B
  <2>1. n \in A /\ B = A \ {n} /\ \A m \in B : a[m] = b[m]
    BY <1>3, <1>4, <1>11
  <2>2. TakenOut(P, Q, was)
    <3>1. /\ A = Shown(a, v) /\ B = Shown(b, v) /\ P = Rows(a, v) /\ Q = Rows(b, v)
          /\ was = IndexOf(P, n) /\ Lacks(a, A, b, B, n)
      BY <1>1, <1>6, <2>1 DEF Lacks
    <3> QED
      BY <3>1, RowsWithout
  <2>3. d.kind = "removed" /\ d.row = was
    BY <1>6, <1>7, <1>10, <1>11 DEF RowDelta
  <2>4. AppliedDelta(d, P) = Without1(P, was)
    BY <2>3 DEF AppliedDelta
  <2>5. TakenOut(P, Without1(P, was), was)
    BY <1>7, <1>8, <1>9, <2>1, RowOut
  <2> QED
    BY <2>2, <2>4, <2>5 DEF TakenOut
<1>12. CASE n \notin A
  <2>1. n \in B /\ A = B \ {n} /\ \A m \in A : b[m] = a[m]
    BY <1>3, <1>4, <1>12
  <2>t. Len(P) = Len(Q) - 1 /\ TakenOut(Q, P, is)
    <3>1. /\ A = Shown(a, v) /\ B = Shown(b, v) /\ P = Rows(a, v) /\ Q = Rows(b, v)
          /\ is = IndexOf(Q, n) /\ Lacks(b, B, a, A, n)
      BY <1>1, <1>6, <2>1 DEF Lacks
    <3> QED
      BY <3>1, RowsWithout
  <2>2. Len(P) = Len(Q) - 1 /\ P = [i \in 1..(Len(Q) - 1) |-> IF i < is THEN Q[i] ELSE Q[i + 1]]
    BY <2>t DEF TakenOut
  <2>3. d.kind = "inserted" /\ d.row = is /\ d.entry = Q[is]
    BY <1>6, <1>7, <1>10, <1>12, <2>1 DEF RowDelta
  <2>4. AppliedDelta(d, P) = SubSeq(P, 1, is - 1) \o <<Q[is]>> \o SubSeq(P, is, Len(P))
    BY <2>3 DEF AppliedDelta
  <2>5. M = N + 1 /\ is \in 1..(N + 1)
    BY <1>7, <1>9, <2>1, <2>2
  <2>6. PICK e \in X : e = Q[is]
    BY <1>7, <1>8, <1>9, <2>1
  <2>7. PutIn(P, SubSeq(P, 1, is - 1) \o <<e>> \o SubSeq(P, is, Len(P)), e, is)
    BY <1>8, <1>9, <2>5, RowIn
  <2>8. ASSUME NEW k \in 1..(N + 1)
        PROVE  Q[k] = IF k < is THEN P[k] ELSE IF k = is THEN e ELSE P[k - 1]
    <3>1. CASE k < is
      <4>1. k \in 1..(M - 1)
        BY <1>9, <2>5, <3>1
      <4> QED
        BY <1>9, <2>2, <3>1, <4>1
    <3>2. CASE k = is
      BY <2>6, <3>2
    <3>3. CASE k > is
      <4>1. PICK j \in 1..(M - 1) : j = k - 1 /\ j + 1 = k /\ ~(j < is)
        BY <1>9, <2>5, <3>3
      <4>2. P[j] = Q[j + 1]
        BY <1>9, <2>2, <4>1
      <4> QED
        BY <2>5, <3>3, <4>1, <4>2
    <3> QED
      BY <2>5, <3>1, <3>2, <3>3
  <2>9. Q = [k \in 1..(N + 1) |-> IF k < is THEN P[k] ELSE IF k = is THEN e ELSE P[k - 1]]
    BY <1>9, <2>5, <2>8
  <2> QED
    BY <1>9, <2>4, <2>6, <2>7, <2>9 DEF PutIn
<1>13. CASE n \in A /\ n \in B
  <2>1. A = B /\ \A m \in A \ {n} : a[m] = b[m]
    BY <1>3, <1>4, <1>13
  <2>2. d.kind = "updated" /\ d.row = is /\ d.entry = Q[is] /\ was = is
    BY <1>6, <1>7, <1>10, <1>13 DEF RowDelta
  <2>3. PutFor(P, Q, was)
    BY <1>1, <1>6, <1>13, <2>1, <2>2, RowsUpdated, ZenonT(40)
  <2> QED
    BY <2>2, <2>3 DEF AppliedDelta, PutFor
<1> QED
  BY <1>11, <1>12, <1>13

-----------------------------------------------------------------------------
(* What a fold sends.                                                      *)

Changes(p, e) ==
  /\ e.from = BaselineOf(session[p]) /\ e.to = BaselineOf(session'[p])
  /\ e.delta.kind # "replace" =>
       AppliedDelta(e.delta, SessionRows(session[p])) = SessionRows(session'[p])

\* The patch of a fold is made of the rows before it and the rows after it, which
\* are of one view.
LEMMA FoldSends ==
  ASSUME SessionCore, NEW p \in Panes, Fold(p)
  PROVE  \/ UNCHANGED patches
         \/ \E e : Changes(p, e) /\ patches' = [patches EXCEPT ![p] = Append(@, e)]
<1> DEFINE s == session[p]
           u == Updated(s, report[p].read)
           v == [u EXCEPT !.watch = @ + 1, !.view = @ + 1]
<1>t. CoreTypes
  BY DEF SessionCore
<1>1. CASE s = NoSession \/ s.path # report[p].path
  BY <1>1 DEF Fold
<1>2. CASE ~(s = NoSession \/ s.path # report[p].path)
  <2>1. s \in Sessions /\ s # NoSession /\ report[p] \in Reports
    BY <1>2, <1>t DEF CoreTypes, Fold
  <2>2. [n \in Children |-> IF n \in DOMAIN report[p].read THEN report[p].read[n] ELSE s.snapshot[n]]
          \in Contents
    BY <2>1 DEF Reports, Sessions, Contents
  <2>3. u \in Sessions /\ u.params = s.params
    BY <2>1, <2>2 DEF Updated, Sessions
  <2>4. /\ session' = [session EXCEPT ![p] = IF SessionRows(s) # SessionRows(u) THEN v ELSE u]
        /\ patches' = IF SessionRows(s) # SessionRows(u)
                  THEN [patches EXCEPT ![p] = Append(@, [from |-> BaselineOf(s),
                         to |-> BaselineOf(v), total |-> Len(SessionRows(v)),
                         delta |-> Classified(SessionRows(s), SessionRows(v))])]
                  ELSE patches
    BY <1>2 DEF Fold
  <2> HIDE DEF u
  <2>5. v \in Sessions /\ v.params = s.params
    <3>1. u.watch + 1 \in Nat /\ u.view + 1 \in Nat
      BY <2>3 DEF Sessions
    <3>2. PICK m \in Nat, n \in Nat : v = [u EXCEPT !.watch = m, !.view = n]
      BY <3>1
    <3> QED
      BY <2>3, <3>2 DEF Sessions
  <2> HIDE DEF v
  <2>6. CASE SessionRows(s) = SessionRows(u)
    BY <2>4, <2>6
  <2>7. CASE SessionRows(s) # SessionRows(u)
    <3>1. PICK d : d = Classified(SessionRows(s), SessionRows(v))
      OBVIOUS
    <3>2. PICK e : e = [from |-> BaselineOf(s), to |-> BaselineOf(v),
                        total |-> Len(SessionRows(v)), delta |-> d]
      OBVIOUS
    <3>3. patches' = [patches EXCEPT ![p] = Append(@, e)]
      BY <2>4, <2>7, <3>1, <3>2
    <3>4. session'[p] = v
      BY <2>4, <2>7, <1>t DEF CoreTypes
    <3>5. ASSUME d.kind # "replace" PROVE AppliedDelta(d, SessionRows(s)) = SessionRows(v)
      <4>1. PICK P, Q, a, b, w : /\ a = s.snapshot /\ b = v.snapshot /\ w = s.params
                                 /\ P = Rows(a, w) /\ Q = Rows(b, w)
        OBVIOUS
      <4>2. a \in Contents /\ b \in Contents
        BY <2>1, <2>5, <4>1 DEF Sessions
      <4>3. P = SessionRows(s) /\ Q = SessionRows(v)
        BY <2>5, <4>1 DEF SessionRows
      <4>4. d = Classified(P, Q)
        BY <3>1, <4>3
      <4>5. AppliedDelta(d, P) = Q
        BY <3>5, <4>1, <4>2, <4>4, DeltaExact
      <4> QED
        BY <4>3, <4>5
    <3>6. e.from = BaselineOf(s) /\ e.to = BaselineOf(v) /\ e.delta = d
      BY <3>2
    <3>7. Changes(p, e)
      BY <3>4, <3>5, <3>6 DEF Changes
    <3> QED
      BY <3>3, <3>7
  <2> QED
    BY <2>6, <2>7
<1> QED
  BY <1>1, <1>2

\* A patch is sent by a fold alone; what a pane takes up leaves the queue.
LEMMA PatchesMove ==
  ASSUME SessionCore, Carried, [ListNext]_listVars
  PROVE  \/ UNCHANGED patches
         \/ \E p \in Panes : Fold(p)
         \/ \E p \in Panes : patches[p] # <<>> /\ patches' = [patches EXCEPT ![p] = Tail(@)]
<1>1. CASE UNCHANGED listVars
  BY <1>1 DEF listVars, sessVars
<1>2. ASSUME ServiceStep PROVE UNCHANGED patches \/ \E p \in Panes : Fold(p)
  <2>1. ASSUME Change PROVE UNCHANGED patches
    BY <2>1 DEF Change, foldVars
  <2>2. ASSUME NEW i \in Navs, NavStep(i) PROVE UNCHANGED patches
    BY <2>2 DEF NavStep, Reserve, NavFails, Capture, Enumerate, DrainCapture, Publish, foldVars
  <2>3. ASSUME NEW p \in Panes, Reread(p) PROVE UNCHANGED patches
    BY <2>3 DEF Reread
  <2> QED
    BY <1>2, <2>1, <2>2, <2>3 DEF ServiceStep
<1>3. ASSUME NEW p \in Panes,
             \/ \E v \in ViewChoices : ReviseView(p, v) \/ \E i \in Navs, path \in Paths : Begin(p, i, path, v)
             \/ \E page \in PageNumbers : NeedPage(p, page)
             \/ Release(p)
      PROVE  UNCHANGED patches
  BY <1>3 DEF ReviseView, Begin, NeedPage, Release, sessVars
<1>4. ASSUME NEW p \in Panes, ApplyPatch(p)
      PROVE  patches[p] # <<>> /\ patches' = [patches EXCEPT ![p] = Tail(@)]
  BY <1>4 DEF ApplyPatch
<1>5. ASSUME NEW c \in calls,
             BeginServed(c) \/ BeginAnswered(c) \/ ReviseServed(c) \/ ReviseAnswered(c)
               \/ RangeServed(c) \/ RangeAnswered(c) \/ ReleaseServed(c)
      PROVE  UNCHANGED patches
  BY <1>5 DEF BeginServed, Number, BeginAnswered, ReviseServed, ReviseAnswered, RangeServed,
              RangeAnswered, ReleaseServed, sessVars, foldVars
<1> QED
  BY <1>1, <1>2, <1>3, <1>4, <1>5 DEF ListNext

\* A patch names the baselines it leads from and to, and its delta, applied to the
\* rows of the one, gives the rows of the other: single_row_delta calls a position
\* certain only when it is, for any two views, any sort key and any filter.
THEOREM PatchExact == ListSpec => PatchDescribesChange
<1>1. ListInit => Carried
  BY CarriedInit
<1>2. SessionCore /\ SessionCore' /\ Carried /\ [ListNext]_listVars => Carried'
  BY CarriedStep
<1>3. ASSUME SessionCore, Carried, [ListNext]_listVars
      PROVE  [\A p \in Panes : Len(patches'[p]) > Len(patches[p]) =>
                LET e == Last(patches'[p]) IN
                /\ e.from = BaselineOf(session[p]) /\ e.to = BaselineOf(session'[p])
                /\ e.delta.kind # "replace" =>
                     AppliedDelta(e.delta, SessionRows(session[p])) = SessionRows(session'[p])]_sessVars
  <2>t. DOMAIN patches = Panes /\ \A p \in Panes : IsSequence(patches[p])
    BY <1>3 DEF Carried, CarriesPatches
  <2>n. \A p \in Panes : Len(patches[p]) \in Nat
    BY <2>t DEF IsSequence
  <2>1. SUFFICES ASSUME NEW p \in Panes, Len(patches'[p]) > Len(patches[p])
                 PROVE  Changes(p, Last(patches'[p]))
    BY DEF Changes
  <2>2. CASE UNCHANGED patches
    BY <2>1, <2>2, <2>n
  <2>3. ASSUME NEW q \in Panes, patches[q] # <<>>, patches' = [patches EXCEPT ![q] = Tail(@)]
        PROVE  FALSE
    <3>1. CASE p # q
      BY <2>1, <2>3, <2>n, <2>t, <3>1
    <3>2. CASE p = q
      <4>1. patches'[p] = Tail(patches[p]) /\ IsSequence(patches[p]) /\ patches[p] # <<>>
        BY <2>3, <2>t, <3>2
      <4>2. Len(Tail(patches[p])) = Len(patches[p]) - 1
        BY <4>1 DEF IsSequence
      <4> QED
        BY <2>1, <2>n, <4>1, <4>2
    <3> QED
      BY <3>1, <3>2
  <2>4. ASSUME NEW q \in Panes, Fold(q), ~UNCHANGED patches PROVE Changes(p, Last(patches'[p]))
    <3>1. PICK e : Changes(q, e) /\ patches' = [patches EXCEPT ![q] = Append(@, e)]
      BY <1>3, <2>4, FoldSends
    <3>2. p = q
      <4>1. SUFFICES ASSUME p # q PROVE FALSE
        OBVIOUS
      <4> QED
        BY <2>1, <2>n, <2>t, <3>1, <4>1
    <3>3. patches'[p] = Append(patches[p], e) /\ IsSequence(patches[p])
      BY <2>t, <3>1, <3>2
    <3>4. Last(patches'[p]) = e
      BY <3>3 DEF Last, IsSequence
    <3> QED
      BY <3>1, <3>2, <3>4
  <2> QED
    BY <1>3, <2>2, <2>3, <2>4, PatchesMove
<1> QED
  BY <1>1, <1>2, <1>3, CoreAlways, PTL DEF ListSpec, PatchDescribesChange
=============================================================================
