------------------------------ MODULE NativeMenu ------------------------------
(***************************************************************************)
(* The native context menu (native_menu/): a cache of menus by file type   *)
(* whose misses are shared in flights (menu_cache.rs), two supervised      *)
(* helper processes that enumerate them (helper_supervisor.rs), and tokens *)
(* that stand for the commands of the menu on screen (token_store.rs).     *)
(*                                                                         *)
(* Interactive requests hold the key "native-menu" of the resource         *)
(* coordinator while they run, one at a time; background warming runs on   *)
(* two threads of its own.  A menu is one command, or none.                *)
(***************************************************************************)
EXTENDS Naturals, FiniteSets, Sequences

CONSTANTS
  Menus,      \* requests for a menu
  MenuType,   \* MenuType[m]: the file type, the key of the cache
  Warming,    \* the requests that only warm the cache
  WarmSlots,  \* threads of the warm pool
  MenuCap     \* MAX_CACHE_ENTRIES

NoMenu == "none"

ASSUME MenuAssumption ==
  /\ Warming \subseteq Menus /\ NoMenu \notin Menus /\ DOMAIN MenuType = Menus
  /\ MenuCap \in Nat \ {0}

Types == {MenuType[m] : m \in Menus}
HelperRoles == {"Interactive", "Warm"}
RoleOf(m) == IF m \in Warming THEN "Warm" ELSE "Interactive"

Known == INSTANCE BoundedCache WITH MaxEntries <- MenuCap, MaxWeight <- MenuCap

VARIABLES
  menuCache,  \* entries
  flights,    \* flights[t]: the load in flight of a type, by its leader
  flown,      \* flown[m]: the result of the flight m leads
  joined,     \* joined[m]: the flight m takes part in
  step,       \* step[m]: where the request is
  got,        \* got[m]: the menu it is answered with
  helper,     \* helper[r]: the child of the role: there or not, and the calls it still has to answer
  user,       \* user[r]: who holds the role's lock
  tokens,     \* the requests whose token can be used
  runs,       \* runs[m]: how often the command of m's menu was run
  failed      \* history: failed[r], the types for which a call of the role failed

menuVars == <<menuCache, flights, flown, joined, step, got, helper, user, tokens, runs, failed>>

MenuInit ==
  /\ menuCache = Known!Empty
  /\ flights = [t \in Types |-> NoMenu]
  /\ flown = [m \in Menus |-> "none"] /\ joined = [m \in Menus |-> NoMenu]
  /\ step = [m \in Menus |-> "off"] /\ got = [m \in Menus |-> "none"]
  /\ helper = [r \in HelperRoles |-> [up |-> FALSE, owes |-> <<>>]]
  /\ user = [r \in HelperRoles |-> NoMenu]
  /\ tokens = {} /\ runs = [m \in Menus |-> 0]
  /\ failed = [r \in HelperRoles |-> {}]

Goes(m, s) == step' = [step EXCEPT ![m] = s]
Busy(m) == step[m] \notin {"off", "shown", "done"}

\* The coordinator's key, and the threads of the warm pool.
MayRun(m) ==
  IF m \in Warming THEN Cardinality({n \in Warming : Busy(n)}) < WarmSlots
  ELSE \A n \in Menus \ Warming : ~Busy(n)

----------------------------------------------------------------------------
(* load_menu and warm.                                                     *)

TokensAtLoad(m) == IF m \in Warming THEN tokens ELSE {}

OpenMenu(m) ==
  /\ step[m] = "off" /\ MayRun(m)
  /\ tokens' = TokensAtLoad(m) /\ Goes(m, "look")
  /\ UNCHANGED <<menuCache, flights, flown, joined, got, helper, user, runs, failed>>

\* get_or_load: the cache, under its own lock.
LookUpMenu(m) ==
  /\ step[m] = "look"
  /\ LET t == MenuType[m] hit == Known!Has(menuCache, t) IN
     /\ menuCache' = Known!Touch(menuCache, t)
     /\ got' = IF hit THEN [got EXCEPT ![m] = Known!Value(menuCache, t)] ELSE got
     /\ Goes(m, IF hit THEN "answer" ELSE "join")
  /\ UNCHANGED <<flights, flown, joined, helper, user, tokens, runs, failed>>

\* Mutant: everybody who missed loads.
LeadAlways(t, m) == m
Leader(t, m) == IF flights[t] = NoMenu THEN m ELSE flights[t]

\* The first who missed leads, the others wait.
JoinFlight(m) ==
  /\ step[m] = "join"
  /\ LET l == Leader(MenuType[m], m) IN
     /\ joined' = [joined EXCEPT ![m] = l]
     /\ flights' = [flights EXCEPT ![MenuType[m]] = l]
     /\ Goes(m, IF l = m THEN "load" ELSE "wait")
  /\ UNCHANGED <<menuCache, flown, got, helper, user, tokens, runs, failed>>

\* The leader stores what it loaded and reads it back.  It takes as many inserts
\* as the cache has entries to evict that in between: such a leader panics, and
\* here takes no further step.
InsertMenu(m) ==
  /\ step[m] = "insert"
  /\ menuCache' = Known!Insert(menuCache, MenuType[m], got[m], 1)
  /\ Goes(m, "fetch")
  /\ UNCHANGED <<flights, flown, joined, got, helper, user, tokens, runs, failed>>

PublishFlight(m) ==
  /\ step[m] = "fetch" /\ Known!Has(menuCache, MenuType[m])
  /\ flown' = [flown EXCEPT ![m] = Known!Value(menuCache, MenuType[m])]
  /\ menuCache' = Known!Touch(menuCache, MenuType[m])
  /\ Goes(m, "land")
  /\ UNCHANGED <<flights, joined, got, helper, user, tokens, runs, failed>>

LandFlight(m) ==
  /\ step[m] = "land"
  /\ flights' = [flights EXCEPT ![MenuType[m]] = NoMenu]
  /\ Goes(m, "wait")
  /\ UNCHANGED <<menuCache, flown, joined, got, helper, user, tokens, runs, failed>>

TakeFlown(m) ==
  /\ step[m] = "wait" /\ flown[joined[m]] # "none"
  /\ got' = [got EXCEPT ![m] = flown[joined[m]]]
  /\ Goes(m, "answer")
  /\ UNCHANGED <<menuCache, flights, flown, joined, helper, user, tokens, runs, failed>>

\* normalize_item issues a token for every command; warming issues none.
AnswerMenu(m) ==
  /\ step[m] = "answer"
  /\ tokens' = IF m \notin Warming /\ got[m] = "menu" THEN tokens \cup {m} ELSE tokens
  /\ Goes(m, IF m \in Warming THEN "done" ELSE "shown")
  /\ UNCHANGED <<menuCache, flights, flown, joined, got, helper, user, runs, failed>>

----------------------------------------------------------------------------
(* HelperSupervisor::call, for a load or for a command.                    *)

CallRole(m) == IF step[m] \in {"invoke", "invoking"} THEN "Interactive" ELSE RoleOf(m)

\* The role's lock; a helper is spawned when there is none.
CallHelper(m) ==
  /\ step[m] \in {"load", "invoke"} /\ user[CallRole(m)] = NoMenu
  /\ LET r == CallRole(m) IN
     /\ user' = [user EXCEPT ![r] = m]
     /\ helper' = [helper EXCEPT ![r] = [up |-> TRUE, owes |-> Append(@.owes, m)]]
  /\ Goes(m, IF step[m] = "load" THEN "loading" ELSE "invoking")
  /\ UNCHANGED <<menuCache, flights, flown, joined, got, tokens, runs, failed>>

\* What comes after the call: the load's result, or the command's status.
Returned(m, result) ==
  /\ user' = [user EXCEPT ![CallRole(m)] = NoMenu]
  /\ IF step[m] = "loading"
       THEN got' = [got EXCEPT ![m] = result] /\ Goes(m, "insert")
       ELSE Goes(m, "shown") /\ UNCHANGED got

\* The child answers what it was asked first; only an answer with the call's
\* own id is taken.
HelperAnswers(m) ==
  /\ step[m] \in {"loading", "invoking"} /\ user[CallRole(m)] = m
  /\ LET r == CallRole(m) IN
     /\ helper[r].owes # <<>> /\ Head(helper[r].owes) = m
     /\ helper' = [helper EXCEPT ![r].owes = Tail(@)]
     /\ runs' = IF step[m] = "invoking" THEN [runs EXCEPT ![m] = @ + 1] ELSE runs
  /\ Returned(m, "menu")
  /\ UNCHANGED <<menuCache, flights, flown, joined, tokens, failed>>

HelperAfterFailure(r) == [up |-> FALSE, owes |-> <<>>]

\* The spawn fails, the deadline passes, the child dies, or the answer is
\* malformed or another call's: the helper is dropped.
HelperFails(m) ==
  /\ step[m] \in {"loading", "invoking"} /\ user[CallRole(m)] = m
  /\ LET r == CallRole(m) IN
     /\ helper' = [helper EXCEPT ![r] = HelperAfterFailure(r)]
     /\ failed' = IF step[m] = "loading" THEN [failed EXCEPT ![r] = @ \cup {MenuType[m]}] ELSE failed
  /\ Returned(m, "empty")
  /\ UNCHANGED <<menuCache, flights, flown, joined, tokens, runs>>

----------------------------------------------------------------------------
(* The tokens.                                                             *)

TokensAfter(m) == tokens \ {m}

\* invoke_menu_action: take is one step of the store; a token that is gone is
\* refused.
InvokeMenu(m) ==
  /\ step[m] = "shown" /\ m \in tokens /\ \A n \in Menus \ Warming : ~Busy(n)
  /\ tokens' = TokensAfter(m) /\ Goes(m, "invoke")
  /\ UNCHANGED <<menuCache, flights, flown, joined, got, helper, user, runs, failed>>

\* TOKEN_TTL passes.
ExpireToken(m) ==
  /\ m \in tokens /\ tokens' = tokens \ {m}
  /\ UNCHANGED <<menuCache, flights, flown, joined, step, got, helper, user, runs, failed>>

MenuNext ==
  \E m \in Menus :
    \/ OpenMenu(m) \/ LookUpMenu(m) \/ JoinFlight(m) \/ InsertMenu(m) \/ PublishFlight(m)
    \/ LandFlight(m) \/ TakeFlown(m) \/ AnswerMenu(m)
    \/ CallHelper(m) \/ HelperAnswers(m) \/ HelperFails(m)
    \/ InvokeMenu(m) \/ ExpireToken(m)

MenuSpec == MenuInit /\ [][MenuNext]_menuVars

----------------------------------------------------------------------------
\* Type correctness.
MenuTypeOK ==
  /\ Known!WithinLimits(menuCache)
  /\ flights \in [Types -> Menus \cup {NoMenu}] /\ joined \in [Menus -> Menus \cup {NoMenu}]
  /\ flown \in [Menus -> {"none", "menu", "empty"}] /\ got \in [Menus -> {"none", "menu", "empty"}]
  /\ user \in [HelperRoles -> Menus \cup {NoMenu}]
  /\ tokens \subseteq Menus \ Warming

\* Two loads of one type are never under way together, and whoever waits for a
\* flight waits for one that has landed or whose leader is on its way.
OneLoadPerType ==
  /\ \A m, n \in Menus : m # n /\ MenuType[m] = MenuType[n] =>
       ~(step[m] \in {"load", "loading", "insert", "fetch"} /\ step[n] \in {"load", "loading", "insert", "fetch"})
  /\ \A m \in Menus : step[m] = "wait" =>
       flown[joined[m]] # "none" \/ step[joined[m]] \in {"load", "loading", "insert", "fetch"}

\* A call starts with a helper that owes nothing to an earlier call: what a
\* deadline left unanswered is never taken for, or spoils, a later answer.
HelpersAreFresh ==
  \A r \in HelperRoles :
    helper[r].owes = IF user[r] = NoMenu THEN <<>> ELSE <<user[r]>>

\* The commands that can be run are those of the newest menu, each at most once.
TokensAreOfNewest ==
  /\ Cardinality(tokens) <= 1 /\ \A m \in Menus : runs[m] <= 1
  /\ \A m \in tokens : \A n \in Menus \ Warming : step[n] \in {"off", "shown"}

\* What the supervisor says of a failing helper: it contaminates only its role.
\* An interactive menu is empty only when an interactive enumeration failed.
FailureStaysInRole ==
  \A m \in Menus \ Warming :
    step[m] = "shown" /\ got[m] = "empty" => MenuType[m] \in failed["Interactive"]

\* What holds in every state: loads of a type are shared, a helper is never asked
\* with an answer outstanding, and only the newest menu's commands can be run.
MenuInv == MenuTypeOK /\ OneLoadPerType /\ HelpersAreFresh /\ TokensAreOfNewest
=============================================================================
