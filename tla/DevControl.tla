----------------------------- MODULE DevControl -----------------------------
(***************************************************************************)
(* The developer dashboard: it splits users and estates into a live and a  *)
(* test view, by rules and by flags, and lets developers set flags.        *)
(*                                                                         *)
(* A request is a session of its own; each of its statements sees what is  *)
(* committed when it begins (READ COMMITTED), so that accounts, estates    *)
(* and flags change between the statements of one overview.                *)
(***************************************************************************)
EXTENDS Accounts, FiniteSetsExt

CONSTANTS
  Desk,         \* requests of developers in progress
  Estate,       \* ids of estates
  TestEmail,    \* the users whose e-mail address is one for tests
  Statements,   \* how many statements of an overview read the view
  Limit         \* how many users a list returns

ASSUME DevControlAssumption ==
  /\ NULL \notin Estate /\ User \cap Estate = {}
  /\ NULL \notin BOOLEAN /\ NULL \notin {"rule", "manual"}
  /\ TestEmail \subseteq User
  /\ Statements \in Nat \ {0} /\ Limit \in Nat

VARIABLES
  estates,      \* the rows of estates
  demo,         \* those with the name of a test estate
  estateOf,     \* profiles.estate_id
  flags,        \* devcontrol_test_flags, of users and of estates
  desk          \* what each request is executing

world == <<estates, demo, estateOf, flags>>
dashboard == <<accounts, world, desk>>

-----------------------------------------------------------------------------
Thing == User \cup Estate
Scope == {"live", "test"}

Request == [pc: {"idle", "role", "overview", "other", "shown", "list_role", "listed",
                 "exists", "write", "after"},
            by: User \cup {NULL},
            scope: Scope,
            target: Thing \cup {NULL},
            on: BOOLEAN,             \* FlagRequest.test
            read: 0..Statements,     \* statements of the overview so far
            always: SUBSET Thing,    \* what all of them counted
            ever: SUBSET Thing,      \* what some of them counted
            other: SUBSET Thing,     \* other_scope
            rows: SUBSET Thing,      \* what the lists returned
            moved: SUBSET Thing]     \* history: what changed its view meanwhile

Nothing == [pc |-> "idle", by |-> NULL, scope |-> "live", target |-> NULL, on |-> FALSE,
            read |-> 0, always |-> Thing, ever |-> {}, other |-> {}, rows |-> {}, moved |-> {}]

DashboardTypeOK ==
  /\ AccountsTypeOK
  /\ estates \in SUBSET Estate
  /\ demo \in SUBSET Estate
  /\ estateOf \in [User -> Estate \cup {NULL}]
  /\ \A u \in User : estateOf[u] # NULL => Live(u) /\ estateOf[u] \in estates
  /\ flags \in SUBSET Thing
  /\ desk \in [Desk -> Request]

DashboardInit ==
  /\ AccountsInit
  /\ estates = Estate
  /\ demo = {}
  /\ estateOf = [u \in User |-> NULL]
  /\ flags = {}
  /\ desk = [d \in Desk |-> Nothing]

-----------------------------------------------------------------------------
\* SQL's three-valued logic: an OR that has no true term is unknown if one of
\* its terms is, and so is whether NULL is in a set that has elements.
Or(terms) ==
  IF TRUE \in terms THEN TRUE ELSE IF NULL \in terms THEN NULL ELSE FALSE
In(x, S) == IF S = {} THEN FALSE ELSE IF x = NULL THEN NULL ELSE x \in S
Coalesce(b) == IF b = NULL THEN FALSE ELSE b

\* The estates that are test by their name, and those that are by a flag.
ByRule == demo \cap estates
ByFlag == (flags \cap estates) \ ByRule

\* Mutant: the terms are not coalesced.
RuleTestRaw(u) ==
  Or({role[u] = "dev_admin", u \in TestEmail, In(estateOf[u], ByRule)})

RuleTest(u) ==
  Coalesce(Or({role[u] = "dev_admin", u \in TestEmail, In(estateOf[u], ByRule)}))
ManualTest(u) == Coalesce(Or({In(estateOf[u], ByFlag), u \in flags}))

\* The view a user or an estate is in.
UserView(u) ==
  LET isTest == Or({RuleTest(u), ManualTest(u)})
  IN CASE ~Live(u) -> "absent"
       [] Live(u) /\ isTest = TRUE -> "test"
       [] Live(u) /\ isTest = FALSE -> "live"
       [] OTHER -> "neither"

EstateView(e) ==
  IF e \notin estates THEN "absent"
  ELSE IF e \in ByRule \cup ByFlag THEN "test" ELSE "live"

ViewOf(x) == IF x \in User THEN UserView(x) ELSE EstateView(x)

\* Why it is in the test view: a rule comes before a flag.
Source(x) ==
  IF ViewOf(x) # "test" THEN NULL
  ELSE IF (x \in User /\ RuleTest(x)) \/ x \in ByRule THEN "rule" ELSE "manual"

View(scope) == {x \in Thing : ViewOf(x) = scope}
Present == {x \in Thing : ViewOf(x) # "absent"}

-----------------------------------------------------------------------------
Put(d, r) == desk' = [desk EXCEPT ![d] = r]

\* Every request notices what changes its view or its flag meanwhile; before
\* it sets a flag itself, what disappears.
Notice(requests) ==
  LET gone == {x \in Thing : ViewOf(x)' = "absent"}
      changed == {x \in Thing : ViewOf(x)' # ViewOf(x) \/ (x \in flags') # (x \in flags)}
  IN desk' = [d \in Desk |->
                CASE desk[d].pc = "idle" -> requests[d]
                  [] desk[d].pc = "write" ->
                       [requests[d] EXCEPT !.moved = @ \cup (changed \cap gone)]
                  [] OTHER -> [requests[d] EXCEPT !.moved = @ \cup changed]]

\* A request to see the dashboard, or to set a flag.
AskOverview(d, u, scope) ==
  /\ desk[d].pc = "idle" /\ account[u] # "none"
  /\ Put(d, [Nothing EXCEPT !.pc = "role", !.by = u, !.scope = scope])
  /\ UNCHANGED <<accounts, world>>

AskFlag(d, u, x, on) ==
  /\ desk[d].pc = "idle" /\ account[u] # "none" /\ Change
  /\ Put(d, [Nothing EXCEPT !.pc = "role", !.by = u, !.target = x, !.on = on])
  /\ UNCHANGED <<account, role, referenced, deletion, world>>

\* require_roles("dev_admin"): the role is read from the profile, and anybody
\* else gets 403.
Admit(d, pc) ==
  /\ IF role[desk[d].by] = "dev_admin"
     THEN Put(d, [desk[d] EXCEPT !.pc = pc]) ELSE Put(d, Nothing)
  /\ UNCHANGED <<accounts, world>>

RequireRole(d) ==
  /\ desk[d].pc = "role"
  /\ Admit(d, IF desk[d].target = NULL THEN "overview" ELSE "exists")

\* One after the other, each statement of the overview counts the view.
OverviewRead(d) ==
  LET r == desk[d]
      V == View(r.scope)
  IN
  /\ r.pc = "overview"
  /\ Put(d, [r EXCEPT !.pc = IF r.read + 1 = Statements THEN "other" ELSE "overview",
                      !.read = @ + 1, !.always = @ \cap V, !.ever = @ \cup V])
  /\ UNCHANGED <<accounts, world>>

\* The last one counts the other view.
OverviewOther(d) ==
  LET r == desk[d]
  IN
  /\ r.pc = "other"
  /\ \E scope \in Scope \ {r.scope} :
       Put(d, [r EXCEPT !.pc = "shown", !.other = View(scope)])
  /\ UNCHANGED <<accounts, world>>

\* The dashboard then asks for the lists of the same view, as requests with a
\* role of their own; the list of users is cut off at a limit.
AskLists(d) ==
  /\ desk[d].pc = "shown" /\ desk[d].rows = {}
  /\ Put(d, [desk[d] EXCEPT !.pc = "list_role"])
  /\ UNCHANGED <<accounts, world>>

ListsRole(d) == desk[d].pc = "list_role" /\ Admit(d, "listed")

\* Mutant: the newest users are taken first and those of the view among them.
PagesFirst(S) ==
  LET all == {u \in User : Live(u)}
  IN {page \cap S : page \in IF Cardinality(all) <= Limit THEN {all} ELSE kSubset(Limit, all)}

Pages(S) == IF Cardinality(S) <= Limit THEN {S} ELSE kSubset(Limit, S)

Lists(d) ==
  LET r == desk[d]
      V == View(r.scope)
  IN
  /\ r.pc = "listed"
  /\ \E page \in Pages(V \cap User) :
       Put(d, [r EXCEPT !.pc = "shown", !.rows = page \cup (V \cap Estate)])
  /\ UNCHANGED <<accounts, world>>

\* The dashboard is closed, or a request is dropped.
Leave(d) ==
  /\ desk[d].pc # "idle"
  /\ Put(d, Nothing)
  /\ UNCHANGED <<accounts, world>>

-----------------------------------------------------------------------------
\* set_flag: the row exists, or 404; the flag is inserted, unless it is there,
\* or deleted, and committed; the answer is read in a transaction of its own,
\* which fails if the row is gone.
FlagExists(d) ==
  /\ desk[d].pc = "exists"
  /\ IF desk[d].target \in Present
     THEN Put(d, [desk[d] EXCEPT !.pc = "write", !.moved = {}]) ELSE Put(d, Nothing)
  /\ UNCHANGED <<accounts, world>>

\* Mutant: a flag is set but never taken back.
FlagWriteOn(d) ==
  /\ desk[d].pc = "write"
  /\ flags' = flags \cup {desk[d].target}
  /\ UNCHANGED <<accounts, estates, demo, estateOf>>
  /\ Notice([desk EXCEPT ![d].pc = "after"])

FlagWrite(d) ==
  /\ desk[d].pc = "write"
  /\ flags' = IF desk[d].on THEN flags \cup {desk[d].target} ELSE flags \ {desk[d].target}
  /\ UNCHANGED <<accounts, estates, demo, estateOf>>
  /\ Notice([desk EXCEPT ![d].pc = "after"])

FlagAnswer(d) ==
  /\ desk[d].pc = "after" /\ desk[d].target \in Present
  /\ Put(d, Nothing)
  /\ UNCHANGED <<accounts, world>>

FlagLost(d) ==
  /\ desk[d].pc = "after" /\ desk[d].target \notin Present
  /\ Put(d, Nothing)
  /\ UNCHANGED <<accounts, world>>

-----------------------------------------------------------------------------
\* Residents are settled in an estate or leave it; an estate is renamed, or
\* removed, which leaves its members without one.
Settle(u, e) ==
  /\ Live(u) /\ estateOf[u] # e /\ Change
  /\ estateOf' = [estateOf EXCEPT ![u] = e]
  /\ UNCHANGED <<account, role, referenced, deletion, estates, demo, flags>>
  /\ Notice(desk)

Rename(e) ==
  /\ e \in estates /\ Change
  /\ demo' = IF e \in demo THEN demo \ {e} ELSE demo \cup {e}
  /\ UNCHANGED <<account, role, referenced, deletion, estates, estateOf, flags>>
  /\ Notice(desk)

RemoveEstate(e) ==
  /\ e \in estates /\ Change
  /\ estates' = estates \ {e}
  /\ estateOf' = [u \in User |-> IF estateOf[u] = e THEN NULL ELSE estateOf[u]]
  /\ UNCHANGED <<account, role, referenced, deletion, demo, flags>>
  /\ Notice(desk)

\* What happens to accounts, as the dashboard sees it.
AccountsMove ==
  /\ \/ \E s \in Session : Delete(s)
     \/ \E u \in User : SignUp(u) \/ Refer(u) \/ Remove(u)
     \/ \E u \in User, r \in Role : SetRole(u, r)
  /\ estateOf' = [u \in User |-> IF account'[u] = "live" THEN estateOf[u] ELSE NULL]
  /\ UNCHANGED <<estates, demo, flags>>
  /\ Notice(desk)

Develop(d) ==
  \/ \E u \in User, scope \in Scope : AskOverview(d, u, scope)
  \/ \E u \in User, x \in Thing, on \in BOOLEAN : AskFlag(d, u, x, on)
  \/ RequireRole(d)
  \/ OverviewRead(d) \/ OverviewOther(d) \/ AskLists(d) \/ ListsRole(d) \/ Lists(d)
  \/ Leave(d)
  \/ FlagExists(d) \/ FlagWrite(d) \/ FlagAnswer(d) \/ FlagLost(d)

DashboardNext ==
  \/ AccountsMove
  \/ \E d \in Desk : Develop(d)
  \/ \E u \in User, e \in Estate \cup {NULL} : (e = NULL \/ e \in estates) /\ Settle(u, e)
  \/ \E e \in Estate : Rename(e) \/ RemoveEstate(e)

DashboardSpec == DashboardInit /\ [][DashboardNext]_dashboard

-----------------------------------------------------------------------------
\* The strengthening: of what has not changed its view since the request began,
\* the overview knows the view it is in now, as far as its statements have
\* come, and so do the lists; the target of a flag has not disappeared, and
\* after the write has the flag that was asked for.
Steady(r) == Present \ r.moved

CountOK(r) ==
  /\ r.pc = "role" => r.read = 0 /\ r.always = Thing /\ r.ever = {}
  /\ r.pc = "overview" => r.read < Statements
  /\ r.pc \in {"other", "shown", "list_role", "listed"} => r.read = Statements
  /\ r.pc \in {"overview", "other", "shown", "list_role", "listed"} =>
       \A x \in Steady(r) :
         /\ x \in r.always <=> r.read = 0 \/ ViewOf(x) = r.scope
         /\ x \in r.ever <=> r.read > 0 /\ ViewOf(x) = r.scope
  /\ r.pc \in {"shown", "list_role", "listed"} =>
       \A x \in Steady(r) : x \in r.other <=> ViewOf(x) # r.scope

ListOK(r) ==
  /\ r.pc # "shown" => r.rows = {}
  /\ r.pc = "shown" /\ r.rows # {} =>
       \A x \in Steady(r) :
         \/ x \in r.rows <=> ViewOf(x) = r.scope
         \/ x \in User /\ Cardinality(r.rows \cap User) = Limit

FlagOK(r) ==
  /\ r.pc \in {"exists", "write", "after"} => r.target \in Thing
  /\ r.pc = "write" => r.target \in Present \cup r.moved
  /\ r.pc = "after" =>
       r.target \in r.moved \/ (r.target \in Present /\ (r.target \in flags <=> r.on))

RequestOK(r) ==
  /\ r.pc # "idle" => r.by \in User
  /\ CountOK(r) /\ ListOK(r) /\ FlagOK(r)

DeskOK(d) == RequestOK(desk[d])

DashboardInv ==
  DashboardTypeOK /\ AccountsInv /\ \A d \in Desk : DeskOK(d)

\* An overview counts every user and every estate once: in all figures of its
\* own view or else as one of the other view.  Excepted are those that change
\* their view while it is read; an unknown term of a rule excepts nobody.
CountedOnce ==
  \A d \in Desk :
    desk[d].pc = "shown" =>
      \A x \in Present \ desk[d].moved :
        \/ x \in desk[d].always /\ x \notin desk[d].other
        \/ x \notin desk[d].ever /\ x \in desk[d].other

\* The lists show what the overview counted, unless it changed its view since,
\* but no more users than a list has room for.
ListsWhatItCounts ==
  \A d \in Desk :
    LET r == desk[d]
    IN r.pc = "shown" /\ r.rows # {} =>
         \A x \in Present \ r.moved :
           \/ x \in r.rows <=> x \in r.always
           \/ x \in User /\ Cardinality(r.rows \cap User) = Limit

\* set_flag answers with what it did: the target is in the test view, or it is
\* there for another reason than its own flag, unless others moved it since.
AnswerIsCurrent ==
  [][\A d \in Desk :
       LET x == desk[d].target
       IN /\ FlagLost(d) => x \in desk[d].moved
          /\ FlagAnswer(d) /\ x \notin desk[d].moved =>
               IF desk[d].on THEN Source(x) # NULL
               ELSE \/ Source(x) \in {NULL, "rule"}
                    \/ x \in User /\ estateOf[x] \in ByFlag]_dashboard
=============================================================================
