------------------------------ MODULE Identities ------------------------------
(***************************************************************************)
(* Registered names, trips and their roles: the commands register, remove  *)
(* and access (internal/command/identity_commands.go, remove.go) over the  *)
(* tables names, trips and trip_names (internal/repository/sqlite), and    *)
(* the authorization that reads the roles (service/security_service.go).   *)
(* authorize is no part of it: the registry (handlers.go) constructs the   *)
(* one that asks the chat server.                                          *)
(* register asks twice and then writes in a transaction of its own; the    *)
(* commands of two engines, or of an engine and a turn of the agent, run   *)
(* between each other's steps.  SQLite is external: a transaction is one   *)
(* step that commits, fails, or commits with an error reported.            *)
(***************************************************************************)
EXTENDS Integers, FiniteSets

CONSTANTS
    Workers,             \* those that run commands at the same time
    Words,               \* names to register
    Lowered,             \* LOWER of a word
    TripCodes,
    AdminTrips,          \* Config.AdminTrips
    Grantable,           \* the roles that access gives
    MaxAsked, MaxFaults  \* bounds: commands, failures of the database

(* model.Role: the strongest is least.                                     *)
ADMIN == 0
MODERATOR == 1
REGULAR == 4
PEST == 5

ASSUME IdentityAssumption ==
    /\ Lowered \in [Words -> Words] /\ Words \intersect TripCodes = {}
    /\ AdminTrips \subseteq TripCodes /\ Grantable \subseteq ADMIN..PEST
    /\ {MaxAsked, MaxFaults} \subseteq Nat

VARIABLES
    nameRows,    \* names: [name, at, checked]; at and checked are history: the writes
                 \* before the row and before the check that led to it
    tripRoles,   \* trips: the role of each trip that has a row
    tripNames,   \* trip_names: pairs of trip and name
    works,       \* the command of each worker
    writes,      \* history: transactions committed
    askedCommands, faults

identityVars == <<nameRows, tripRoles, tripNames, works, writes, askedCommands, faults>>

NoWork == [is |-> "none", step |-> "idle", word |-> "", targets |-> {}, role |-> REGULAR,
           known |-> FALSE, checked |-> 0, admin |-> FALSE, committed |-> FALSE,
           answer |-> "none"]

IdentityInit ==
    /\ nameRows = {} /\ tripRoles = <<>> /\ tripNames = {} /\ writes = 0
    /\ works = [w \in Workers |-> NoWork] /\ askedCommands = 0 /\ faults = 0

-----------------------------------------------------------------------------
(* Roles *)

HasTrip(t) == t \in DOMAIN tripRoles
ResolveRole(t) == IF HasTrip(t) THEN tripRoles[t] ELSE REGULAR
IsTripAuthorized(t, required) == t \in AdminTrips \/ ResolveRole(t) <= required

Required(command) == IF command = "access" THEN ADMIN ELSE MODERATOR

-----------------------------------------------------------------------------
(* The tables *)

SameWord(a, b) == Lowered[a] = Lowered[b]
RowsLiterally(word) == {r \in nameRows : r.name = word}       \* slip: LOWER forgotten
RowsNamed(word) == {r \in nameRows : SameWord(r.name, word)}

WithTrip(t, role) == [u \in DOMAIN tripRoles \union {t} |-> IF u = t THEN role ELSE tripRoles[u]]
NewRow(word, checked) == [name |-> word, at |-> writes, checked |-> checked]
NameIsFree(word) == \A r \in nameRows : r.name # word     \* names.name UNIQUE

(* A transaction: its writes, or none of them.  A commit may report an       *)
(* error although it took place.                                             *)
Transact(w, allowed, effect, changed) ==
    \/ /\ allowed /\ effect /\ writes' = writes + 1 /\ UNCHANGED faults
       /\ works' = [works EXCEPT ![w].step = "reply", ![w].answer = "success",
                                 ![w].committed = changed]
    \/ /\ allowed /\ effect /\ writes' = writes + 1
       /\ faults < MaxFaults /\ faults' = faults + 1
       /\ works' = [works EXCEPT ![w].step = "reply", ![w].answer = "failed"]
    \/ /\ \/ ~allowed /\ UNCHANGED faults
          \/ faults < MaxFaults /\ faults' = faults + 1
       /\ works' = [works EXCEPT ![w].step = "reply", ![w].answer = "failed"]
       /\ UNCHANGED <<nameRows, tripRoles, tripNames, writes>>

-----------------------------------------------------------------------------
(* Commands *)

Begin(w, caller, work) ==
    /\ works[w].step = "idle" /\ askedCommands < MaxAsked
    /\ IsTripAuthorized(caller, Required(work.is))
    /\ askedCommands' = askedCommands + 1
    /\ works' = [works EXCEPT ![w] = [work EXCEPT
            !.admin = caller \in AdminTrips \/ ResolveRole(caller) = ADMIN]]
    /\ UNCHANGED <<nameRows, tripRoles, tripNames, writes, faults>>

AskRegister(w, caller, word, t) ==
    Begin(w, caller, [NoWork EXCEPT !.is = "register", !.step = "name", !.word = word,
                                    !.targets = {t}])
AskRemove(w, caller, selector) ==
    Begin(w, caller, [NoWork EXCEPT !.is = "remove", !.step = "write", !.word = selector])
AskAccess(w, caller, targets, role) ==
    Begin(w, caller, [NoWork EXCEPT !.is = "access", !.step = "write", !.targets = targets,
                                    !.role = role])

IsNameRegistered(w) ==
    /\ works[w].step = "name"
    /\ works' = [works EXCEPT ![w] =
            IF Cardinality(RowsNamed(@.word)) > 1
            THEN [@ EXCEPT !.step = "idle", !.answer = "failed"]
            ELSE [@ EXCEPT !.step = "trip", !.checked = writes,
                           !.known = RowsNamed(works[w].word) # {}]]
    /\ UNCHANGED <<nameRows, tripRoles, tripNames, writes, askedCommands, faults>>

(* The second question; both known is a refusal.                             *)
Writing(known, has) ==
    CASE ~known /\ ~has -> "Register"
      [] ~known /\ has  -> "RegisterNameByTrip"
      [] known /\ ~has  -> "RegisterTripByName"
      [] OTHER          -> "refused"
IsTripRegistered(w, t) ==
    /\ works[w].step = "trip" /\ works[w].targets = {t}
    /\ works' = [works EXCEPT ![w] =
            IF Writing(@.known, HasTrip(t)) = "refused"
            THEN [@ EXCEPT !.step = "reply", !.answer = "failed"]
            ELSE [@ EXCEPT !.step = Writing(works[w].known, HasTrip(t))]]
    /\ UNCHANGED <<nameRows, tripRoles, tripNames, writes, askedCommands, faults>>

RegisterUpserts(w, t) ==               \* slip: the row of the trip is replaced
    /\ works[w].step = "Register" /\ works[w].targets = {t}
    /\ Transact(w, NameIsFree(works[w].word),
        /\ nameRows' = nameRows \union {NewRow(works[w].word, works[w].checked)}
        /\ tripRoles' = WithTrip(t, REGULAR)
        /\ tripNames' = tripNames \union {<<t, works[w].word>>}, TRUE)
    /\ UNCHANGED askedCommands
Register(w, t) ==
    /\ works[w].step = "Register" /\ works[w].targets = {t}
    /\ Transact(w, NameIsFree(works[w].word) /\ ~HasTrip(t),
        /\ nameRows' = nameRows \union {NewRow(works[w].word, works[w].checked)}
        /\ tripRoles' = WithTrip(t, REGULAR)
        /\ tripNames' = tripNames \union {<<t, works[w].word>>}, TRUE)
    /\ UNCHANGED askedCommands

RegisterNameByTrip(w, t) ==
    /\ works[w].step = "RegisterNameByTrip" /\ works[w].targets = {t}
    /\ Transact(w, HasTrip(t) /\ NameIsFree(works[w].word),
        /\ nameRows' = nameRows \union {NewRow(works[w].word, works[w].checked)}
        /\ tripNames' = tripNames \union {<<t, works[w].word>>} /\ UNCHANGED tripRoles, TRUE)
    /\ UNCHANGED askedCommands

RegisterTripByName(w, t) ==
    /\ works[w].step = "RegisterTripByName" /\ works[w].targets = {t}
    /\ Transact(w, Cardinality(RowsNamed(works[w].word)) = 1 /\ ~HasTrip(t),
        /\ tripRoles' = WithTrip(t, REGULAR)
        /\ tripNames' = tripNames \union {<<t, r.name>> : r \in RowsNamed(works[w].word)}
        /\ UNCHANGED nameRows, TRUE)
    /\ UNCHANGED askedCommands

(* access: every target of the list, or none.                                *)
GrantTrips(w) ==
    /\ works[w].is = "access" /\ works[w].step = "write"
    /\ Transact(w, TRUE,
        /\ tripRoles' = [t \in DOMAIN tripRoles \union works[w].targets |->
                IF t \in works[w].targets THEN works[w].role ELSE tripRoles[t]]
        /\ UNCHANGED <<nameRows, tripNames>>, TRUE)
    /\ UNCHANGED askedCommands

(* remove: the one relation that the selector means, and its ends if nothing *)
(* else holds them.                                                          *)
Selected(selector) ==
    {p \in tripNames : p[1] = selector \/ (selector \in Words /\ SameWord(p[2], selector))}
Left(p) == tripNames \ {p}
OnlyTheRelation(p) == {p[1]}            \* slip: the name stays
Bereft(p) ==
    {t \in {p[1]} : \A q \in Left(p) : q[1] # t} \union {n \in {p[2]} : \A q \in Left(p) : q[2] # n}

DeleteIdentity(w) ==
    /\ works[w].is = "remove" /\ works[w].step = "write"
    /\ \E found \in {Selected(works[w].word)} :
        \/ /\ Cardinality(found) = 1
           /\ \E p \in found : Transact(w, TRUE,
                /\ tripNames' = Left(p)
                /\ tripRoles' = [t \in DOMAIN tripRoles \ Bereft(p) |-> tripRoles[t]]
                /\ nameRows' = {r \in nameRows : r.name \notin Bereft(p)}, TRUE)
        \/ Cardinality(found) # 1 /\ Transact(w, FALSE, FALSE, FALSE)
    /\ UNCHANGED askedCommands

(* The acknowledgement may fail after the commit.                            *)
Acknowledge(w) ==
    /\ works[w].step = "reply"
    /\ \E answer \in {works[w].answer, "failed"} :
        works' = [works EXCEPT ![w].step = "idle", ![w].answer = answer]
    /\ UNCHANGED <<nameRows, tripRoles, tripNames, writes, askedCommands, faults>>

Cancelled(w) ==
    /\ works[w].step \notin {"idle", "reply"}
    /\ works' = [works EXCEPT ![w].step = "idle", ![w].answer = "failed"]
    /\ UNCHANGED <<nameRows, tripRoles, tripNames, writes, askedCommands, faults>>

IdentityNext == \E w \in Workers :
    \/ \E caller \in TripCodes :
         \/ \E word \in Words, t \in TripCodes : AskRegister(w, caller, word, t)
         \/ \E selector \in Words \union TripCodes : AskRemove(w, caller, selector)
         \/ \E targets \in SUBSET TripCodes \ {{}}, role \in Grantable :
                AskAccess(w, caller, targets, role)
    \/ IsNameRegistered(w)
    \/ \E t \in TripCodes : \/ IsTripRegistered(w, t)
                        \/ Register(w, t)
                        \/ RegisterNameByTrip(w, t)
                        \/ RegisterTripByName(w, t)
    \/ GrantTrips(w) \/ DeleteIdentity(w) \/ Acknowledge(w) \/ Cancelled(w)

IdentitySpec == IdentityInit /\ [][IdentityNext]_identityVars

-----------------------------------------------------------------------------
(* Properties *)

(* The tables have their shape, and a relation has both its ends.            *)
IdentityTypeOK ==
    /\ \A t \in DOMAIN tripRoles : t \in TripCodes /\ tripRoles[t] \in ADMIN..PEST
    /\ \A r \in nameRows : r.name \in Words
    /\ \A p \in tripNames : HasTrip(p[1]) /\ ~NameIsFree(p[2])

(* Every registered name belongs to a trip: no interleaving of register,     *)
(* remove and access and no failed transaction leaves a name nobody can use  *)
(* or free (identity.go:31-110, sql_util_group_b.go:115-151).                *)
NamesHaveOwners == \A r \in nameRows : \E p \in tripNames : p[2] = r.name

(* Two names that differ in case only, which make every later lookup fail as *)
(* ambiguous, come from two registrations that overlapped: the second was    *)
(* checked before the first was written (identity_commands.go:46-66).        *)
TwinsOverlapped ==
    \A r, s \in nameRows : r.name # s.name /\ SameWord(r.name, s.name) =>
        r.checked <= s.at /\ s.checked <= r.at

(* A stored role changes when an administrator grants that very trip a role, *)
(* or goes with the last name of the trip; a registration that raced a grant *)
(* does not undo it (identity.go:43-46, authorization.go:41-57).             *)
RolesAreOnlyGranted ==
    [][\A t \in TripCodes : ResolveRole(t)' # ResolveRole(t) =>
        \E w \in Workers :
            \/ works[w].is = "access" /\ t \in works[w].targets /\ works[w].admin
            \/ works[w].is = "remove" /\ ~HasTrip(t)' /\ \E p \in tripNames : p[1] = t
      ]_identityVars

(* A name has an owner, two rows of one name come only from overlapping    *)
(* registrations, and a role changes only by a command that grants it.     *)
IdentitiesAreKept ==
    [](IdentityTypeOK /\ NamesHaveOwners /\ TwinsOverlapped) /\ RolesAreOnlyGranted
=============================================================================
