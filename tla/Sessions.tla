------------------------------ MODULE Sessions ------------------------------
(***************************************************************************)
(* Accounts and tokens of the management service (src/auth): login,        *)
(* refresh and tracking tokens, their lifetimes in whole seconds against a *)
(* clock in milliseconds, and the roles they carry while the roles of the  *)
(* accounts change.  A JWT is abstracted to its claims: one that was not   *)
(* issued by the service does not verify.                                  *)
(***************************************************************************)
EXTENDS Naturals, FiniteSets

CONSTANTS
  Email, StaffRole, Password, TrackedDelivery,
  Second,          \* milliseconds in a second
  AccessTtl, RefreshTtl, TrackingTtl,   \* seconds
  MaxClock,        \* bound on the clock
  MaxTokens,       \* bound on the tokens kept
  NoAccount

ASSUME SessionsAssumption ==
  /\ {Second, AccessTtl, RefreshTtl, TrackingTtl, MaxClock, MaxTokens} \subseteq Nat
  /\ Second > 0 /\ NoAccount \notin StaffRole

VARIABLES
  clock,       \* config.now()
  account,     \* byEmail
  tokens,      \* tokens somebody still holds
  lastHad      \* history: when an account last had a role, or never

sessionVars == <<clock, account, tokens, lastHad>>

Never == MaxClock + 1

SessionsInit ==
  /\ clock = 0
  /\ account = [e \in Email |-> NoAccount]
  /\ tokens = {}
  /\ lastHad = [e \in Email |-> [r \in StaffRole |-> Never]]

NowSeconds == clock \div Second

-----------------------------------------------------------------------------
(***************************************************************************)
(* jwt.ts and the helpers of AuthService.                                  *)
(***************************************************************************)

\* born and login are history: when the token, and the session, began.
Claims(type, sub, role, ttl, login) ==
  [type |-> type, sub |-> sub, role |-> role, exp |-> NowSeconds + ttl,
   born |-> clock, login |-> login]

Verifies(token) == clock < token.exp * Second

Ttl(type) == CASE type = "access" -> AccessTtl
               [] type = "refresh" -> RefreshTtl
               [] type = "tracking" -> TrackingTtl

Keep(new) ==
  /\ tokens' = tokens \cup new /\ Cardinality(tokens') <= MaxTokens
  /\ UNCHANGED <<clock, account, lastHad>>

\* register: also the way an account gets another password or role.
Register(e, password, role) ==
  /\ account' = [account EXCEPT ![e] = [role |-> role, password |-> password]]
  /\ lastHad' = [lastHad EXCEPT ![e][role] = clock]
  /\ UNCHANGED <<clock, tokens>>

\* A wrong password or e-mail is refused without a trace.
Login(e, password) ==
  /\ account[e] # NoAccount /\ account[e].password = password
  /\ Keep({Claims(type, e, account[e].role, Ttl(type), clock) : type \in {"access", "refresh"}})

MutRefreshAnyToken(token) ==
  /\ Verifies(token) /\ token.type # "tracking"
  /\ Keep({Claims("access", token.sub, token.role, AccessTtl, token.login)})
\* The role is that of the refresh token; the account is not looked at.
Refresh(token) ==
  /\ Verifies(token) /\ token.type = "refresh"
  /\ Keep({Claims("access", token.sub, token.role, AccessTtl, token.login)})

IssueTrackingToken(d) ==
  Keep({Claims("tracking", d, "Customer", TrackingTtl, clock)})

\* The scope a token resolves to: one delivery, or none.
ResolveTrackingToken(token) ==
  IF Verifies(token) /\ token.type = "tracking" THEN {token.sub} ELSE {}

-----------------------------------------------------------------------------
(***************************************************************************)
(* rbac.ts.                                                                *)
(***************************************************************************)

Action   == {"create", "update", "deactivate", "read"}
Resource ==
  [type : {"Driver", "Vehicle", "Zone", "Delivery", "Assignment"},
   owner : Email \cup {NoAccount}, delivery : TrackedDelivery]

Dispatchable == {"Delivery", "Assignment"}

AuthorizeCustomer(scope, action, resource) ==
  action = "read" /\ resource.type = "Delivery" /\ scope = {resource.delivery}

AuthorizeDriver(user, action, resource) ==
  action = "read" /\ resource.type \in Dispatchable /\ resource.owner = user

AuthorizeDispatcher(action, resource) ==
  \/ action = "read"
  \/ action = "create" /\ resource.type \in Dispatchable

\* The principal is what the verified token says.
Authorize(token, action, resource) ==
  \/ token.role = "Administrator"
  \/ token.role = "Dispatcher" /\ AuthorizeDispatcher(action, resource)
  \/ token.role = "Driver" /\ AuthorizeDriver(token.sub, action, resource)
  \/ token.role = "Customer" /\ AuthorizeCustomer(ResolveTrackingToken(token), action, resource)

\* requireAuthorization; a request whose token does not verify has no principal.
Respond(token, action, resource) ==
  IF ~Verifies(token) THEN "401"
  ELSE IF Authorize(token, action, resource) THEN "handled" ELSE "403"

-----------------------------------------------------------------------------
Discard(token) == tokens' = tokens \ {token} /\ UNCHANGED <<clock, account, lastHad>>

Pass ==
  /\ clock < MaxClock /\ clock' = clock + 1
  /\ lastHad' = [e \in Email |-> [r \in StaffRole |->
                  IF account[e] # NoAccount /\ account[e].role = r THEN clock' ELSE lastHad[e][r]]]
  /\ UNCHANGED <<account, tokens>>

SessionsNext ==
  \/ \E e \in Email, p \in Password : Login(e, p) \/ \E r \in StaffRole : Register(e, p, r)
  \/ \E token \in tokens : Refresh(token) \/ Discard(token)
  \/ \E d \in TrackedDelivery : IssueTrackingToken(d)
  \/ Pass

SessionsSpec == SessionsInit /\ [][SessionsNext]_sessionVars

-----------------------------------------------------------------------------
(***************************************************************************)
(* Properties.                                                             *)
(***************************************************************************)

\* A token verifies for its lifetime, to within the second that whole-second
\* claims lose: never a millisecond longer, and at least ttl - 1 seconds.
LivesItsLifetime ==
  \A token \in tokens :
    LET age == clock - token.born IN
      /\ Verifies(token) => age < Ttl(token.type) * Second
      /\ age + Second <= Ttl(token.type) * Second => Verifies(token)

\* However often it is refreshed, a session ends: nothing of it verifies longer
\* than the two lifetimes after the login.
SessionEnds ==
  \A token \in tokens : token.type # "tracking" /\ Verifies(token) =>
    clock < token.login + (RefreshTtl + AccessTtl) * Second

\* What a token opens follows its owner, and ends: a tracking link opens its
\* delivery for reading, while it lasts, and nothing else; a driver reads their
\* own work and changes nothing; no session outlives its two lifetimes.
ScopeIsKept ==
  \A token \in tokens, action \in Action, resource \in Resource :
    Respond(token, action, resource) = "handled" =>
      /\ token.type # "tracking" => clock < token.login + (RefreshTtl + AccessTtl) * Second
      /\ token.type = "tracking" =>
           /\ clock < token.born + TrackingTtl * Second
           /\ action = "read" /\ resource.type = "Delivery" /\ resource.delivery = token.sub
      /\ token.role = "Driver" => action = "read" /\ resource.owner = token.sub

\* A role that was taken from an account lives on in its tokens, through
\* refreshes too, but no longer than that.
RoleTakenAwayExpires ==
  \A token \in tokens : token.type # "tracking" /\ Verifies(token) =>
    /\ lastHad[token.sub][token.role] # Never
    /\ clock < lastHad[token.sub][token.role] + (RefreshTtl + AccessTtl) * Second

\* What a reader might expect: a token acts with the role of the account.
RoleIsCurrent ==
  \A token \in tokens : token.type # "tracking" /\ Verifies(token) =>
    account[token.sub].role = token.role

\* Tokens last and open what they should, and what they carry expires.
SessionsSafe == ScopeIsKept /\ LivesItsLifetime /\ SessionEnds /\ RoleTakenAwayExpires
=============================================================================
