------------------------------- MODULE Shell -------------------------------
(***************************************************************************)
(* The dashboard's navigation: the address bar, the landing page or the    *)
(* application (main.tsx), the hash router (shell/routing.tsx) with its    *)
(* role matrix (auth/rbac.ts), and the client that AppShell owns.          *)
(*                                                                         *)
(* The browser reports a change of the hash later, and the listeners read  *)
(* the hash of that moment: several changes may be reported as one.        *)
(***************************************************************************)
EXTENDS FiniteSets

CONSTANT NoRoute    \* a hash that is no route: "#/home", "", a typing error

RouteId == {"map", "deliveries", "drivers", "vehicles", "zones", "reports"}
UserRole == {"Administrator", "Dispatcher", "Driver", "Customer"}

ASSUME ShellAssumption == NoRoute \notin RouteId

VARIABLES
  role,        \* VITE_ROLE
  hash,        \* location.hash, parsed
  reported,    \* no change of the hash is still to be reported
  inApp,       \* Root's state; AppShell is mounted while it is TRUE
  requested,   \* useHashRoute's state
  synced,      \* the route the sync effect last ran for
  connected    \* AppShell's SocketClient exists and is not disconnected

shellVars == <<role, hash, reported, inApp, requested, synced, connected>>

CanAccess(r, route) ==
  \/ r = "Administrator"
  \/ r = "Dispatcher" /\ route \in {"map", "deliveries", "reports"}

\* The first accessible route is the map; a role without routes gets none.
DefaultRoute(r) == IF CanAccess(r, "map") THEN "map" ELSE NoRoute
Resolve(asked, r) == IF asked # NoRoute /\ CanAccess(r, asked) THEN asked ELSE DefaultRoute(r)

Route == Resolve(requested, role)

\* renderRoute: no route falls through to the map.
View == IF Route = NoRoute THEN "map" ELSE Route

\* A page is opened; AppShell, if it is the view, has run its effects.
ShellInit ==
  /\ role \in UserRole
  /\ hash \in RouteId \cup {NoRoute}
  /\ inApp = (hash # NoRoute)
  /\ requested = hash /\ synced = NoRoute
  /\ connected = inApp
  /\ reported = FALSE

\* location.hash = h; the browser reports only a change.
SetHash(h) ==
  /\ hash' = h
  /\ reported' = (reported /\ h = hash)

\* The tabs of the top bar, and the one that is marked as the current page.
Tabs == {route \in RouteId : CanAccess(role, route)}
CurrentTab == Tabs \cap {Route}

-----------------------------------------------------------------------------
\* The user edits the address, follows a link, or goes back.
TypeAddress(h) ==
  /\ h # hash /\ SetHash(h)
  /\ UNCHANGED <<role, inApp, requested, synced, connected>>

\* navigate() does nothing for a route that the role may not access.
Navigate(route) ==
  /\ inApp /\ CanAccess(role, route) /\ SetHash(route)
  /\ UNCHANGED <<role, inApp, requested, synced, connected>>

ClickTab(route) == route \in Tabs /\ Navigate(route)

\* The search button is there for every role.
Search == Navigate("deliveries")

\* The buttons of the landing page and of the brand mark.
Enter == ~inApp /\ SetHash("map") /\ UNCHANGED <<role, inApp, requested, synced, connected>>
Home  == inApp /\ SetHash(NoRoute) /\ UNCHANGED <<role, inApp, requested, synced, connected>>

\* The effect that keeps the hash in sync runs when the route changes or the
\* router is mounted.
SyncEffect(route, mounted) ==
  /\ synced' = route
  /\ IF (mounted \/ route # synced) /\ route \notin {NoRoute, hash}
     THEN hash' = route /\ reported' = FALSE
     ELSE hash' = hash /\ reported' = TRUE

\* hashchange, also the first render: Root mounts AppShell, which makes its
\* client, or unmounts it, which disconnects the client.
MutHashChangeKeepsClient ==
  /\ ~reported
  /\ inApp' = (hash # NoRoute)
  /\ connected' = (connected \/ inApp')
  /\ requested' = hash
  /\ IF inApp' THEN SyncEffect(Resolve(hash, role), ~inApp \/ synced = NoRoute)
     ELSE synced' = NoRoute /\ hash' = hash /\ reported' = TRUE
  /\ UNCHANGED role
HashChange ==
  /\ ~reported
  /\ inApp' = (hash # NoRoute)
  /\ connected' = inApp'
  /\ requested' = hash
  /\ IF inApp' THEN SyncEffect(Resolve(hash, role), ~inApp \/ synced = NoRoute)
     ELSE synced' = NoRoute /\ hash' = hash /\ reported' = TRUE
  /\ UNCHANGED role

ShellNext ==
  \/ \E h \in RouteId \cup {NoRoute} : TypeAddress(h)
  \/ \E route \in RouteId : ClickTab(route)
  \/ Search \/ Enter \/ Home \/ HashChange

ShellSpec == ShellInit /\ [][ShellNext]_shellVars
-----------------------------------------------------------------------------
(***************************************************************************)
(* Properties.                                                             *)
(***************************************************************************)

HasView == \E route \in RouteId : CanAccess(role, route)

\* Whatever is typed, redirected to or gone back to, a user of the dashboard
\* is shown a view of the role's row in the matrix.
ViewIsPermitted == inApp /\ HasView => CanAccess(role, View)

\* The same for every role (routing.tsx returns null, renderRoute shows the map).
ViewIsPermittedAlways == inApp => CanAccess(role, View)

\* Once the browser has reported everything, what is mounted is what the
\* address says, and the live connection is open exactly while the shell is.
AddressDecides ==
  reported => /\ inApp <=> hash # NoRoute
              /\ connected <=> inApp

\* "Keep the URL hash in sync with the resolved route (handles redirects)".
\* Not so when a forbidden address resolves to the view that is open already.
AddressShowsRoute == reported /\ inApp /\ HasView => hash = Route

\* What is kept of it: when the view changes, the address goes with it.
ViewChangeSyncs ==
  [][inApp /\ inApp' /\ HasView /\ Route' # Route => hash' = Route']_shellVars

\* The tab that is marked is the view that is open, redirects included, and it
\* is the only one; a user without a view has no tabs either.
TabShowsView == inApp => CurrentTab = IF HasView THEN {View} ELSE {}

\* Address, view, tab and connection agree, and only permitted views are shown.
ShellSafe == [](ViewIsPermitted /\ TabShowsView /\ AddressDecides) /\ ViewChangeSyncs
=============================================================================
