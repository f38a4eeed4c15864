----------------------------- MODULE MCConsole -----------------------------
(***************************************************************************)
(* Instances for TLC of the parts of the dashboard.  Every part runs by    *)
(* itself: each behaviour is a behaviour of the part that subject names,   *)
(* from any of its initial states, while the others stay in one of theirs. *)
(***************************************************************************)
EXTENDS SocketClient, FleetState, MapView, GlobeSpin, Shell, Brand, Widgets,
        FleetSimulation, Roster

CONSTANTS t1, t2

VARIABLE subject

\* A route with a corner that is listed twice, through two zones that touch.
MCLoop  == <<<<0, 0>>, <<3, 0>>, <<3, 0>>, <<3, 2>>, <<0, 2>>>>
MCZones == {<<<<0, -1>>, <<2, 1>>>>, <<<<2, -1>>, <<5, 2>>>>}

\* Two assignments, the second with a delivery that is not stored.
MCManifest == <<<<2, 1>>, <<1, 3>>>>

Subject == {"socket", "fleet", "map", "spin", "shell", "brand", "widgets",
            "simulation", "tables", "roster"}

ConsoleInit ==
  /\ subject \in Subject
  /\ SocketInit /\ (subject = "socket" \/ (kind = "socket" /\ transport = t1))
  /\ FleetInit
  /\ MapInit /\ (subject = "map" \/ map = "loading")
  /\ SpinInit
  /\ ShellInit /\ (subject = "shell" \/ (role = "Administrator" /\ hash = "map"))
  /\ BrandInit /\ (subject = "brand" \/
       (paletteUrl = NoUrl /\ logoUrl = NoUrl /\ content = [url \in Url |-> Empty]))
  /\ WidgetInit
  /\ SimInit /\ (subject = "simulation" \/ (segIndex = 1 /\ segFrac = 0))
  /\ TablesInit /\ (subject = "tables" \/
       (cellOf = [r \in Row |-> <<>>] /\ statusOf = [r \in Row |-> OtherStatus]))
  /\ RosterInit /\ (subject = "roster" \/
       /\ vanOf = [d \in 1..Staff |-> NoVan]
       /\ jobs = [i \in DOMAIN Manifest |-> [driver |-> 1, van |-> "v1", complete |-> TRUE]]
       /\ routed = {1})

ConsoleNext ==
  /\ IF subject = "socket"     THEN SocketNext ELSE UNCHANGED socketVars
  /\ IF subject = "fleet"      THEN FleetNext  ELSE UNCHANGED fleetVars
  /\ IF subject = "map"        THEN MapNext    ELSE UNCHANGED mapVars
  /\ IF subject = "spin"       THEN SpinNext   ELSE UNCHANGED spinVars
  /\ IF subject = "shell"      THEN ShellNext  ELSE UNCHANGED shellVars
  /\ IF subject = "brand"      THEN BrandNext  ELSE UNCHANGED brandVars
  /\ IF subject = "widgets"    THEN WidgetNext ELSE UNCHANGED widgetVars
  /\ IF subject = "simulation" THEN SimNext    ELSE UNCHANGED simVars
  /\ IF subject = "tables"     THEN TablesNext ELSE UNCHANGED tableVars
  /\ IF subject = "roster"     THEN RosterNext ELSE UNCHANGED rosterVars
  /\ UNCHANGED subject

consoleVars == <<subject, socketVars, fleetVars, mapVars, spinVars, shellVars,
                 brandVars, widgetVars, simVars, tableVars, rosterVars>>

\* A client that stands still is not bound to connect; a globe that does has
\* nothing to do.
ConsoleSpec ==
  /\ ConsoleInit /\ [][ConsoleNext]_consoleVars
  /\ subject = "socket" => SocketFairness
  /\ SpinFairness

\* What becomes of a connection (SocketClient): off it stays off, on it comes
\* back.
SocketReturns == StaysOffline /\ (subject = "socket" => Reconnects)
=============================================================================
