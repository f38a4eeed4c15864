---------------------------- MODULE ClientProofs ----------------------------
(***************************************************************************)
(* Proofs about the clients: of the dashboard, navigation (Shell), the     *)
(* live map (MapView), branding (Brand), the reconnecting client           *)
(* (SocketClient), toasts and dialogs (Widgets), the operations views      *)
(* (Tables, Roster), the demo's vehicles (FleetSimulation) and the turning *)
(* globe (GlobeSpin); the tracking page of the customer (Tracking); and    *)
(* the driver's phone (DriverApp).                                         *)
(***************************************************************************)
EXTENDS Shell, MapView, Brand, SocketClient, Widgets, Roster, FleetSimulation, GlobeSpin,
        Tracking, DriverApp, OrderingProofs, SequenceTheorems, FiniteSetTheorems, TLAPS

-----------------------------------------------------------------------------
(***************************************************************************)
(* Navigation.  The sync effect has last run for the route that is shown,  *)
(* or not yet since the shell was mounted: that is why the next change of  *)
(* the route is seen by it.                                                *)
(***************************************************************************)

ShellInv ==
  /\ role \in UserRole
  /\ inApp \in BOOLEAN /\ connected \in BOOLEAN /\ reported \in BOOLEAN
  /\ hash \in RouteId \cup {NoRoute} /\ requested \in RouteId \cup {NoRoute}
  /\ connected <=> inApp
  /\ inApp => synced \in {NoRoute, Route}
  /\ AddressDecides

\* What a role is shown, whatever is asked for.
LEMMA ResolvePermitted ==
  ASSUME NEW r \in UserRole, NEW wanted \in RouteId \cup {NoRoute}
  PROVE  /\ Resolve(wanted, r) \in RouteId \cup {NoRoute}
         /\ (\E page \in RouteId : CanAccess(r, page)) =>
              Resolve(wanted, r) # NoRoute /\ CanAccess(r, Resolve(wanted, r))
         /\ ~(\E page \in RouteId : CanAccess(r, page)) => Resolve(wanted, r) = NoRoute
  BY ShellAssumption DEF Resolve, DefaultRoute, CanAccess, RouteId, UserRole

LEMMA ShellInvInit == ShellInit => ShellInv
<1> SUFFICES ASSUME ShellInit PROVE ShellInv
  OBVIOUS
<1>1. inApp \in BOOLEAN /\ connected = inApp /\ reported = FALSE
  BY DEF ShellInit
<1> QED BY <1>1 DEF ShellInit, ShellInv, AddressDecides

LEMMA ShellInvStep == ShellInv /\ [ShellNext]_shellVars => ShellInv'
<1> SUFFICES ASSUME ShellInv, [ShellNext]_shellVars PROVE ShellInv'
  OBVIOUS
<1>1. ASSUME NEW h \in RouteId \cup {NoRoute}, SetHash(h),
             UNCHANGED <<role, inApp, requested, synced, connected>>
      PROVE  ShellInv'
  BY <1>1 DEF SetHash, ShellInv, AddressDecides, Route
<1>2. CASE HashChange
  <2>1. Resolve(hash, role) \in RouteId \cup {NoRoute} /\ Route' = Resolve(hash, role)
    BY <1>2, ResolvePermitted DEF HashChange, ShellInv, Route
  <2>2. CASE hash # NoRoute
    BY <1>2, <2>1, <2>2, ShellAssumption DEF HashChange, SyncEffect, ShellInv, AddressDecides
  <2>3. CASE hash = NoRoute
    BY <1>2, <2>1, <2>3 DEF HashChange, ShellInv, AddressDecides
  <2> QED BY <2>2, <2>3
<1>3. CASE UNCHANGED shellVars
  BY <1>3 DEF shellVars, ShellInv, AddressDecides, Route
<1>4. "map" \in RouteId /\ "deliveries" \in RouteId
  BY DEF RouteId
<1> QED
  BY <1>1, <1>2, <1>3, <1>4 DEF ShellNext, TypeAddress, ClickTab, Navigate, Search, Enter, Home

\* The route that is shown changes only when the browser reports the hash; the
\* sync effect then runs, and leaves the new route in the address.
LEMMA RouteChangeSyncs ==
  ShellInv /\ [ShellNext]_shellVars /\ inApp /\ inApp' /\ HasView /\ Route' # Route
    => hash' = Route'
<1> SUFFICES ASSUME ShellInv, [ShellNext]_shellVars, inApp, inApp', HasView, Route' # Route
             PROVE  hash' = Route'
  OBVIOUS
<1>1. HashChange
  BY DEF ShellNext, TypeAddress, ClickTab, Navigate, Search, Enter, Home, shellVars, Route
<1>2. Route' = Resolve(hash, role) /\ Route' # NoRoute
  BY <1>1, ResolvePermitted DEF HashChange, Route, ShellInv, HasView
<1>3. hash # NoRoute
  BY <1>1 DEF HashChange
<1>4. synced = NoRoute \/ Route' # synced
  BY DEF ShellInv
<1> QED BY <1>1, <1>2, <1>3, <1>4 DEF HashChange, SyncEffect

\* Whatever is typed, clicked or gone back to, in whatever order the browser
\* reports it: only permitted views are shown, the marked tab is the view, the
\* client lives exactly with the shell, and a change of view reaches the address
\* (routing.tsx, main.tsx).
THEOREM ShellCorrect == ShellSpec => ShellSafe
<1>1. ASSUME ShellInv PROVE ViewIsPermitted /\ TabShowsView
  <2>1. /\ Route \in RouteId \cup {NoRoute}
        /\ HasView => Route # NoRoute /\ CanAccess(role, Route)
        /\ ~HasView => Route = NoRoute
    BY <1>1, ResolvePermitted DEF ShellInv, Route, HasView
  <2>2. ViewIsPermitted
    BY <2>1 DEF ViewIsPermitted, View
  <2>3. CASE HasView
    BY <2>1, <2>2, <2>3 DEF TabShowsView, CurrentTab, Tabs, View
  <2>4. CASE ~HasView
    BY <2>1, <2>2, <2>4, ShellAssumption DEF TabShowsView, CurrentTab, Tabs
  <2> QED BY <2>3, <2>4
<1>2. ShellInv => ViewIsPermitted /\ TabShowsView /\ AddressDecides
  BY <1>1 DEF ShellInv
<1>3. ShellInv /\ [ShellNext]_shellVars =>
        [inApp /\ inApp' /\ HasView /\ Route' # Route => hash' = Route']_shellVars
  BY RouteChangeSyncs
<1> QED
  BY ShellInvInit, ShellInvStep, <1>2, <1>3, PTL DEF ShellSpec, ShellSafe, ViewChangeSyncs

-----------------------------------------------------------------------------
(***************************************************************************)
(* The live map.  A view that is not dirty has been committed: the markers *)
(* are those of the vehicles shown, the trace is that of the selection.    *)
(* The camera has framed a selection at most once: after a fit, framedRef  *)
(* holds it.                                                               *)
(***************************************************************************)

\* The marker that belongs to a vehicle.
MarkerOf(v) ==
  IF v \in Shown THEN [status |-> fleet[v].status, selected |-> v = selected] ELSE Nothing

MapInv ==
  /\ MapTypeOK
  /\ RemovedIsEmpty
  /\ choice = 0 \/ (choice = 1 /\ (selected = Nothing \/ framed = selected))
  /\ ~dirty /\ map = "ready" =>
       /\ \A v \in MapVehicle : markers[v] = MarkerOf(v)
       /\ drawn = selected
       /\ selected = Nothing \/ selected \in Shown

LEMMA MapInvInit == MapInit => MapInv
  BY MapAssumption DEF MapInit, MapInv, MapTypeOK, RemovedIsEmpty

LEMMA StreamUpdateStep ==
  ASSUME MapInv, NEW v \in MapVehicle, StreamUpdate(v) PROVE MapInv'
<1>1. fleet' \in [MapVehicle -> {Nothing} \cup [status : Status, zones : SUBSET Zone]]
  BY DEF StreamUpdate, MapInv, MapTypeOK
<1>2. samples' \in [MapVehicle -> 0..Enough]
  <2>1. CASE UNCHANGED samples
    BY <2>1 DEF MapInv, MapTypeOK
  <2>2. CASE samples[v] < Enough /\ samples' = [samples EXCEPT ![v] = @ + 1]
    BY <2>2, MapAssumption DEF MapInv, MapTypeOK
  <2> QED BY <2>1, <2>2 DEF StreamUpdate
<1> QED BY <1>1, <1>2 DEF StreamUpdate, MapInv, MapTypeOK, RemovedIsEmpty

LEMMA SetFilterStep ==
  ASSUME MapInv, NEW s \in Status \cup {Nothing}, NEW z \in Zone \cup {Nothing}, SetFilter(s, z)
  PROVE  MapInv'
  BY DEF SetFilter, MapInv, MapTypeOK, RemovedIsEmpty

LEMMA ClickStep ==
  ASSUME MapInv, NEW v \in MapVehicle, Click(v) PROVE MapInv'
  BY DEF Click, MapInv, MapTypeOK, RemovedIsEmpty

LEMMA LoadStep == ASSUME MapInv, Load PROVE MapInv'
  BY DEF Load, MapInv, MapTypeOK, RemovedIsEmpty

LEMMA UnmountStep == ASSUME MapInv, Unmount PROVE MapInv'
  BY DEF Unmount, MapInv, MapTypeOK, RemovedIsEmpty

\* The effects of a render, in their order.
LEMMA CommitStep == ASSUME MapInv, Commit PROVE MapInv'
<1>1. /\ dirty /\ map # "removed"
      /\ UNCHANGED <<fleet, samples, filter, map>>
      /\ Shown' = Shown
  BY DEF Commit, Shown
<1>2. /\ selected' \in MapVehicle \cup {Nothing} /\ dirty' \in BOOLEAN
      /\ selected' = Nothing \/ selected' = selected
      /\ ~dirty' => selected' = selected /\ (selected = Nothing \/ selected \in Shown)
  BY DEF Commit, ClearSelection, MapInv, MapTypeOK
<1>3. CASE map = "ready"
  <2>1. Reconcile /\ DrawTrace
    BY <1>3 DEF Commit
  <2>2. markers' = [v \in MapVehicle |-> MarkerOf(v)]
    BY <2>1 DEF Reconcile, MarkerOf
  <2>3. \A v \in MapVehicle : MarkerOf(v) \in {Nothing} \cup [status : Status, selected : BOOLEAN]
    BY DEF MarkerOf, Shown, MapInv, MapTypeOK
  <2>4. markers' \in [MapVehicle -> {Nothing} \cup [status : Status, selected : BOOLEAN]]
    BY <2>2, <2>3
  <2>5. /\ drawn' = selected /\ framed' \in MapVehicle \cup {Nothing}
        /\ choice' = 0 \/ (choice' = 1 /\ (selected = Nothing \/ framed' = selected))
    BY <2>1 DEF DrawTrace, Fits, MapInv, MapTypeOK
  <2>6. MapTypeOK'
    BY <1>1, <1>2, <2>4, <2>5 DEF MapInv, MapTypeOK
  <2>7. ~dirty' => \A v \in MapVehicle : markers'[v] = MarkerOf(v)'
    BY <1>1, <1>2, <2>2 DEF MarkerOf
  <2> QED BY <1>1, <1>2, <1>3, <2>5, <2>6, <2>7 DEF MapInv, RemovedIsEmpty
<1>4. CASE map # "ready"
  <2>1. UNCHANGED <<markers, drawn, framed, choice>>
    BY <1>4 DEF Commit
  <2> QED BY <1>1, <1>2, <1>4, <2>1 DEF MapInv, MapTypeOK, RemovedIsEmpty
<1> QED BY <1>3, <1>4

LEMMA MapInvStep == MapInv /\ [MapNext]_mapVars => MapInv'
<1> SUFFICES ASSUME MapInv, [MapNext]_mapVars PROVE MapInv'
  OBVIOUS
<1>1. CASE UNCHANGED mapVars
  BY <1>1 DEF mapVars, MapInv, MapTypeOK, RemovedIsEmpty, MarkerOf, Shown
<1> QED
  BY <1>1, StreamUpdateStep, SetFilterStep, ClickStep, LoadStep, CommitStep, UnmountStep
  DEF MapNext

\* For any fleet, filters and clicks, in any order with the renders: the markers
\* on the map are the filtered fleet, the selection is one of them, the camera
\* frames it once, and a removed map has none (MapView.tsx, LiveMap.tsx).
THEOREM MapCorrect == MapSpec => []MapSafe
<1>1. MapInv => MapSafe
  <2> SUFFICES ASSUME MapInv PROVE MapShowsTheView /\ SelectionIsVisible /\ FramedOnce
    BY DEF MapInv, MapSafe
  <2>1. FramedOnce
    BY DEF MapInv, FramedOnce
  <2>2. ASSUME ~dirty, map = "ready"
        PROVE  /\ \A v \in MapVehicle : markers[v] = MarkerOf(v)
               /\ drawn = selected
               /\ selected = Nothing \/ selected \in Shown
    BY <2>2 DEF MapInv
  <2>3. MapShowsTheView
    BY <2>2 DEF MapShowsTheView, MarkerOf, Shown
  <2>4. ASSUME ~dirty, map = "ready", selected # Nothing PROVE markers[selected] # Nothing
    <3>1. selected \in Shown /\ markers[selected] = MarkerOf(selected)
      BY <2>2, <2>4 DEF Shown
    <3>2. MarkerOf(selected) \in [status : Status, selected : BOOLEAN]
      BY <3>1 DEF MarkerOf, Shown, MapInv, MapTypeOK
    <3> QED BY <3>1, <3>2, MapAssumption
  <2> QED BY <2>1, <2>3, <2>4 DEF SelectionIsVisible
<1> QED BY MapInvInit, MapInvStep, <1>1, PTL DEF MapSpec

-----------------------------------------------------------------------------
(***************************************************************************)
(* Branding.  Only the fetch of the current URL is not cancelled, and      *)
(* while there is none the palette is what the current URL has given.      *)
(***************************************************************************)

BrandInv ==
  /\ BrandTypeOK
  /\ content \in [Url -> Palette]
  /\ css = MergePalette(loaded)
  /\ loaded \in {Empty} \cup {content[url] : url \in Url}
  /\ \A l \in loads : ~l.cancelled => l.url = paletteUrl
  /\ paletteUrl # NoUrl /\ (\A l \in loads : l.cancelled) =>
       loaded \in {Empty, content[paletteUrl]}
  /\ broken # {} => failed

LEMMA FetchType ==
  ASSUME NEW u \in Url, NEW k \in 0..MaxLoads
  PROVE  /\ Fetch(u, k) \in [url : Url, n : 0..MaxLoads, cancelled : BOOLEAN]
         /\ Fetch(u, k).url = u /\ Fetch(u, k).cancelled = FALSE
  BY DEF Fetch

LEMMA BrandInvInit == BrandInit => BrandInv
<1> SUFFICES ASSUME BrandInit PROVE BrandInv
  OBVIOUS
<1>1. Empty \in Palette
  BY DEF Empty, Palette, Value
<1>2. css \in [Token -> {"default", "custom"}]
  BY DEF BrandInit, MergePalette
<1>3. /\ loads \subseteq [url : Url, n : 0..MaxLoads, cancelled : BOOLEAN]
      /\ \A l \in loads : ~l.cancelled /\ l.url = paletteUrl
      /\ paletteUrl # NoUrl => loads # {}
  <2>1. CASE paletteUrl = NoUrl
    <3>1. loads = {}
      BY <2>1 DEF BrandInit
    <3> QED BY <2>1, <3>1
  <2>2. CASE paletteUrl # NoUrl
    <3>1. loads = {Fetch(paletteUrl, 0)} /\ paletteUrl \in Url /\ 0 \in 0..MaxLoads
      BY <2>2, BrandAssumption DEF BrandInit
    <3> QED BY <3>1, FetchType
  <2> QED BY <2>1, <2>2
<1>4. BrandTypeOK
  <2>1. nextLoad \in 1..MaxLoads
    BY BrandAssumption DEF BrandInit
  <2> QED BY <1>1, <1>2, <1>3, <2>1 DEF BrandInit, BrandTypeOK
<1> QED BY <1>3, <1>4 DEF BrandInit, BrandInv

LEMMA ChangeUrlStep ==
  ASSUME BrandInv, NEW url \in Url \cup {NoUrl}, ChangeUrl(url)
  PROVE  BrandInv'
<1> DEFINE Old == {[l EXCEPT !.cancelled = TRUE] : l \in loads}
           New == IF url = NoUrl THEN {} ELSE {Fetch(url, nextLoad)}
<1>1. /\ loads' = Old \cup New /\ paletteUrl' = url /\ nextLoad' = nextLoad + 1
      /\ nextLoad < MaxLoads
      /\ UNCHANGED <<content, loaded, css, logoUrl, failed, broken>>
  BY DEF ChangeUrl
<1>2. /\ Old \subseteq [url : Url, n : 0..MaxLoads, cancelled : BOOLEAN]
      /\ \A l \in Old : l.cancelled
  BY DEF BrandInv, BrandTypeOK
<1>3. /\ New \subseteq [url : Url, n : 0..MaxLoads, cancelled : BOOLEAN]
      /\ \A l \in New : ~l.cancelled /\ l.url = url
      /\ url # NoUrl => New # {}
  <2>1. nextLoad \in 0..MaxLoads
    BY BrandAssumption DEF BrandInv, BrandTypeOK
  <2>2. CASE url = NoUrl
    BY <2>2
  <2>3. CASE url # NoUrl
    <3>1. New = {Fetch(url, nextLoad)} /\ url \in Url
      BY <2>3
    <3> HIDE DEF New
    <3> QED BY <2>1, <3>1, FetchType
  <2> QED BY <2>2, <2>3
<1> HIDE DEF Old, New
<1>4. nextLoad' \in 1..MaxLoads
  BY <1>1, BrandAssumption DEF BrandInv, BrandTypeOK
<1>5. BrandTypeOK'
  BY <1>1, <1>2, <1>3, <1>4 DEF BrandInv, BrandTypeOK
<1> QED BY <1>1, <1>2, <1>3, <1>5 DEF BrandInv, MergePalette, Empty

LEMMA ResolvedStep ==
  ASSUME BrandInv, NEW l \in loads, Resolved(l)
  PROVE  BrandInv'
<1>1. /\ loads' = loads \ {l}
      /\ UNCHANGED <<content, paletteUrl, nextLoad, logoUrl, failed, broken>>
  BY DEF Resolved
<1>2. CASE l.cancelled
  <2>1. UNCHANGED <<loaded, css>>
    BY <1>2 DEF Resolved
  <2>2. (\A k \in loads' : k.cancelled) => \A k \in loads : k.cancelled
    BY <1>1, <1>2
  <2> QED BY <1>1, <2>1, <2>2 DEF BrandInv, BrandTypeOK, MergePalette, Empty
<1>3. CASE ~l.cancelled
  <2>1. l.url = paletteUrl /\ l.url \in Url
    BY <1>3 DEF BrandInv, BrandTypeOK
  <2>2. PICK p \in {Empty, content[l.url]} : loaded' = p /\ css' = MergePalette(p)
    BY <1>3 DEF Resolved
  <2>3. p \in Palette
    BY <2>1, <2>2 DEF BrandInv, Empty, Palette, Value
  <2>4. css' \in [Token -> {"default", "custom"}]
    BY <2>2 DEF MergePalette
  <2>5. BrandTypeOK'
    BY <1>1, <2>2, <2>3, <2>4 DEF BrandInv, BrandTypeOK
  <2> QED BY <1>1, <2>1, <2>2, <2>5 DEF BrandInv, MergePalette, Empty
<1> QED BY <1>2, <1>3

LEMMA LogoStep ==
  ASSUME BrandInv, LogoFails \/ \E url \in Url \cup {NoUrl} : ChangeLogo(url)
  PROVE  BrandInv'
<1>1. CASE LogoFails
  BY <1>1 DEF LogoFails, ShownLogo, BrandInv, BrandTypeOK, MergePalette, Empty
<1>2. CASE \E url \in Url \cup {NoUrl} : ChangeLogo(url)
  BY <1>2 DEF ChangeLogo, BrandInv, BrandTypeOK, MergePalette, Empty
<1> QED BY <1>1, <1>2

LEMMA BrandInvStep == BrandInv /\ [BrandNext]_brandVars => BrandInv'
<1> SUFFICES ASSUME BrandInv, [BrandNext]_brandVars PROVE BrandInv'
  OBVIOUS
<1>1. CASE UNCHANGED brandVars
  BY <1>1 DEF brandVars, BrandInv, BrandTypeOK, MergePalette, Empty
<1> QED BY <1>1, ChangeUrlStep, ResolvedStep, LogoStep DEF BrandNext

\* Whatever answers come in whatever order while the URL changes: at rest the
\* colours are those of the current URL or the defaults, only usable colours
\* override, and no image that failed is shown (BrandProvider, palette,
\* BrandLogo).
THEOREM BrandCorrect == BrandSpec => []BrandSafe
<1>1. BrandInv => BrandSafe
  <2> SUFFICES ASSUME BrandInv PROVE ColoursFollowUrl /\ OnlyUsableColours /\ NoBrokenImage
    BY DEF BrandInv, BrandSafe
  <2>1. ColoursFollowUrl
    BY DEF BrandInv, ColoursFollowUrl
  <2>2. OnlyUsableColours
    BY DEF BrandInv, OnlyUsableColours, MergePalette, Empty
  <2>3. NoBrokenImage
    BY BrandAssumption DEF BrandInv, BrandTypeOK, NoBrokenImage, ShownLogo
  <2> QED BY <2>1, <2>2, <2>3
<1> QED BY BrandInvInit, BrandInvStep, <1>1, PTL DEF BrandSpec

-----------------------------------------------------------------------------
(***************************************************************************)
(* The reconnecting client.  A socket that is not open carries nothing, so *)
(* that what is on a wire is what was subscribed to since it opened.       *)
(***************************************************************************)

Frame == {"subscribe", "unsubscribe"} \X Topic

QuietUnlessOpen ==
  \A t \in Transport : phase[t] # "open" => wire[t] = <<>> /\ asked[t] = {}

SocketInv ==
  /\ ClientTypeOK /\ OneSocket /\ NeverStranded /\ FramesFollowSubscriptions
  /\ QuietUnlessOpen /\ IsFiniteSet(subscriptions)

\* Whether a topic is asked for once the frames s are read too.
WillHave(s, have, topic) ==
  SubscribesLast(s, topic) \/ (topic \in have /\ ~Mentions(s, topic))

LEMMA FramesFollowByTopic ==
  ASSUME ClientTypeOK
  PROVE  FramesFollowSubscriptions <=>
           \A t \in Transport : kind = "socket" /\ phase[t] = "open" =>
             \A x \in Topic : WillHave(wire[t], asked[t], x) <=> x \in subscriptions
  BY DEF ClientTypeOK, FramesFollowSubscriptions, AskedFor, WillHave

LEMMA FrameParts ==
  ASSUME NEW f \in Frame
  PROVE  /\ f = <<f[1], f[2]>> /\ f[1] \in {"subscribe", "unsubscribe"} /\ f[2] \in Topic
         /\ \A x \in Topic : f = <<"subscribe", x>> <=> f[1] = "subscribe" /\ f[2] = x
  BY DEF Frame

\* A frame that is sent decides about its topic and about no other.
LEMMA SentLast ==
  ASSUME NEW s \in Seq(Frame), NEW op \in {"subscribe", "unsubscribe"}, NEW topic \in Topic,
         NEW x \in Topic
  PROVE  LET all == Append(s, <<op, topic>>) IN
         /\ SubscribesLast(all, x) <=>
              IF x = topic THEN op = "subscribe" ELSE SubscribesLast(s, x)
         /\ Mentions(all, x) <=> x = topic \/ Mentions(s, x)
<1> DEFINE all == Append(s, <<op, topic>>)
           n == Len(s)
           f == <<op, topic>>
<1>1. f \in Frame /\ f[1] = op /\ f[2] = topic
      /\ (f = <<"subscribe", x>> <=> op = "subscribe" /\ topic = x)
  BY DEF Frame
<1> HIDE DEF f
<1>2. n \in Nat /\ DOMAIN s = 1..n
  BY LenProperties
<1>3. all \in Seq(Frame) /\ Len(all) = n + 1
  BY <1>1, AppendProperties DEF f
<1>4. DOMAIN all = 1..(n + 1)
  BY <1>3, LenProperties
<1>5. /\ \A i \in 1..n : all[i] = s[i]
      /\ all[n + 1] = f
  BY <1>1, AppendProperties DEF f
<1> HIDE DEF all, n
<1>6. Mentions(all, x) <=> x = topic \/ Mentions(s, x)
  <2>1. \A i \in 1..(n + 1) : i = n + 1 \/ i \in 1..n
    BY <1>2
  <2>2. n + 1 \in 1..(n + 1) /\ \A i \in 1..n : i \in 1..(n + 1)
    BY <1>2
  <2> QED BY <1>1, <1>2, <1>4, <1>5, <2>1, <2>2 DEF Mentions
<1>7. SubscribesLast(all, x) <=>
        \E i \in 1..(n + 1) : all[i] = <<"subscribe", x>> /\ \A j \in i + 1 .. n + 1 : all[j][2] # x
  BY <1>3, <1>4 DEF SubscribesLast
<1>8. SubscribesLast(s, x) <=>
        \E i \in 1..n : s[i] = <<"subscribe", x>> /\ \A j \in i + 1 .. n : s[j][2] # x
  BY <1>2 DEF SubscribesLast, n
<1>9. CASE x = topic
  <2>1. ASSUME op = "subscribe" PROVE SubscribesLast(all, x)
    <3>1. n + 1 \in 1..(n + 1) /\ all[n + 1] = <<"subscribe", x>>
      BY <1>1, <1>2, <1>5, <1>9, <2>1
    <3>2. \A j \in (n + 1) + 1 .. n + 1 : all[j][2] # x
      BY <1>2
    <3> QED BY <1>7, <3>1, <3>2
  <2>2. ASSUME SubscribesLast(all, x) PROVE op = "subscribe"
    <3>1. PICK i \in 1..(n + 1) : all[i] = <<"subscribe", x>>
                                   /\ \A j \in i + 1 .. n + 1 : all[j][2] # x
      BY <1>7, <2>2
    <3>2. CASE i = n + 1
      BY <1>1, <1>5, <3>1, <3>2
    <3>3. CASE i # n + 1
      <4>1. n + 1 \in i + 1 .. n + 1
        BY <1>2, <3>3
      <4> QED BY <1>1, <1>5, <1>9, <3>1, <4>1
    <3> QED BY <3>2, <3>3
  <2> QED BY <1>6, <1>9, <2>1, <2>2 DEF all
<1>10. CASE x # topic
  <2>1. ASSUME NEW i \in 1..n, s[i] = <<"subscribe", x>>, \A j \in i + 1 .. n : s[j][2] # x
        PROVE  SubscribesLast(all, x)
    <3>1. i \in 1..(n + 1) /\ all[i] = <<"subscribe", x>>
      BY <1>2, <1>5, <2>1
    <3>2. ASSUME NEW j \in i + 1 .. n + 1 PROVE all[j][2] # x
      <4>1. CASE j = n + 1
        BY <1>1, <1>5, <1>10, <4>1
      <4>2. CASE j # n + 1
        <5>1. j \in i + 1 .. n /\ j \in 1..n
          BY <1>2, <4>2
        <5> QED BY <1>5, <2>1, <5>1
      <4> QED BY <4>1, <4>2
    <3> QED BY <1>7, <3>1, <3>2
  <2>2. ASSUME NEW i \in 1..(n + 1), all[i] = <<"subscribe", x>>,
               \A j \in i + 1 .. n + 1 : all[j][2] # x
        PROVE  SubscribesLast(s, x)
    <3>1. i # n + 1
      BY <1>1, <1>5, <1>10, <2>2
    <3>2. i \in 1..n /\ s[i] = <<"subscribe", x>>
      BY <1>2, <1>5, <2>2, <3>1
    <3>3. ASSUME NEW j \in i + 1 .. n PROVE s[j][2] # x
      <4>1. j \in i + 1 .. n + 1 /\ j \in 1..n
        BY <1>2
      <4> QED BY <1>5, <2>2, <4>1
    <3> QED BY <1>8, <3>2, <3>3
  <2> QED BY <1>6, <1>7, <1>8, <1>10, <2>1, <2>2 DEF all
<1> QED BY <1>9, <1>10

\* A frame that is read has the effect on what is asked that it had on what it
\* will be.
LEMMA ReadFirst ==
  ASSUME NEW s \in Seq(Frame), s # <<>>, NEW have, NEW have2, NEW x \in Topic,
         x \in have2 <=> IF Head(s)[2] = x THEN Head(s)[1] = "subscribe" ELSE x \in have
  PROVE  WillHave(Tail(s), have2, x) <=> WillHave(s, have, x)
<1> DEFINE rest == Tail(s)
           n == Len(rest)
<1>1. /\ rest \in Seq(Frame) /\ Len(s) = n + 1 /\ n \in Nat
      /\ \A i \in 1..n : rest[i] = s[i + 1]
  <2>1. Len(s) \in Nat /\ Len(s) = Len(rest) + 1
    BY HeadTailProperties, LenProperties, EmptySeq
  <2> QED BY <2>1, HeadTailProperties, LenProperties
<1>2. DOMAIN rest = 1..n /\ DOMAIN s = 1..(n + 1)
  BY <1>1, LenProperties
<1>3. Head(s) = s[1] /\ s[1] \in Frame
  BY <1>1, <1>2, ElementOfSeq
<1> HIDE DEF rest, n
<1>4. Mentions(s, x) <=> s[1][2] = x \/ Mentions(rest, x)
  <2>1. ASSUME NEW i \in 1..n, rest[i][2] = x PROVE Mentions(s, x)
    <3>1. i + 1 \in 1..(n + 1)
      BY <1>1
    <3> QED BY <1>1, <1>2, <2>1, <3>1 DEF Mentions
  <2>2. ASSUME NEW i \in 1..(n + 1), s[i][2] = x, i # 1 PROVE Mentions(rest, x)
    <3>1. i - 1 \in 1..n /\ (i - 1) + 1 = i
      BY <1>1, <2>2
    <3>2. rest[i - 1] = s[(i - 1) + 1]
      BY <1>1, <3>1
    <3> QED BY <1>2, <2>2, <3>1, <3>2 DEF Mentions
  <2>3. 1 \in 1..(n + 1)
    BY <1>1
  <2> QED BY <1>2, <2>1, <2>2, <2>3 DEF Mentions
<1>5. ASSUME SubscribesLast(rest, x) PROVE SubscribesLast(s, x)
  <2>1. PICK i \in 1..n : rest[i] = <<"subscribe", x>> /\ \A j \in i + 1 .. n : rest[j][2] # x
    BY <1>2, <1>5 DEF SubscribesLast, n
  <2>2. i + 1 \in 1..(n + 1) /\ s[i + 1] = <<"subscribe", x>>
    BY <1>1, <2>1
  <2>3. ASSUME NEW j \in (i + 1) + 1 .. n + 1 PROVE s[j][2] # x
    <3>1. j - 1 \in i + 1 .. n /\ j - 1 \in 1..n /\ (j - 1) + 1 = j
      BY <1>1
    <3>2. rest[j - 1] = s[(j - 1) + 1]
      BY <1>1, <3>1
    <3> QED BY <2>1, <3>1, <3>2
  <2> QED BY <1>1, <1>2, <2>2, <2>3 DEF SubscribesLast
<1>6. ASSUME SubscribesLast(s, x)
      PROVE  SubscribesLast(rest, x)
               \/ (s[1] = <<"subscribe", x>> /\ ~Mentions(rest, x))
  <2>1. PICK i \in 1..(n + 1) : /\ s[i] = <<"subscribe", x>>
                                /\ \A j \in i + 1 .. n + 1 : s[j][2] # x
    BY <1>1, <1>2, <1>6 DEF SubscribesLast
  <2>2. ASSUME NEW j \in 1..n, j + 1 \in i + 1 .. n + 1 PROVE rest[j][2] # x
    BY <1>1, <2>1, <2>2
  <2>3. CASE i = 1
    <3>1. \A j \in 1..n : j + 1 \in i + 1 .. n + 1
      BY <1>1, <2>3
    <3> QED BY <1>2, <2>1, <2>2, <2>3, <3>1 DEF Mentions
  <2>4. CASE i # 1
    <3>1. i - 1 \in 1..n /\ (i - 1) + 1 = i
      BY <1>1, <2>4
    <3>2. rest[i - 1] = <<"subscribe", x>>
      BY <1>1, <2>1, <3>1
    <3>3. ASSUME NEW j \in (i - 1) + 1 .. n PROVE rest[j][2] # x
      <4>1. j \in 1..n /\ j + 1 \in i + 1 .. n + 1
        BY <1>1, <3>1
      <4> QED BY <2>2, <4>1
    <3> QED BY <1>2, <3>1, <3>2, <3>3 DEF SubscribesLast, n
  <2> QED BY <2>3, <2>4
<1>7. ASSUME s[1] = <<"subscribe", x>>, ~Mentions(rest, x) PROVE SubscribesLast(s, x)
  <2>1. 1 \in 1..(n + 1)
    BY <1>1
  <2>2. ASSUME NEW j \in 1 + 1 .. n + 1 PROVE s[j][2] # x
    <3>1. j - 1 \in 1..n /\ (j - 1) + 1 = j
      BY <1>1
    <3>2. rest[j - 1] = s[(j - 1) + 1]
      BY <1>1, <3>1
    <3> QED BY <1>2, <1>7, <3>1, <3>2 DEF Mentions
  <2> QED BY <1>1, <1>2, <1>7, <2>1, <2>2 DEF SubscribesLast
<1>8. s[1] = <<"subscribe", x>> <=> s[1][1] = "subscribe" /\ s[1][2] = x
  BY <1>3, FrameParts
<1>9. SubscribesLast(rest, x) => Mentions(rest, x)
  <2>1. \A i \in DOMAIN rest : rest[i] = <<"subscribe", x>> => rest[i][2] = x
    OBVIOUS
  <2> QED BY <2>1 DEF SubscribesLast, Mentions
<1>10. CASE s[1][2] = x
  BY <1>3, <1>4, <1>5, <1>6, <1>7, <1>8, <1>10 DEF WillHave, rest
<1>11. CASE s[1][2] # x
  BY <1>3, <1>4, <1>5, <1>6, <1>8, <1>11 DEF WillHave, rest
<1> QED BY <1>10, <1>11

\* The frames sent when a socket opens, in any order of the subscriptions.
LEMMA AllSubscribed ==
  ASSUME NEW topics \in SUBSET Topic, IsFiniteSet(topics),
         NEW order \in [1..Cardinality(topics) -> topics],
         \A x \in topics : \E i \in DOMAIN order : order[i] = x
  PROVE  LET s == [i \in DOMAIN order |-> <<"subscribe", order[i]>>] IN
         /\ s \in Seq(Frame)
         /\ \A x \in Topic : SubscribesLast(s, x) <=> x \in topics
<1> DEFINE n == Cardinality(topics)
           s == [i \in DOMAIN order |-> <<"subscribe", order[i]>>]
<1>1. n \in Nat /\ IsFiniteSet(1..n) /\ Cardinality(1..n) = n
  <2>1. n \in Nat
    BY FS_CardinalityType
  <2>2. 1 \in Int /\ n \in Int /\ (IF 1 > n THEN 0 ELSE n - 1 + 1) = n
    BY <2>1
  <2> QED BY <2>1, <2>2, FS_Interval
<1>2. order \in Injection(1..n, topics)
  <2>1. order \in Surjection(1..n, topics)
    BY DEF Surjection
  <2> QED BY <1>1, <2>1, FS_SurjSameCardinalityImpliesInj
<1>3. \A i, j \in 1..n : order[i] = order[j] => i = j
  BY <1>2 DEF Injection, IsInjective
<1> HIDE DEF n
<1>4. order \in [1..n -> topics]
  BY DEF n
<1>5. s \in [1..n -> Frame] /\ \A i \in 1..n : s[i] = <<"subscribe", order[i]>>
  BY <1>4 DEF Frame
<1> HIDE DEF s
<1>6. s \in Seq(Frame) /\ Len(s) = n /\ DOMAIN s = 1..n
  <2>1. n \in Nat
    BY <1>1 DEF n
  <2>2. s \in Seq(Frame)
    BY <1>5, <2>1
  <2>3. DOMAIN s = 1..n /\ DOMAIN s = 1..Len(s) /\ Len(s) \in Nat
    BY <1>5, <2>2, LenProperties
  <2>4. Len(s) = n
    BY <2>1, <2>3
  <2> QED BY <2>2, <2>3, <2>4
<1>7. ASSUME NEW x \in Topic, SubscribesLast(s, x) PROVE x \in topics
  <2>1. PICK i \in 1..n : s[i] = <<"subscribe", x>>
    BY <1>6, <1>7 DEF SubscribesLast
  <2>2. order[i] = x
    BY <1>5, <2>1
  <2> QED BY <1>4, <2>2
<1>8. ASSUME NEW x \in topics PROVE SubscribesLast(s, x)
  <2>1. PICK i \in 1..n : order[i] = x
    BY <1>4
  <2>2. ASSUME NEW j \in i + 1 .. n PROVE s[j][2] # x
    <3>1. j \in 1..n /\ j # i
      BY <1>1
    <3>2. order[j] # x /\ s[j] = <<"subscribe", order[j]>>
      BY <1>3, <1>5, <2>1, <3>1
    <3> QED BY <3>2
  <2>3. s[i] = <<"subscribe", x>>
    BY <1>5, <2>1
  <2> QED BY <1>6, <2>2, <2>3 DEF SubscribesLast
<1> QED BY <1>6, <1>7, <1>8 DEF s

LEMMA SocketInvInit == SocketInit => SocketInv
<1> SUFFICES ASSUME SocketInit PROVE SocketInv
  OBVIOUS
<1>1. PICK t \in Transport :
        /\ transport = t
        /\ phase = [u \in Transport |-> IF u = t THEN "opening" ELSE "closed"]
  BY DEF SocketInit
<1>2. /\ kind \in {"socket", "simulation"} /\ state = "connecting" /\ attempt = 0
      /\ closedByUser = FALSE /\ reconnectHandle = NoTimer
      /\ subscriptions = {} /\ timers = {} /\ byHand = FALSE
      /\ wire = [u \in Transport |-> <<>>] /\ asked = [u \in Transport |-> {}]
  BY DEF SocketInit
<1>3. wire \in [Transport -> Seq({"subscribe", "unsubscribe"} \X Topic)]
  <2>1. <<>> \in Seq({"subscribe", "unsubscribe"} \X Topic)
    BY EmptySeq
  <2> QED BY <1>2, <2>1
<1>4. ClientTypeOK
  <2>1. attempt \in 0..ScheduleSize
    BY <1>2, SocketAssumption
  <2>2. phase \in [Transport -> Phase]
    BY <1>1 DEF Phase
  <2>3. asked \in [Transport -> SUBSET Topic]
    BY <1>2
  <2> QED BY <1>1, <1>2, <1>3, <2>1, <2>2, <2>3 DEF ClientTypeOK, State
<1>5. \A u \in Transport : phase[u] # "open" /\ phase[u] # "lost"
  BY <1>1
<1>6. OneSocket /\ NeverStranded /\ FramesFollowSubscriptions
  BY <1>1, <1>2, <1>5, SocketAssumption DEF OneSocket, NeverStranded, FramesFollowSubscriptions
<1>7. QuietUnlessOpen /\ IsFiniteSet(subscriptions)
  BY <1>2, FS_EmptySet DEF QuietUnlessOpen
<1> QED BY <1>4, <1>6, <1>7 DEF SocketInv

\* Without a transport every socket is closed for good.
LEMMA NoneOpen ==
  ASSUME SocketInv, transport = NoTransport, NEW t \in Transport
  PROVE  phase[t] \in {"closed", "leaked"}
  BY SocketAssumption DEF SocketInv, ClientTypeOK, OneSocket, Phase

\* The client gives its socket up.
LEMMA TeardownEffect ==
  ASSUME SocketInv, TeardownTransport
  PROVE  /\ transport' = NoTransport
         /\ phase' \in [Transport -> {"closed", "leaked"}]
         /\ wire' \in [Transport -> Seq(Frame)] /\ asked' \in [Transport -> SUBSET Topic]
         /\ QuietUnlessOpen'
<1>1. transport' = NoTransport
  BY DEF TeardownTransport
<1>2. /\ phase \in [Transport -> Phase] /\ wire \in [Transport -> Seq(Frame)]
      /\ asked \in [Transport -> SUBSET Topic]
      /\ transport \in Transport \cup {NoTransport}
  BY DEF SocketInv, ClientTypeOK, Frame
<1>3. CASE transport = NoTransport
  <2>1. UNCHANGED sockets
    BY <1>3 DEF TeardownTransport
  <2>2. \A t \in Transport : phase[t] \in {"closed", "leaked"}
    BY <1>3, NoneOpen
  <2> QED BY <1>1, <1>2, <2>1, <2>2 DEF sockets, SocketInv, QuietUnlessOpen
<1>4. CASE transport # NoTransport
  <2>1. /\ transport \in Transport
        /\ phase' = [phase EXCEPT ![transport] = Closed(transport)]
        /\ wire' = [wire EXCEPT ![transport] = <<>>]
        /\ asked' = [asked EXCEPT ![transport] = {}]
    BY <1>2, <1>4 DEF TeardownTransport
  <2>2. \A t \in Transport \ {transport} : phase[t] \in {"closed", "leaked"}
    BY <1>2 DEF SocketInv, OneSocket, Phase
  <2>3. Closed(transport) \in {"closed", "leaked"}
    BY DEF Closed
  <2>4. phase' \in [Transport -> {"closed", "leaked"}]
    BY <1>2, <2>1, <2>2, <2>3
  <2>5. wire' \in [Transport -> Seq(Frame)]
    BY <1>2, <2>1, EmptySeq
  <2>6. \A t \in Transport : wire'[t] = <<>> /\ asked'[t] = {}
    BY <1>2, <2>1, <2>2 DEF SocketInv, QuietUnlessOpen
  <2>7. asked' \in [Transport -> SUBSET Topic]
    BY <1>2, <2>1
  <2> QED BY <1>1, <2>4, <2>5, <2>6, <2>7 DEF QuietUnlessOpen
<1> QED BY <1>3, <1>4

\* Without an open socket there is not much to say.
LEMMA AllClosed ==
  ASSUME transport = NoTransport, \A t \in Transport : phase[t] \in {"closed", "leaked"},
         state # "connected"
  PROVE  OneSocket /\ FramesFollowSubscriptions
  BY DEF OneSocket, FramesFollowSubscriptions

LEMMA DisconnectSocketStep ==
  ASSUME SocketInv, Disconnect
  PROVE  SocketInv'
<1>1. /\ closedByUser' = TRUE /\ state' = "offline" /\ TeardownTransport
      /\ timers' = timers \ {reconnectHandle} /\ reconnectHandle' = NoTimer
      /\ UNCHANGED <<kind, attempt, subscriptions, byHand>>
  BY DEF Disconnect
<1>2. /\ transport' = NoTransport
      /\ phase' \in [Transport -> {"closed", "leaked"}]
      /\ wire' \in [Transport -> Seq(Frame)] /\ asked' \in [Transport -> SUBSET Topic]
      /\ QuietUnlessOpen'
  BY <1>1, TeardownEffect
<1>3. phase' \in [Transport -> Phase] /\ \A t \in Transport : phase'[t] \in {"closed", "leaked"}
  BY <1>2 DEF Phase
<1>4. ClientTypeOK'
  BY <1>1, <1>2, <1>3 DEF SocketInv, ClientTypeOK, State, Frame
<1>5. OneSocket' /\ FramesFollowSubscriptions'
  BY <1>1, <1>2, <1>3 DEF OneSocket, FramesFollowSubscriptions
<1>6. NeverStranded'
  BY <1>1 DEF NeverStranded
<1> QED BY <1>1, <1>2, <1>4, <1>5, <1>6 DEF SocketInv

\* The socket is lost: there is a timer that tries again.
LEMMA HandleCloseStep ==
  ASSUME SocketInv, NEW t \in Transport, HandleClose(t)
  PROVE  SocketInv'
<1>1. PICK i \in Timer \ timers : timers' = timers \cup {i} /\ reconnectHandle' = i
  BY DEF HandleClose
<1>2. /\ TeardownTransport /\ state' = "reconnecting"
      /\ attempt' = IF attempt < ScheduleSize THEN attempt + 1 ELSE attempt
      /\ UNCHANGED <<kind, closedByUser, subscriptions, byHand>>
  BY DEF HandleClose
<1>3. /\ transport' = NoTransport
      /\ phase' \in [Transport -> {"closed", "leaked"}]
      /\ wire' \in [Transport -> Seq(Frame)] /\ asked' \in [Transport -> SUBSET Topic]
      /\ QuietUnlessOpen'
  BY <1>2, TeardownEffect
<1>4. phase' \in [Transport -> Phase] /\ \A u \in Transport : phase'[u] \in {"closed", "leaked"}
  BY <1>3 DEF Phase
<1>5. attempt' \in 0..ScheduleSize
  BY <1>2, SocketAssumption DEF SocketInv, ClientTypeOK
<1>6. ClientTypeOK'
  BY <1>1, <1>2, <1>3, <1>4, <1>5 DEF SocketInv, ClientTypeOK, State, Frame
<1>7. OneSocket' /\ FramesFollowSubscriptions'
  BY <1>2, <1>3, <1>4 DEF OneSocket, FramesFollowSubscriptions
<1>8. NeverStranded'
  BY <1>1 DEF NeverStranded
<1> QED BY <1>2, <1>3, <1>6, <1>7, <1>8 DEF SocketInv

\* connect(), called or from a timer.
LEMMA ConnectBodyStep ==
  ASSUME SocketInv, ConnectBody, timers' \subseteq Timer,
         reconnectHandle' \in Timer \cup {NoTimer}, byHand' \in BOOLEAN
  PROVE  SocketInv'
<1>1. closedByUser' = FALSE /\ UNCHANGED <<kind, attempt, subscriptions>>
  BY DEF ConnectBody
<1>2. CASE transport # NoTransport
  <2>1. UNCHANGED <<state, transport, sockets>>
    BY <1>2 DEF ConnectBody
  <2>2. ClientTypeOK'
    BY <1>1, <2>1 DEF SocketInv, ClientTypeOK, sockets
  <2>3. OneSocket' /\ QuietUnlessOpen'
    BY <2>1 DEF SocketInv, OneSocket, QuietUnlessOpen, sockets
  <2>4. FramesFollowSubscriptions'
    BY <1>1, <2>1 DEF SocketInv, FramesFollowSubscriptions, AskedFor, sockets
  <2>5. NeverStranded'
    BY <1>2, <2>1 DEF NeverStranded
  <2> QED BY <1>1, <2>2, <2>3, <2>4, <2>5 DEF SocketInv
<1>3. CASE transport = NoTransport
  <2>1. PICK t \in Transport :
          phase[t] = "closed" /\ transport' = t /\ phase' = [phase EXCEPT ![t] = "opening"]
    BY <1>3 DEF ConnectBody, OpenTransport
  <2>2. state' \in {"connecting", "reconnecting"} /\ UNCHANGED <<wire, asked>>
    BY <1>3 DEF ConnectBody, OpenTransport
  <2>3. \A u \in Transport : phase[u] \in {"closed", "leaked"}
    BY <1>3, NoneOpen
  <2>4. /\ phase' \in [Transport -> Phase]
        /\ \A u \in Transport : phase'[u] = IF u = t THEN "opening" ELSE phase[u]
    BY <2>1 DEF SocketInv, ClientTypeOK, Phase
  <2>5. \A u \in Transport : phase'[u] # "open"
    BY <2>3, <2>4
  <2>6. ClientTypeOK'
    BY <1>1, <2>1, <2>2, <2>4 DEF SocketInv, ClientTypeOK, State
  <2>7. OneSocket'
    BY <2>1, <2>2, <2>3, <2>4 DEF OneSocket
  <2>8. FramesFollowSubscriptions'
    BY <2>5 DEF FramesFollowSubscriptions
  <2>9. QuietUnlessOpen'
    BY <2>2, <2>3 DEF SocketInv, QuietUnlessOpen
  <2>10. NeverStranded'
    BY <2>1, SocketAssumption DEF NeverStranded
  <2> QED BY <1>1, <2>6, <2>7, <2>8, <2>9, <2>10 DEF SocketInv
<1> QED BY <1>2, <1>3

LEMMA ConnectSocketStep ==
  ASSUME SocketInv, Connect
  PROVE  SocketInv'
<1>1. ConnectBody /\ UNCHANGED <<timers, reconnectHandle>> /\ byHand' \in BOOLEAN
  BY DEF Connect, SocketInv, ClientTypeOK
<1> QED BY <1>1, ConnectBodyStep DEF SocketInv, ClientTypeOK

LEMMA TimerFiresStep ==
  ASSUME SocketInv, NEW i \in Timer, TimerFires(i)
  PROVE  SocketInv'
<1>1. ConnectBody /\ timers' = timers \ {i} /\ reconnectHandle' = NoTimer /\ byHand' = byHand
  BY DEF TimerFires
<1>2. timers' \subseteq Timer /\ reconnectHandle' \in Timer \cup {NoTimer} /\ byHand' \in BOOLEAN
  BY <1>1 DEF SocketInv, ClientTypeOK
<1> QED BY <1>1, <1>2, ConnectBodyStep

\* The handshake ends: what is on the wire then is every subscription.
LEMMA OpenedStep ==
  ASSUME SocketInv, NEW t \in Transport, Opened(t)
  PROVE  SocketInv'
<1>1. /\ phase[t] = "opening" /\ phase' = [phase EXCEPT ![t] = "open"]
      /\ attempt' = 0 /\ state' = "connected"
      /\ UNCHANGED <<kind, transport, closedByUser, reconnectHandle, subscriptions,
                     timers, asked, byHand>>
  BY DEF Opened
<1>2. PICK order \in [1..Cardinality(subscriptions) -> subscriptions] :
        /\ \A topic \in subscriptions : \E i \in DOMAIN order : order[i] = topic
        /\ wire' = IF kind = "simulation" THEN wire
                   ELSE [wire EXCEPT ![t] = [i \in DOMAIN order |-> <<"subscribe", order[i]>>]]
  BY DEF Opened
<1> DEFINE s == [i \in DOMAIN order |-> <<"subscribe", order[i]>>]
<1>3. s \in Seq(Frame) /\ \A x \in Topic : SubscribesLast(s, x) <=> x \in subscriptions
  BY <1>2, AllSubscribed DEF SocketInv, ClientTypeOK
<1>4. wire' = IF kind = "simulation" THEN wire ELSE [wire EXCEPT ![t] = s]
  BY <1>2
<1> HIDE DEF s
<1>5. /\ wire' \in [Transport -> Seq(Frame)] /\ (kind = "socket" => wire'[t] = s)
      /\ \A u \in Transport \ {t} : wire'[u] = wire[u]
  BY <1>3, <1>4 DEF SocketInv, ClientTypeOK, Frame
<1>6. /\ phase' \in [Transport -> Phase] /\ phase'[t] = "open"
      /\ \A u \in Transport \ {t} : phase'[u] = phase[u]
  BY <1>1 DEF SocketInv, ClientTypeOK, Phase
<1>7. t = transport /\ asked[t] = {}
  BY <1>1 DEF SocketInv, OneSocket, QuietUnlessOpen
<1>8. ClientTypeOK'
  <2>1. attempt' \in 0..ScheduleSize
    BY <1>1, SocketAssumption
  <2> QED BY <1>1, <1>5, <1>6, <2>1 DEF SocketInv, ClientTypeOK, State, Frame
<1>9. \A u \in Transport \ {t} : phase'[u] \notin {"opening", "open", "lost"}
  BY <1>6, <1>7 DEF SocketInv, OneSocket
<1>10. OneSocket'
  BY <1>1, <1>6, <1>7, <1>9, SocketAssumption DEF OneSocket
<1>11. QuietUnlessOpen'
  BY <1>1, <1>5, <1>6 DEF SocketInv, QuietUnlessOpen
<1>12. FramesFollowSubscriptions'
  <2>1. kind = "socket" => \A x \in Topic : x \in AskedFor(t)' <=> x \in subscriptions
    BY <1>1, <1>3, <1>5, <1>7 DEF AskedFor
  <2>2. AskedFor(t)' \subseteq Topic /\ subscriptions \subseteq Topic
    BY DEF AskedFor, SocketInv, ClientTypeOK
  <2>3. kind = "socket" => AskedFor(t)' = subscriptions
    BY <2>1, <2>2
  <2>4. ASSUME kind' = "socket", NEW u \in Transport, phase'[u] = "open"
        PROVE  AskedFor(u)' = subscriptions'
    <3>1. u = t
      BY <1>9, <2>4
    <3>2. AskedFor(t)' = subscriptions'
      BY <1>1, <2>3, <2>4
    <3> QED BY <3>1, <3>2
  <2> QED BY <2>4 DEF FramesFollowSubscriptions
<1>13. NeverStranded'
  BY <1>1, <1>7, SocketAssumption DEF NeverStranded
<1> QED BY <1>1, <1>8, <1>10, <1>11, <1>12, <1>13 DEF SocketInv

LEMMA LoseStep ==
  ASSUME SocketInv, NEW t \in Transport, Lose(t)
  PROVE  SocketInv'
<1>1. /\ phase[t] \in {"opening", "open"}
      /\ phase' = [phase EXCEPT ![t] = "lost"]
      /\ wire' = [wire EXCEPT ![t] = <<>>] /\ asked' = [asked EXCEPT ![t] = {}]
      /\ UNCHANGED <<kind, client, timers, byHand>>
  BY DEF Lose
<1>2. /\ phase' \in [Transport -> Phase] /\ phase'[t] = "lost"
      /\ \A u \in Transport \ {t} : phase'[u] = phase[u]
  BY <1>1 DEF SocketInv, ClientTypeOK, Phase
<1>3. /\ wire' \in [Transport -> Seq(Frame)] /\ wire'[t] = <<>>
      /\ \A u \in Transport \ {t} : wire'[u] = wire[u]
  BY <1>1, EmptySeq DEF SocketInv, ClientTypeOK, Frame
<1>4. /\ asked' \in [Transport -> SUBSET Topic] /\ asked'[t] = {}
      /\ \A u \in Transport \ {t} : asked'[u] = asked[u]
  BY <1>1 DEF SocketInv, ClientTypeOK
<1>5. ClientTypeOK'
  BY <1>1, <1>2, <1>3, <1>4 DEF SocketInv, ClientTypeOK, client, Frame
<1>6. t = transport /\ \A u \in Transport \ {t} : phase'[u] \notin {"opening", "open", "lost"}
  BY <1>1, <1>2 DEF SocketInv, OneSocket
<1>7. OneSocket'
  BY <1>1, <1>2, <1>6 DEF SocketInv, OneSocket, client
<1>8. FramesFollowSubscriptions'
  BY <1>2, <1>6 DEF FramesFollowSubscriptions
<1>9. QuietUnlessOpen'
  BY <1>2, <1>3, <1>4 DEF SocketInv, QuietUnlessOpen
<1> QED BY <1>1, <1>5, <1>7, <1>8, <1>9 DEF SocketInv, NeverStranded, client

\* subscribe and unsubscribe: the map and, when connected, the wire.
LEMMA SetSubscriptionsStep ==
  ASSUME SocketInv, NEW topic \in Topic, NEW op \in {"subscribe", "unsubscribe"},
         NEW topics, IsFiniteSet(topics), topics \subseteq Topic,
         \A x \in Topic : x \in topics <=>
           IF x = topic THEN op = "subscribe" ELSE x \in subscriptions,
         SetSubscriptions(topics, op, topic)
  PROVE  SocketInv'
<1> DEFINE f == <<op, topic>>
<1>1. /\ subscriptions' = topics
      /\ IF state = "connected" THEN Emit(op, topic) ELSE UNCHANGED wire
      /\ UNCHANGED <<kind, state, attempt, transport, closedByUser, reconnectHandle,
                     timers, phase, asked, byHand>>
  BY DEF SetSubscriptions
<1>2. wire \in [Transport -> Seq(Frame)] /\ f \in Frame
  BY DEF SocketInv, ClientTypeOK, Frame
<1>3. \A t \in Transport :
        wire'[t] = IF phase[t] = "open" /\ kind = "socket" THEN Append(wire[t], f) ELSE wire[t]
  <2>1. CASE state = "connected" /\ phase[transport] = "open" /\ kind = "socket"
    <3>1. wire' = [wire EXCEPT ![transport] = Append(@, f)]
      BY <1>1, <2>1 DEF Emit
    <3>2. transport \in Transport /\ \A t \in Transport : phase[t] = "open" => t = transport
      BY <2>1 DEF SocketInv, ClientTypeOK, OneSocket
    <3> HIDE DEF f
    <3> QED BY <1>2, <2>1, <3>1, <3>2
  <2>2. CASE ~(state = "connected" /\ phase[transport] = "open" /\ kind = "socket")
    <3>1. \A t \in Transport : ~(phase[t] = "open" /\ kind = "socket")
      BY <2>2 DEF SocketInv, OneSocket
    <3>2. wire' = wire
      BY <1>1, <2>2 DEF Emit
    <3> QED BY <3>1, <3>2
  <2> QED BY <2>1, <2>2
<1>4. wire' \in [Transport -> Seq(Frame)]
  <2>1. DOMAIN wire' = Transport /\ wire' = [t \in Transport |-> wire'[t]]
    BY <1>1, <1>2 DEF Emit
  <2>2. \A t \in Transport : wire'[t] \in Seq(Frame)
    <3> HIDE DEF f
    <3>1. ASSUME NEW t \in Transport
          PROVE  wire[t] \in Seq(Frame) /\ Append(wire[t], f) \in Seq(Frame)
      BY <1>2, AppendProperties
    <3> QED BY <1>3, <3>1
  <2> QED BY <2>1, <2>2
<1>5. ClientTypeOK'
  BY <1>1, <1>4 DEF SocketInv, ClientTypeOK, Frame
<1>6. ASSUME kind = "socket", NEW t \in Transport, phase[t] = "open", NEW x \in Topic
      PROVE  WillHave(wire'[t], asked[t], x) <=> x \in topics
  <2>1. WillHave(wire[t], asked[t], x) <=> x \in subscriptions
    BY <1>6, FramesFollowByTopic DEF SocketInv
  <2>2. /\ SubscribesLast(wire'[t], x) <=>
             IF x = topic THEN op = "subscribe" ELSE SubscribesLast(wire[t], x)
        /\ Mentions(wire'[t], x) <=> x = topic \/ Mentions(wire[t], x)
    BY <1>2, <1>3, <1>6, SentLast
  <2> QED BY <2>1, <2>2 DEF WillHave
<1>7. FramesFollowSubscriptions'
  <2>1. kind = "socket" =>
          \A t \in Transport : phase[t] = "open" => AskedFor(t)' = topics
    BY <1>1, <1>6 DEF AskedFor, WillHave
  <2> QED BY <1>1, <2>1 DEF FramesFollowSubscriptions
<1>8. OneSocket' /\ NeverStranded'
  BY <1>1 DEF SocketInv, OneSocket, NeverStranded
<1>9. QuietUnlessOpen'
  BY <1>1, <1>3 DEF SocketInv, QuietUnlessOpen
<1> QED BY <1>1, <1>5, <1>7, <1>8, <1>9 DEF SocketInv

LEMMA SubscriptionsStep ==
  ASSUME SocketInv, NEW topic \in Topic, Subscribe(topic) \/ Unsubscribe(topic)
  PROVE  SocketInv'
<1>1. subscriptions \subseteq Topic /\ IsFiniteSet(subscriptions)
  BY DEF SocketInv, ClientTypeOK
<1>2. IsFiniteSet(subscriptions \cup {topic}) /\ IsFiniteSet(subscriptions \ {topic})
  BY <1>1, FS_AddElement, FS_RemoveElement
<1>3. CASE Subscribe(topic)
  BY <1>1, <1>2, <1>3, SetSubscriptionsStep DEF Subscribe
<1>4. CASE Unsubscribe(topic)
  BY <1>1, <1>2, <1>4, SetSubscriptionsStep DEF Unsubscribe
<1> QED BY <1>3, <1>4

\* The server reads a frame: what is asked for does not change.
LEMMA ServerReadsStep ==
  ASSUME SocketInv, NEW t \in Transport, ServerReads(t)
  PROVE  SocketInv'
<1> DEFINE f == Head(wire[t])
           have == IF f[1] = "subscribe" THEN asked[t] \cup {f[2]} ELSE asked[t] \ {f[2]}
<1>1. /\ phase[t] = "open" /\ wire[t] # <<>>
      /\ asked' = [asked EXCEPT ![t] = have]
      /\ wire' = [wire EXCEPT ![t] = Tail(@)]
      /\ UNCHANGED <<kind, client, timers, phase, byHand>>
  BY DEF ServerReads, Applied
<1>2. wire[t] \in Seq(Frame) /\ wire \in [Transport -> Seq(Frame)]
      /\ asked \in [Transport -> SUBSET Topic]
  BY DEF SocketInv, ClientTypeOK, Frame
<1>3. f \in Frame /\ Tail(wire[t]) \in Seq(Frame)
  BY <1>1, <1>2, HeadTailProperties
<1>4. f[1] \in {"subscribe", "unsubscribe"} /\ f[2] \in Topic
  BY <1>3, FrameParts
<1>5. have \subseteq Topic
      /\ \A x \in Topic : x \in have <=> IF f[2] = x THEN f[1] = "subscribe" ELSE x \in asked[t]
  BY <1>2, <1>4
<1> HIDE DEF have
<1>6. /\ wire' \in [Transport -> Seq(Frame)] /\ wire'[t] = Tail(wire[t])
      /\ \A u \in Transport \ {t} : wire'[u] = wire[u]
  BY <1>1, <1>2, <1>3
<1>7. /\ asked' \in [Transport -> SUBSET Topic] /\ asked'[t] = have
      /\ \A u \in Transport \ {t} : asked'[u] = asked[u]
  BY <1>1, <1>2, <1>5
<1>8. ClientTypeOK'
  BY <1>1, <1>6, <1>7 DEF SocketInv, ClientTypeOK, client, Frame
<1>9. FramesFollowSubscriptions'
  <2>1. ASSUME kind = "socket", NEW x \in Topic
        PROVE  WillHave(wire'[t], asked'[t], x) <=> x \in subscriptions
    <3>1. WillHave(Tail(wire[t]), have, x) <=> WillHave(wire[t], asked[t], x)
      BY <1>1, <1>2, <1>5, ReadFirst
    <3>2. WillHave(wire[t], asked[t], x) <=> x \in subscriptions
      BY <1>1, <2>1, FramesFollowByTopic DEF SocketInv
    <3> QED BY <1>6, <1>7, <3>1, <3>2
  <2>2. kind = "socket" => AskedFor(t)' = subscriptions
    BY <2>1 DEF AskedFor, WillHave, SocketInv, ClientTypeOK
  <2>3. \A u \in Transport : phase[u] = "open" => u = t
    BY <1>1 DEF SocketInv, OneSocket
  <2> QED BY <1>1, <2>2, <2>3 DEF FramesFollowSubscriptions, client
<1>10. QuietUnlessOpen'
  BY <1>1, <1>6, <1>7 DEF SocketInv, QuietUnlessOpen
<1> QED BY <1>1, <1>8, <1>9, <1>10 DEF SocketInv, OneSocket, NeverStranded, client

LEMMA SocketInvStep == SocketInv /\ [SocketNext]_socketVars => SocketInv'
<1> SUFFICES ASSUME SocketInv, [SocketNext]_socketVars PROVE SocketInv'
  OBVIOUS
<1>1. CASE Connect
  BY <1>1, ConnectSocketStep
<1>2. CASE Disconnect
  BY <1>2, DisconnectSocketStep
<1>3. ASSUME NEW topic \in Topic, Subscribe(topic) \/ Unsubscribe(topic) PROVE SocketInv'
  BY <1>3, SubscriptionsStep
<1>4. ASSUME NEW t \in Transport, Opened(t) \/ Lose(t) \/ HandleClose(t) \/ ServerReads(t)
      PROVE  SocketInv'
  BY <1>4, OpenedStep, LoseStep, HandleCloseStep, ServerReadsStep
<1>5. ASSUME NEW i \in Timer, TimerFires(i) PROVE SocketInv'
  BY <1>5, TimerFiresStep
<1>6. CASE UNCHANGED socketVars
  BY <1>6 DEF socketVars, client, sockets, SocketInv, ClientTypeOK, OneSocket, NeverStranded,
              FramesFollowSubscriptions, AskedFor, QuietUnlessOpen
<1> QED BY <1>1, <1>2, <1>3, <1>4, <1>5, <1>6 DEF SocketNext

\* The rooms of a socket are topics.
RoomsOK == rooms \in [Transport -> SUBSET Topic]

LEMMA TeardownRooms ==
  ASSUME RoomsOK, TeardownTransport
  PROVE  RoomsOK'
  BY DEF RoomsOK, TeardownTransport, sockets

LEMMA RoomsStep == SocketInv /\ RoomsOK /\ [SocketNext]_socketVars => RoomsOK'
<1> SUFFICES ASSUME SocketInv, RoomsOK, [SocketNext]_socketVars PROVE RoomsOK'
  OBVIOUS
<1>1. ASSUME Disconnect \/ \E t \in Transport : HandleClose(t) PROVE RoomsOK'
  BY <1>1, TeardownRooms DEF Disconnect, HandleClose
<1>2. ASSUME ConnectBody PROVE RoomsOK'
  BY <1>2 DEF ConnectBody, OpenTransport, sockets, RoomsOK
<1>3. ASSUME NEW t \in Transport, Lose(t) PROVE RoomsOK'
  BY <1>3 DEF Lose, RoomsOK
<1>4. ASSUME NEW t \in Transport, ServerReads(t) PROVE RoomsOK'
  <2> DEFINE f == Head(wire[t])
             have == Applied(rooms[t], f[1], Found(f))
  <2>1. wire[t] # <<>> /\ rooms' = [rooms EXCEPT ![t] = have]
    BY <1>4 DEF ServerReads
  <2>2. wire[t] \in Seq(Frame)
    BY DEF SocketInv, ClientTypeOK, Frame
  <2>3. f \in Frame
    BY <2>1, <2>2, HeadTailProperties
  <2>4. f[2] \in Topic
    BY <2>3, FrameParts
  <2>5. have \subseteq Topic
    BY <2>4 DEF RoomsOK, Applied, Found
  <2> QED BY <2>1, <2>5 DEF RoomsOK
<1>5. ASSUME UNCHANGED rooms PROVE RoomsOK'
  BY <1>5 DEF RoomsOK
<1>6. ASSUME NEW topic \in Topic, Subscribe(topic) \/ Unsubscribe(topic) PROVE UNCHANGED rooms
  BY <1>6 DEF Subscribe, Unsubscribe, SetSubscriptions
<1>7. ASSUME NEW t \in Transport, Opened(t) PROVE UNCHANGED rooms
  BY <1>7 DEF Opened
<1>8. ASSUME Connect \/ \E i \in Timer : TimerFires(i) PROVE ConnectBody
  BY <1>8 DEF Connect, TimerFires
<1>9. ASSUME UNCHANGED socketVars PROVE UNCHANGED rooms
  BY <1>9 DEF socketVars, sockets
<1> QED BY <1>1, <1>2, <1>3, <1>4, <1>5, <1>6, <1>7, <1>8, <1>9 DEF SocketNext

\* However subscribe, unsubscribe, drops and reconnects interleave
\* (socketClient.ts): the client has at most one socket, is never stranded
\* between two attempts, and the frames of an open connection ask for exactly
\* its subscriptions.
THEOREM SocketCorrect == SocketSpec => []SocketSafe
<1>1. SocketInv /\ RoomsOK => SocketSafe
  BY DEF SocketInv, SocketSafe, SocketTypeOK, RoomsOK
<1>2. SocketInit => RoomsOK
  BY DEF SocketInit, RoomsOK
<1> QED BY <1>1, <1>2, SocketInvInit, SocketInvStep, RoomsStep, PTL DEF SocketSpec

\* Unless connect() was called while a timer was pending, there is one timer at
\* most, reconnectHandle is its handle, and it is pending only while there is
\* neither a socket nor a user who said stop.
OneTimer ==
  ~byHand =>
    /\ timers \subseteq {reconnectHandle}
    /\ transport # NoTransport => timers = {}
    /\ state = "offline" => transport = NoTransport /\ timers = {}

LEMMA OneTimerStep ==
  ASSUME SocketInv, OneTimer, [SocketNext]_socketVars
  PROVE  /\ OneTimer'
         /\ state = "offline" /\ state' # "offline" => Connect \/ byHand
<1> DEFINE Stays == state = "offline" /\ state' # "offline" => Connect \/ byHand
<1>1. /\ NoTransport \notin Transport /\ timers \subseteq Timer /\ byHand \in BOOLEAN
      /\ \A t \in Transport : phase[t] \in {"opening", "open", "lost"} => t = transport
  BY SocketAssumption DEF SocketInv, ClientTypeOK, OneSocket
<1>2. CASE Connect
  <2>1. CASE transport # NoTransport
    BY <1>1, <1>2, <2>1 DEF Connect, ConnectBody, OneTimer
  <2>2. CASE transport = NoTransport
    <3>1. state' # "offline" /\ timers' = timers /\ byHand' = (byHand \/ timers # {})
      BY <1>2, <2>2 DEF Connect, ConnectBody, OpenTransport
    <3> QED BY <1>2, <3>1 DEF OneTimer
  <2> QED BY <2>1, <2>2
<1>3. CASE Disconnect
  BY <1>3 DEF Disconnect, TeardownTransport, OneTimer
<1>4. ASSUME NEW topic \in Topic, Subscribe(topic) \/ Unsubscribe(topic) PROVE OneTimer' /\ Stays
  BY <1>4 DEF Subscribe, Unsubscribe, SetSubscriptions, OneTimer
<1>5. ASSUME NEW t \in Transport, Opened(t) PROVE OneTimer' /\ Stays
  <2>1. transport = t /\ transport # NoTransport
    BY <1>1, <1>5 DEF Opened
  <2>2. /\ state' = "connected"
        /\ UNCHANGED <<transport, timers, reconnectHandle, byHand>>
    BY <1>5 DEF Opened
  <2> QED BY <2>1, <2>2 DEF OneTimer
<1>6. ASSUME NEW t \in Transport, Lose(t) \/ ServerReads(t) PROVE OneTimer' /\ Stays
  BY <1>6 DEF Lose, ServerReads, client, OneTimer
<1>7. ASSUME NEW t \in Transport, HandleClose(t) PROVE OneTimer' /\ Stays
  <2>1. transport = t /\ transport # NoTransport
    BY <1>1, <1>7 DEF HandleClose
  <2>2. /\ state' = "reconnecting" /\ transport' = NoTransport /\ byHand' = byHand
        /\ \E i \in Timer \ timers : timers' = timers \cup {i} /\ reconnectHandle' = i
    BY <1>7 DEF HandleClose, TeardownTransport
  <2> QED BY <2>1, <2>2 DEF OneTimer
<1>8. ASSUME NEW i \in Timer, TimerFires(i) PROVE OneTimer' /\ Stays
  <2>1. i \in timers /\ timers' = timers \ {i} /\ byHand' = byHand
    BY <1>8 DEF TimerFires
  <2>2. CASE byHand
    BY <2>1, <2>2 DEF OneTimer
  <2>3. CASE ~byHand
    <3>1. timers' = {} /\ transport = NoTransport /\ state # "offline"
      BY <2>1, <2>3 DEF OneTimer
    <3>2. state' # "offline"
      BY <1>8, <3>1 DEF TimerFires, ConnectBody, OpenTransport
    <3> QED BY <3>1, <3>2 DEF OneTimer
  <2> QED BY <2>2, <2>3
<1>9. CASE UNCHANGED socketVars
  BY <1>9 DEF socketVars, client, OneTimer
<1> QED BY <1>2, <1>3, <1>4, <1>5, <1>6, <1>7, <1>8, <1>9 DEF SocketNext

\* disconnect() is final: a client that is offline stays so until connect() is called,
\* for any number of sockets and timers, unless connect() was once called while a
\* reconnect timer was pending, whose handle is then overwritten.
THEOREM StaysOfflineCorrect == SocketSpec => StaysOffline
<1>1. SocketSpec => []SocketInv
  BY SocketInvInit, SocketInvStep, PTL DEF SocketSpec
<1>2. SocketInit => OneTimer
  BY SocketAssumption DEF SocketInit, OneTimer
<1>3. SocketInv /\ OneTimer /\ [SocketNext]_socketVars => OneTimer'
  BY OneTimerStep
<1>4. SocketInv /\ OneTimer /\ [SocketNext]_socketVars
        => [state = "offline" /\ state' # "offline" => Connect \/ byHand]_socketVars
  BY OneTimerStep
<1> QED BY <1>1, <1>2, <1>3, <1>4, PTL DEF SocketSpec, StaysOffline

-----------------------------------------------------------------------------
(***************************************************************************)
(* Toasts and dialog.  The ids of the stack ascend up to the last one      *)
(* given, and an id has a timer or is sticky, never both.                  *)
(***************************************************************************)

StackOK(stack) ==
  /\ stack \in Seq(1..toastSeq)
  /\ \A i, j \in DOMAIN stack : i < j => stack[i] < stack[j]
  /\ \A i \in DOMAIN stack : stack[i] \in expiring \cup sticky

WidgetsInv ==
  /\ toastSeq \in Nat /\ onClose \in Nat
  /\ expiring \subseteq 1..toastSeq /\ sticky \subseteq 1..toastSeq
  /\ expiring \cap sticky = {}
  /\ StackOK(toasts) /\ OneListener

\* Taking an id out of the stack leaves the others, in their order.
LEMMA WithoutTakesOne ==
  ASSUME NEW id, NEW T, toasts \in Seq(T),
         \A i, j \in DOMAIN toasts : i < j => toasts[i] < toasts[j]
  PROVE  /\ Without(id) \in Seq(T)
         /\ \A i, j \in DOMAIN Without(id) : i < j => Without(id)[i] < Without(id)[j]
         /\ \A i \in DOMAIN Without(id) :
              Without(id)[i] # id /\ \E k \in DOMAIN toasts : Without(id)[i] = toasts[k]
         /\ \A k \in DOMAIN toasts :
              toasts[k] # id => \E i \in DOMAIN Without(id) : Without(id)[i] = toasts[k]
<1> DEFINE I == {i \in DOMAIN toasts : toasts[i] # id}
           s == SelectAt(toasts, I)
           at == InOrder(I)
           n == Cardinality(I)
<1>1. I \in SUBSET DOMAIN toasts
  OBVIOUS
<1>2. /\ s \in Seq(T) /\ DOMAIN s = 1..n /\ at \in [1..n -> I]
      /\ \A i, j \in 1..n : i < j => at[i] < at[j]
      /\ \A x \in I : \E i \in 1..n : at[i] = x
      /\ \A i \in 1..n : s[i] = toasts[at[i]]
  <2> HIDE DEF I
  <2> QED BY <1>1, SelectAtIsSelection
<1>3. s = Without(id)
  BY DEF Without
<1>4. \A i \in 1..n : at[i] \in DOMAIN toasts /\ toasts[at[i]] # id
  <2> HIDE DEF s, at, n
  <2> QED BY <1>2
<1>5. \A k \in DOMAIN toasts : toasts[k] # id => \E i \in 1..n : at[i] = k
  <2> HIDE DEF s, at, n
  <2> QED BY <1>2
<1> HIDE DEF I, s, at, n
<1>6. \A i, j \in 1..n : i < j => s[i] < s[j]
  BY <1>2, <1>4
<1> QED BY <1>2, <1>3, <1>4, <1>5, <1>6

LEMMA WidgetsInvInit == WidgetInit => WidgetsInv
<1> SUFFICES ASSUME WidgetInit PROVE WidgetsInv
  OBVIOUS
<1>1. /\ toasts = <<>> /\ toastSeq = 0 /\ expiring = {} /\ sticky = {}
      /\ open = FALSE /\ listeners = {} /\ onClose = 0
  BY DEF WidgetInit
<1>2. StackOK(toasts)
  BY <1>1 DEF StackOK
<1> QED BY <1>1, <1>2 DEF WidgetsInv, OneListener

\* The stack without an id is as it should be, if no other lost its timer.
LEMMA StackWithout ==
  ASSUME WidgetsInv, NEW id,
         toasts' = Without(id), toastSeq' = toastSeq, sticky' = sticky,
         expiring' \in {expiring, expiring \ {id}}
  PROVE  /\ StackOK(toasts)'
         /\ \A k \in DOMAIN toasts :
              toasts[k] # id => \E i \in DOMAIN toasts' : toasts'[i] = toasts[k]
<1>1. /\ toasts \in Seq(1..toastSeq)
      /\ \A i, j \in DOMAIN toasts : i < j => toasts[i] < toasts[j]
      /\ \A k \in DOMAIN toasts : toasts[k] \in expiring \cup sticky
  BY DEF WidgetsInv, StackOK
<1> DEFINE w == Without(id)
<1>2. /\ w \in Seq(1..toastSeq)
      /\ \A i, j \in DOMAIN w : i < j => w[i] < w[j]
      /\ \A i \in DOMAIN w : w[i] # id /\ \E k \in DOMAIN toasts : w[i] = toasts[k]
      /\ \A k \in DOMAIN toasts : toasts[k] # id => \E i \in DOMAIN w : w[i] = toasts[k]
  BY <1>1, WithoutTakesOne
<1> HIDE DEF w
<1>3. toasts' = w
  BY DEF w
<1>4. ASSUME NEW i \in DOMAIN w PROVE w[i] \in expiring' \cup sticky'
  BY <1>1, <1>2
<1> QED BY <1>2, <1>3, <1>4 DEF StackOK

LEMMA WidgetsInvStep == WidgetsInv /\ [WidgetNext]_widgetVars => WidgetsInv'
<1> SUFFICES ASSUME WidgetsInv, [WidgetNext]_widgetVars PROVE WidgetsInv'
  OBVIOUS
<1>1. ASSUME NEW ttl \in BOOLEAN, Push(ttl) PROVE WidgetsInv'
  <2>1. /\ toastSeq \in Nat /\ toastSeq' = toastSeq + 1 /\ toasts \in Seq(1..toastSeq)
        /\ toasts' = Append(toasts, toastSeq + 1)
        /\ \A i \in DOMAIN toasts : toasts[i] \in 1..toastSeq
    BY <1>1, LenProperties DEF Push, WidgetsInv, StackOK
  <2>2. /\ expiring' \cup sticky' = expiring \cup sticky \cup {toastSeq + 1}
        /\ expiring' \subseteq 1..toastSeq + 1 /\ sticky' \subseteq 1..toastSeq + 1
        /\ expiring' \cap sticky' = {}
    <3>1. /\ expiring \subseteq 1..toastSeq /\ sticky \subseteq 1..toastSeq
          /\ expiring \cap sticky = {} /\ toastSeq + 1 \notin 1..toastSeq
          /\ 1..toastSeq \subseteq 1..toastSeq + 1 /\ toastSeq + 1 \in 1..toastSeq + 1
      BY <2>1 DEF WidgetsInv
    <3>2. \/ expiring' = expiring \cup {toastSeq + 1} /\ sticky' = sticky
          \/ sticky' = sticky \cup {toastSeq + 1} /\ expiring' = expiring
      BY <1>1, <2>1 DEF Push
    <3> QED BY <3>1, <3>2
  <2>3. toasts \in Seq(1..toastSeq + 1) /\ toastSeq + 1 \in 1..toastSeq + 1
    <3>1. 1..toastSeq \subseteq 1..toastSeq + 1
      BY <2>1
    <3> QED BY <2>1, <3>1
  <2>4. /\ toasts' \in Seq(1..toastSeq + 1) /\ DOMAIN toasts' = 1..Len(toasts) + 1
        /\ DOMAIN toasts = 1..Len(toasts) /\ Len(toasts) \in Nat
        /\ \A i \in 1..Len(toasts) : toasts'[i] = toasts[i]
        /\ toasts'[Len(toasts) + 1] = toastSeq + 1
    BY <2>1, <2>3, AppendProperties, LenProperties
  <2>5. ASSUME NEW i \in DOMAIN toasts', NEW j \in DOMAIN toasts', i < j
        PROVE  toasts'[i] < toasts'[j]
    <3>1. i \in 1..Len(toasts) /\ toasts[i] \in 1..toastSeq
      BY <2>1, <2>4, <2>5
    <3>2. CASE j = Len(toasts) + 1
      BY <2>1, <2>4, <3>1, <3>2
    <3>3. CASE j \in 1..Len(toasts)
      BY <2>4, <2>5, <3>1, <3>3 DEF WidgetsInv, StackOK
    <3> QED BY <2>4, <3>2, <3>3
  <2>6. ASSUME NEW i \in DOMAIN toasts' PROVE toasts'[i] \in expiring' \cup sticky'
    <3>1. CASE i = Len(toasts) + 1
      BY <2>2, <2>4, <3>1
    <3>2. CASE i \in 1..Len(toasts)
      BY <2>2, <2>4, <3>2 DEF WidgetsInv, StackOK
    <3> QED BY <2>4, <3>1, <3>2
  <2>7. StackOK(toasts)'
    BY <2>1, <2>4, <2>5, <2>6 DEF StackOK
  <2> QED BY <1>1, <2>1, <2>2, <2>7 DEF WidgetsInv, OneListener, Push, modalVars
<1>2. ASSUME NEW id \in 1..MaxToasts, Dismiss(id) PROVE WidgetsInv'
  <2>1. toasts' = Without(id) /\ UNCHANGED <<toastSeq, expiring, sticky>>
    BY <1>2 DEF Dismiss
  <2>2. StackOK(toasts)'
    BY <2>1, StackWithout
  <2> QED BY <1>2, <2>1, <2>2 DEF Dismiss, WidgetsInv, OneListener, modalVars
<1>3. ASSUME NEW id \in 1..MaxToasts, Expire(id) PROVE WidgetsInv'
  <2>1. toasts' = Without(id) /\ expiring' = expiring \ {id} /\ UNCHANGED <<toastSeq, sticky>>
    BY <1>3 DEF Expire
  <2>2. StackOK(toasts)'
    BY <2>1, StackWithout
  <2> QED BY <1>3, <2>1, <2>2 DEF Expire, WidgetsInv, OneListener, modalVars
<1>4. ASSUME NEW isOpen \in BOOLEAN, Render(isOpen) PROVE WidgetsInv'
  BY <1>4 DEF Render, ModalEffect, toastVars, WidgetsInv, OneListener, StackOK
<1>5. ASSUME FocusField PROVE WidgetsInv'
  BY <1>5 DEF FocusField, toastVars, WidgetsInv, OneListener, StackOK
<1>6. ASSUME UNCHANGED widgetVars PROVE WidgetsInv'
  BY <1>6 DEF widgetVars, WidgetsInv, OneListener, StackOK
<1> QED BY <1>1, <1>2, <1>3, <1>4, <1>5, <1>6 DEF WidgetNext, Escape

LEMMA StickyStaysStep ==
  ASSUME WidgetsInv, [WidgetNext]_widgetVars, NEW id \in sticky, NEW k \in DOMAIN toasts,
         toasts[k] = id, \A i \in DOMAIN toasts' : toasts'[i] # id
  PROVE  Dismiss(id)
<1>1. ASSUME NEW x, toasts' = Without(x) PROVE x = id
  <2>1. /\ toasts \in Seq(1..toastSeq)
        /\ \A i, j \in DOMAIN toasts : i < j => toasts[i] < toasts[j]
    BY DEF WidgetsInv, StackOK
  <2> QED BY <1>1, <2>1, WithoutTakesOne
<1>2. ASSUME NEW ttl \in BOOLEAN, Push(ttl) PROVE FALSE
  <2>1. toasts \in Seq(1..toastSeq) /\ toasts' = Append(toasts, toastSeq + 1)
    BY <1>2 DEF Push, WidgetsInv, StackOK
  <2>2. k \in DOMAIN toasts' /\ toasts'[k] = toasts[k]
    BY <2>1, AppendProperties, LenProperties
  <2> QED BY <2>2
<1>3. ASSUME NEW x \in 1..MaxToasts, Dismiss(x) PROVE Dismiss(id)
  <2>1. x = id
    BY <1>1, <1>3 DEF Dismiss
  <2> QED BY <1>3, <2>1
<1>4. ASSUME NEW x \in 1..MaxToasts, Expire(x) PROVE FALSE
  BY <1>1, <1>4 DEF Expire, WidgetsInv
<1>5. ASSUME UNCHANGED toasts PROVE FALSE
  BY <1>5
<1> QED BY <1>2, <1>3, <1>4, <1>5 DEF WidgetNext, Escape, Render, FocusField, toastVars, widgetVars

\* However pushes, clicks, timers and renders interleave, the ids of the stack
\* are distinct and in order, a toast with a lifetime has its timer, one without
\* leaves by a click only, and an open dialog has one listener (Toast.tsx,
\* Modal.tsx).
THEOREM WidgetsCorrect == WidgetSpec => WidgetsSafe
<1>1. WidgetsInv => ToastsInOrder /\ TransientHasTimer /\ OneListener
  BY DEF WidgetsInv, StackOK, ToastsInOrder, TransientHasTimer
<1>2. WidgetsInv /\ [WidgetNext]_widgetVars =>
        [\A id \in sticky : (\E i \in DOMAIN toasts : toasts[i] = id)
           /\ (\A i \in DOMAIN toasts' : toasts'[i] # id) => Dismiss(id)]_widgetVars
  BY StickyStaysStep
<1> QED
  BY WidgetsInvInit, WidgetsInvStep, <1>1, <1>2, PTL DEF WidgetSpec, WidgetsSafe, StickyStays

-----------------------------------------------------------------------------
(***************************************************************************)
(* The operations views, for any number of rows, statuses, cells, drivers  *)
(* and assignments.  The order of a column is a strict total order of the  *)
(* rows, whatever their cells, because equal cells compare by place; that  *)
(* is why a sorted table is the same rows again.                           *)
(***************************************************************************)

TablesInv ==
  /\ statusOf \in [Row -> RowStatus \cup {OtherStatus}]
  /\ cellOf \in [Row -> {<<c>> : c \in Cell} \cup {<<>>}]
  /\ tile \in RowStatus \cup {Null}
  /\ hits \in (SUBSET Row) \cup {{Null}}
  /\ sort \in {"none", "asc", "desc"}

LEMMA TablesInvStep == TablesInv /\ [TablesNext]_tableVars => TablesInv'
<1> SUFFICES ASSUME TablesInv, [TablesNext]_tableVars PROVE TablesInv'
  OBVIOUS
<1>1. ASSUME NEW s \in RowStatus, ClickTile(s) PROVE TablesInv'
  BY <1>1 DEF ClickTile, TablesInv
<1>2. ASSUME NEW rows \in (SUBSET Row) \cup {{Null}}, Type(rows) PROVE TablesInv'
  BY <1>2 DEF Type, TablesInv
<1>3. ASSUME ToggleSort PROVE TablesInv'
  BY <1>3 DEF ToggleSort, TablesInv
<1>4. ASSUME NEW r \in Row, ClickRow(r) PROVE TablesInv'
  BY <1>4 DEF ClickRow, TablesInv
<1>5. ASSUME UNCHANGED tableVars PROVE TablesInv'
  BY <1>5 DEF tableVars, TablesInv
<1> QED BY <1>1, <1>2, <1>3, <1>4, <1>5 DEF TablesNext

\* The rows shown are numbers, finitely many, and those that match.
LEMMA VisibleAreTheMatches ==
  ASSUME TablesInv
  PROVE  /\ Visible \in SUBSET Row /\ Visible \in SUBSET Int /\ IsFiniteSet(Visible)
         /\ Visible = {r \in Row : tile \in {Null, statusOf[r]} /\ (hits = {Null} \/ r \in hits)}
<1>1. Base \in SUBSET Row /\ \A r \in Row : r \in Base <=> hits = {Null} \/ r \in hits
  <2>1. CASE hits = {Null}
    <3>1. Base = Row
      BY <2>1 DEF Base
    <3> QED BY <2>1, <3>1
  <2>2. CASE hits # {Null}
    <3>1. Base = hits /\ hits \in SUBSET Row
      BY <2>2 DEF Base, TablesInv
    <3> QED BY <2>2, <3>1
  <2> QED BY <2>1, <2>2
<1>2. Visible \in SUBSET Row /\ \A r \in Row : r \in Visible <=>
                                  r \in Base /\ tile \in {Null, statusOf[r]}
  BY <1>1 DEF Visible
<1>3. IsFiniteSet(Row) /\ Row \in SUBSET Int
  BY TablesAssumption, FS_Interval DEF Row
<1>4. Visible = {r \in Row : tile \in {Null, statusOf[r]} /\ (hits = {Null} \/ r \in hits)}
  BY <1>1, <1>2
<1> QED BY <1>2, <1>3, <1>4, FS_Subset

\* A cell is empty or a number.
LEMMA CellsCompare ==
  ASSUME TablesInv, NEW r \in Row, cellOf[r] # <<>>
  PROVE  cellOf[r][1] \in Int /\ cellOf[r] = <<cellOf[r][1]>>
BY TablesAssumption DEF TablesInv

LEMMA PrecedesIsTotal ==
  ASSUME TablesInv
  PROVE  TotalOrder(Visible, {p \in Visible \X Visible : Precedes(p[1], p[2])})
<1> DEFINE R == {p \in Visible \X Visible : Precedes(p[1], p[2])}
<1>1. \A x, y \in Visible : <<x, y>> \in R <=> Precedes(x, y)
  OBVIOUS
<1>2. \A x \in Visible : x \in Row /\ x \in Int
  BY VisibleAreTheMatches
<1> HIDE DEF R
<1>3. ASSUME NEW x \in Visible PROVE ~Precedes(x, x)
  BY <1>2, CellsCompare DEF Precedes
<1>4. ASSUME NEW x \in Visible, NEW y \in Visible, NEW z \in Visible,
             Precedes(x, y), Precedes(y, z)
      PROVE  Precedes(x, z)
  <2>1. x \in Int /\ y \in Int /\ z \in Int
    BY <1>2
  <2>2. /\ cellOf[x] # <<>> => cellOf[x][1] \in Int
        /\ cellOf[y] # <<>> => cellOf[y][1] \in Int
        /\ cellOf[z] # <<>> => cellOf[z][1] \in Int
    BY <1>2, CellsCompare
  <2> QED BY <1>4, <2>1, <2>2 DEF Precedes
<1>5. ASSUME NEW x \in Visible, NEW y \in Visible, x # y PROVE Precedes(x, y) \/ Precedes(y, x)
  <2>1. x \in Int /\ y \in Int
    BY <1>2
  <2>2. /\ cellOf[x] # <<>> => cellOf[x][1] \in Int /\ cellOf[x] = <<cellOf[x][1]>>
        /\ cellOf[y] # <<>> => cellOf[y][1] \in Int /\ cellOf[y] = <<cellOf[y][1]>>
    BY <1>2, CellsCompare
  <2>3. CASE cellOf[x] = cellOf[y]
    BY <1>5, <2>1, <2>3 DEF Precedes
  <2>4. CASE cellOf[x] # cellOf[y] /\ (cellOf[x] = <<>> \/ cellOf[y] = <<>>)
    BY <2>4 DEF Precedes
  <2>5. CASE cellOf[x] # cellOf[y] /\ cellOf[x] # <<>> /\ cellOf[y] # <<>>
    <3>1. cellOf[x][1] # cellOf[y][1]
      BY <2>2, <2>5
    <3> QED BY <2>2, <2>5, <3>1 DEF Precedes
  <2> QED BY <2>3, <2>4, <2>5
<1> QED BY <1>1, <1>3, <1>4, <1>5 DEF TotalOrder, R

LEMMA SortedIsNumbering ==
  ASSUME TablesInv
  PROVE  /\ Cardinality(Visible) \in Nat /\ Sorted \in [1..Cardinality(Visible) -> Visible]
         /\ \A x \in Visible : \E i \in 1..Cardinality(Visible) : Sorted[i] = x
         /\ \A i, j \in 1..Cardinality(Visible) : Sorted[i] = Sorted[j] => i = j
         /\ \A i, j \in 1..Cardinality(Visible) : i < j =>
              IF sort = "none" THEN Sorted[i] < Sorted[j] ELSE Precedes(Sorted[i], Sorted[j])
<1>1. CASE sort = "none"
  <2>1. Sorted = InOrder(Visible)
    BY <1>1 DEF Sorted
  <2> QED BY <1>1, <2>1, InOrderIsNumbering, VisibleAreTheMatches
<1>2. CASE sort # "none"
  <2> DEFINE R == {p \in Visible \X Visible : Precedes(p[1], p[2])}
  <2>1. Sorted = OrderedBy(Visible, R) /\ TotalOrder(Visible, R)
    BY <1>2, PrecedesIsTotal DEF Sorted
  <2>2. \A x, y : <<x, y>> \in R => Precedes(x, y)
    OBVIOUS
  <2>3. IsFiniteSet(Visible)
    BY VisibleAreTheMatches
  <2> HIDE DEF R
  <2> DEFINE f == OrderedBy(Visible, R)
  <2>4. /\ Cardinality(Visible) \in Nat /\ f \in [1..Cardinality(Visible) -> Visible]
        /\ \A i, j \in 1..Cardinality(Visible) : i < j => <<f[i], f[j]>> \in R
        /\ \A x \in Visible : \E i \in 1..Cardinality(Visible) : f[i] = x
        /\ \A i, j \in 1..Cardinality(Visible) : f[i] = f[j] => i = j
    BY <2>1, <2>3, OrderedByIsNumbering
  <2>5. Sorted = f
    BY <2>1
  <2> HIDE DEF f
  <2> QED BY <1>2, <2>2, <2>4, <2>5
<1> QED BY <1>1, <1>2

LEMMA TablesInvIsSafe ==
  ASSUME TablesInv
  PROVE  TablesSafe
<1> DEFINE n == Cardinality(Visible)
<1>1. /\ n \in Nat /\ Sorted \in [1..n -> Visible]
      /\ \A x \in Visible : \E i \in 1..n : Sorted[i] = x
      /\ \A i, j \in 1..n : Sorted[i] = Sorted[j] => i = j
      /\ \A i, j \in 1..n : i < j =>
           IF sort = "none" THEN Sorted[i] < Sorted[j] ELSE Precedes(Sorted[i], Sorted[j])
  BY SortedIsNumbering
<1>2. /\ Visible \in SUBSET Row /\ \A x \in Visible : x \in Int
      /\ Visible = {r \in Row : tile \in {Null, statusOf[r]} /\ (hits = {Null} \/ r \in hits)}
  BY VisibleAreTheMatches
<1>3. DOMAIN Sorted = 1..n /\ \A i \in 1..n : Sorted[i] \in Visible
  BY <1>1
<1> HIDE DEF n
<1>4. ToSet(Sorted) = Visible /\ IsInjective(Sorted)
  BY <1>1, <1>3 DEF ToSet, IsInjective
<1>5. ASSUME NEW i \in 1..n, NEW j \in 1..n, i < j
      PROVE  LET a == cellOf[Sorted[i]]  b == cellOf[Sorted[j]] IN
               /\ sort = "none" => Sorted[i] < Sorted[j]
               /\ sort # "none" /\ a = b => Sorted[i] < Sorted[j]
               /\ sort # "none" /\ a = <<>> => b = <<>>
               /\ sort = "asc"  /\ a # <<>> /\ b # <<>> => a[1] <= b[1]
               /\ sort = "desc" /\ a # <<>> /\ b # <<>> => a[1] >= b[1]
  <2>1. Sorted[i] \in Row /\ Sorted[j] \in Row
    BY <1>2, <1>3
  <2>2. /\ cellOf[Sorted[i]] # <<>> => cellOf[Sorted[i]][1] \in Int
        /\ cellOf[Sorted[j]] # <<>> => cellOf[Sorted[j]][1] \in Int
    BY <2>1, CellsCompare
  <2>3. IF sort = "none" THEN Sorted[i] < Sorted[j] ELSE Precedes(Sorted[i], Sorted[j])
    BY <1>1, <1>5
  <2> QED BY <2>2, <2>3 DEF Precedes
<1>6. RowsAreTheMatches
  BY <1>2, <1>3, <1>4, <1>5 DEF RowsAreTheMatches
<1>7. ASSUME NEW s \in RowStatus, tile = s, hits = {Null} PROVE Len(Sorted) = Count(s)
  <2>1. Len(Sorted) = n
    <3>1. Sorted \in Seq(Visible)
      BY <1>1, SeqDef
    <3> QED BY <1>1, <1>3, <3>1, LenProperties
  <2>2. Visible = {r \in Row : statusOf[r] = s}
    BY <1>2, <1>7, TablesAssumption
  <2> QED BY <2>1, <2>2 DEF n, Count
<1> QED BY <1>6, <1>7 DEF TablesSafe, TilesPredictTheRows

-----------------------------------------------------------------------------
RosterInv ==
  /\ vanOf \in [1..Staff -> Van \cup {NoVan}]
  /\ jobs \in [DOMAIN Manifest -> [driver : 1..Staff, van : Van, complete : BOOLEAN]]
  /\ live \in SUBSET Van
  /\ picked \in 0..Staff

LEMMA RosterInvStep == RosterInv /\ [RosterNext]_rosterVars => RosterInv'
<1> SUFFICES ASSUME RosterInv, [RosterNext]_rosterVars PROVE RosterInv'
  OBVIOUS
<1>1. ASSUME NEW v \in Van, Report(v) PROVE RosterInv'
  BY <1>1 DEF Report, RosterInv
<1>2. ASSUME NEW d \in 1..Staff, PickDriver(d) PROVE RosterInv'
  BY <1>2, RosterAssumption DEF PickDriver, RosterInv
<1>3. ASSUME UNCHANGED rosterVars PROVE RosterInv'
  BY <1>3 DEF rosterVars, RosterInv
<1> QED BY <1>1, <1>2, <1>3 DEF RosterNext

\* The active assignment of a driver is an open one, if there is any.
LEMMA ActiveJobIsOpen ==
  ASSUME RosterInv, NEW d \in 1..Staff
  PROVE  IF OpenJobs(d) = {} THEN ActiveJob(d) = 0
         ELSE ActiveJob(d) \in OpenJobs(d) /\ ActiveJob(d) \in DOMAIN Manifest /\ ActiveJob(d) # 0
<1> DEFINE I == {i \in 1..Len(jobs) : jobs[i].driver = d /\ ~jobs[i].complete}
<1>1. Len(Manifest) \in Nat /\ DOMAIN Manifest = 1..Len(Manifest)
  BY RosterAssumption, LenProperties
<1> DEFINE T == [driver : 1..Staff, van : Van, complete : BOOLEAN]
<1>2. DOMAIN jobs = DOMAIN Manifest /\ jobs \in Seq(T)
  <2>1. jobs \in [1..Len(Manifest) -> T]
    BY <1>1 DEF RosterInv
  <2> HIDE DEF T
  <2> QED BY <1>1, <2>1, SeqDef
<1>3. DOMAIN jobs = 1..Len(jobs) /\ Len(jobs) \in Nat
  <2> HIDE DEF T
  <2> QED BY <1>2, LenProperties
<1>4. I = OpenJobs(d) /\ I \in SUBSET Int
  BY <1>3 DEF OpenJobs
<1>5. IsFiniteSet(I)
  <2>1. IsFiniteSet(1..Len(jobs)) /\ I \subseteq 1..Len(jobs)
    BY <1>3, FS_Interval
  <2> QED BY <2>1, FS_Subset
<1>6. ActiveJob(d) = IF I # {} THEN Min(I) ELSE 0
  BY DEF ActiveJob, SelectInSeq
<1>7. I # {} => Min(I) \in I
  <2> HIDE DEF I
  <2>1. I # {} => \E m \in I : \A x \in I : m <= x
    BY <1>4, <1>5, ExtremesExist
  <2> QED BY <2>1 DEF Min
<1>8. \A i \in I : i # 0 /\ i \in DOMAIN Manifest
  BY <1>2, <1>3
<1> HIDE DEF I
<1> QED BY <1>4, <1>6, <1>7, <1>8

LEMMA RosterInvIsSafe ==
  ASSUME RosterInv
  PROVE  PanelTellsOneStory /\ RostersAgree
<1>1. ASSUME picked # 0 PROVE PanelTellsOneStory
  <2> DEFINE job == ActiveJob(picked)
             panel == DriverDetailPanel
  <2>1. picked \in 1..Staff
    BY <1>1, RosterAssumption DEF RosterInv
  <2>2. CASE OpenJobs(picked) = {}
    <3>1. job = 0
      BY <2>1, <2>2, ActiveJobIsOpen
    <3>2. /\ panel.assignment = 0 /\ ~panel.stops /\ panel.deliveries = <<>>
          /\ panel.position \in {NoVan, vanOf[picked]}
      BY <1>1, <3>1 DEF DriverDetailPanel, BuildDriverDetail
    <3> QED BY <2>2, <3>2 DEF PanelTellsOneStory
  <2>3. CASE OpenJobs(picked) # {}
    <3>1. job \in OpenJobs(picked) /\ job \in DOMAIN Manifest /\ job # 0
      BY <2>1, <2>3, ActiveJobIsOpen
    <3>2. jobs[job].van \in Van
      BY <3>1 DEF RosterInv
    <3> DEFINE I == {k \in DOMAIN Manifest[job] : Manifest[job][k] \in Stored}
    <3>3. /\ panel.assignment = job
          /\ panel.stops <=> job \in routed
          /\ panel.deliveries = SelectAt(Manifest[job], I)
          /\ panel.position = IF jobs[job].van \in live THEN jobs[job].van ELSE NoVan
      BY <1>1, <3>1 DEF DriverDetailPanel, BuildDriverDetail
    <3>4. Manifest[job] \in Seq(Nat)
      BY <3>1, RosterAssumption, LenProperties
    <3>5. ToSet(SelectAt(Manifest[job], I)) = ToSet(Manifest[job]) \cap Stored
      <4> DEFINE s == SelectAt(Manifest[job], I)
                 at == InOrder(I)
                 n == Cardinality(I)
      <4>1. I \in SUBSET DOMAIN Manifest[job]
        OBVIOUS
      <4>2. /\ DOMAIN s = 1..n /\ at \in [1..n -> I] /\ \A x \in I : \E i \in 1..n : at[i] = x
            /\ \A i \in 1..n : s[i] = Manifest[job][at[i]]
        <5> HIDE DEF I, job
        <5> QED BY <3>4, <4>1, SelectAtIsSelection
      <4> HIDE DEF s, at, n
      <4>3. \A i \in 1..n : at[i] \in I
        BY <4>2
      <4>4. \A x : x \in ToSet(s) <=> \E k \in I : x = Manifest[job][k]
        <5> HIDE DEF I, job
        <5> QED BY <4>2, <4>3 DEF ToSet
      <4>5. \A x : (\E k \in I : x = Manifest[job][k]) <=> x \in ToSet(Manifest[job]) \cap Stored
        <5> HIDE DEF job
        <5> QED BY DEF ToSet
      <4> HIDE DEF I, job
      <4> QED BY <4>4, <4>5 DEF s
    <3> HIDE DEF job, panel, I
    <3>6. panel = DriverDetailPanel
      BY DEF panel
    <3> QED BY <1>1, <2>3, <3>1, <3>2, <3>3, <3>5, <3>6, RosterAssumption DEF PanelTellsOneStory
  <2> QED BY <2>2, <2>3
<1>2. ASSUME NEW v \in Van
      PROVE  LET I == {i \in 1..Staff : vanOf[i] = v} IN
               IF I = {} THEN DriverByVehicle(v) = 0 ELSE DriverByVehicle(v) \in I
  <2> DEFINE I == {i \in 1..Staff : vanOf[i] = v}
  <2>1. Len(vanOf) = Staff
    <3>1. vanOf \in Seq(Van \cup {NoVan}) /\ DOMAIN vanOf = 1..Staff
      BY RosterAssumption, SeqDef DEF RosterInv
    <3> QED BY <3>1, RosterAssumption, LenProperties
  <2>2. DriverByVehicle(v) = IF I # {} THEN Max(I) ELSE 0
    BY <2>1 DEF DriverByVehicle, SelectLastInSeq
  <2>3. I \in SUBSET Int /\ IsFiniteSet(I)
    <3>1. IsFiniteSet(1..Staff) /\ I \subseteq 1..Staff /\ 1..Staff \subseteq Int
      BY RosterAssumption, FS_Interval
    <3> QED BY <3>1, FS_Subset
  <2> HIDE DEF I
  <2>4. I # {} => Max(I) \in I
    <3>1. I # {} => \E m \in I : \A x \in I : m >= x
      <4>1. I # {} => \E m \in I : \A x \in I : x <= m
        BY <2>3, ExtremesExist
      <4> QED BY <2>3, <4>1
    <3> QED BY <3>1 DEF Max
  <2> QED BY <2>2, <2>4 DEF I
<1>3. RostersAgree
  <2>1. ASSUME NEW v \in Van, DriverByVehicle(v) # 0 PROVE vanOf[DriverByVehicle(v)] = v
    BY <1>2, <2>1
  <2>2. ASSUME NEW d \in 1..Staff, vanOf[d] # NoVan, \A e \in 1..Staff \ {d} : vanOf[e] # vanOf[d]
        PROVE  DriverByVehicle(vanOf[d]) = d
    <3>1. vanOf[d] \in Van
      BY <2>2 DEF RosterInv
    <3>2. {i \in 1..Staff : vanOf[i] = vanOf[d]} = {d}
      BY <2>2
    <3> QED BY <1>2, <3>1, <3>2
  <2> QED BY <2>1, <2>2 DEF RostersAgree
<1> QED BY <1>1, <1>3 DEF PanelTellsOneStory

\* Whatever is clicked, typed and reported, a table shows exactly the rows that
\* match, in a stable order, the panel of a driver tells one story, and the two
\* rosters agree (Table.tsx, StatusCounts.tsx, driverDetail.ts, VehiclesView.tsx).
THEOREM OperationsCorrect == TablesSpec /\ RosterSpec => []OperationsSafe
<1>1. TablesInit => TablesInv
  <2> SUFFICES ASSUME TablesInit PROVE TablesInv
    OBVIOUS
  <2>1. hits \in (SUBSET Row) \cup {{Null}}
    BY DEF TablesInit
  <2> QED BY <2>1 DEF TablesInit, TablesInv
<1>2. RosterInit => RosterInv
  BY RosterAssumption DEF RosterInit, RosterInv
<1>3. TablesInv /\ RosterInv => OperationsSafe
  BY TablesInvIsSafe, RosterInvIsSafe DEF OperationsSafe
<1> QED
  BY <1>1, <1>2, <1>3, TablesInvStep, RosterInvStep, PTL DEF TablesSpec, RosterSpec

-----------------------------------------------------------------------------
(***************************************************************************)
(* The customer's tracking page, for any number of positions.  The view    *)
(* and the answer that is on its way are both of the past, and what is     *)
(* streamed leads from each to the present of the delivery.                *)
(***************************************************************************)

DeliveryStatus == {"assigned", "inTransit", "arrived", "completed", "cancelled"}
PageView == [status : DeliveryStatus, position : Nat, arriving : BOOLEAN]

\* The status that a page at s will have when all that is streamed has come.
LedTo(s) == IF streamed = <<>> THEN s ELSE streamed[Len(streamed)]

\* Only a trip has a position, which is one of those streamed.
OfTheTrip(v) == v.position # 0 => ShowsLivePosition(v.status) /\ v.position <= fixes

TrackingTypeOK ==
  /\ delivery \in DeliveryStatus /\ streamed \in Seq(DeliveryStatus) /\ fixes \in Nat
  /\ view \in {NoView} \cup PageView /\ lookedUp \in {<<>>} \cup {<<v>> : v \in PageView}
  /\ loading \in BOOLEAN /\ missed \in BOOLEAN /\ trip \in Nat

TrackingInv ==
  /\ TrackingTypeOK
  /\ loading => view = NoView
  /\ lookedUp # <<>> => loading
  /\ LedTo(delivery) = delivery
  /\ lookedUp # <<>> => OfTheTrip(lookedUp[1]) /\ (~missed => LedTo(lookedUp[1].status) = delivery)
  /\ OfTheTrip(view) /\ trip <= fixes + 1 /\ (view.position # 0 => view.position >= trip)
  /\ view # NoView /\ ~missed => LedTo(view.status) = delivery

LEMMA TrackingInvInit == TrackingInit => TrackingInv
<1> SUFFICES ASSUME TrackingInit PROVE TrackingInv
  OBVIOUS
<1>1. /\ delivery \in DeliveryStatus /\ streamed = <<>> /\ fixes = 0 /\ trip = 1
      /\ view = NoView /\ lookedUp = <<>> /\ loading = FALSE /\ missed = FALSE
  BY DEF TrackingInit, DeliveryStatus
<1>2. TrackingTypeOK
  <2>1. streamed \in Seq(DeliveryStatus)
    BY <1>1, EmptySeq
  <2>2. view \in {NoView} \cup PageView /\ lookedUp \in {<<>>} \cup {<<v>> : v \in PageView}
    BY <1>1
  <2> QED BY <1>1, <2>1, <2>2 DEF TrackingTypeOK
<1>3. OfTheTrip(view) /\ view.position = 0
  BY <1>1 DEF OfTheTrip, NoView
<1> QED BY <1>1, <1>2, <1>3 DEF TrackingInv, LedTo

\* A change that has come leads where all of them led, and a new one to itself.
LEMMA StreamLeads ==
  ASSUME NEW s \in Seq(DeliveryStatus)
  PROVE  /\ \A x \in DeliveryStatus : /\ Append(s, x) \in Seq(DeliveryStatus) /\ Append(s, x) # <<>>
                                      /\ Append(s, x)[Len(Append(s, x))] = x
         /\ s # <<>> => /\ Head(s) \in DeliveryStatus /\ Tail(s) \in Seq(DeliveryStatus)
                        /\ s[Len(s)] = IF Tail(s) = <<>> THEN Head(s) ELSE Tail(s)[Len(Tail(s))]
<1>1. ASSUME NEW x \in DeliveryStatus
      PROVE  /\ Append(s, x) \in Seq(DeliveryStatus) /\ Append(s, x) # <<>>
             /\ Append(s, x)[Len(Append(s, x))] = x
  BY AppendProperties, LenProperties
<1>2. ASSUME s # <<>>
      PROVE  /\ Head(s) \in DeliveryStatus /\ Tail(s) \in Seq(DeliveryStatus)
             /\ s[Len(s)] = IF Tail(s) = <<>> THEN Head(s) ELSE Tail(s)[Len(Tail(s))]
  <2>1. /\ Head(s) = s[1] /\ Head(s) \in DeliveryStatus /\ Tail(s) \in Seq(DeliveryStatus)
        /\ Len(Tail(s)) = Len(s) - 1 /\ \A i \in 1..Len(Tail(s)) : Tail(s)[i] = s[i + 1]
    BY <1>2, HeadTailProperties
  <2>2. Len(s) \in Nat /\ Len(s) # 0
    BY <1>2, LenProperties, EmptySeq
  <2>3. Tail(s) = <<>> <=> Len(s) = 1
    BY <2>1, <2>2, EmptySeq
  <2>4. CASE Len(s) = 1
    BY <2>1, <2>3, <2>4
  <2>5. CASE Len(s) # 1
    <3>1. Len(Tail(s)) \in 1..Len(Tail(s)) /\ Len(Tail(s)) + 1 = Len(s)
      BY <2>1, <2>2, <2>5
    <3> QED BY <2>1, <2>3, <2>5, <3>1
  <2> QED BY <2>1, <2>4, <2>5
<1> QED BY <1>1, <1>2

LEMMA TransitionStep ==
  ASSUME TrackingInv, NEW next \in DeliveryStatus, Transition(next)
  PROVE  TrackingInv'
<1>1. /\ delivery' = next /\ streamed' = Append(streamed, next)
      /\ UNCHANGED <<fixes, view, loading, error, lookedUp, trip, missed>>
  BY DEF Transition
<1>2. /\ streamed' \in Seq(DeliveryStatus) /\ streamed' # <<>>
      /\ streamed'[Len(streamed')] = next
  BY <1>1, StreamLeads DEF TrackingInv, TrackingTypeOK
<1>3. TrackingTypeOK'
  BY <1>1, <1>2 DEF TrackingInv, TrackingTypeOK
<1> QED BY <1>1, <1>2, <1>3 DEF TrackingInv, LedTo, OfTheTrip, ShowsLivePosition

LEMMA OnStatusStep == ASSUME TrackingInv, OnStatus PROVE TrackingInv'
<1> DEFINE s == Head(streamed)
<1>1. /\ streamed # <<>> /\ streamed' = Tail(streamed)
      /\ missed' = (missed \/ lookedUp # <<>>)
      /\ UNCHANGED <<delivery, fixes, loading, error, lookedUp>>
  BY DEF OnStatus
<1>2. /\ s \in DeliveryStatus /\ streamed' \in Seq(DeliveryStatus)
      /\ delivery = streamed[Len(streamed)]
      /\ delivery = IF streamed' = <<>> THEN s ELSE streamed'[Len(streamed')]
  BY <1>1, StreamLeads DEF TrackingInv, TrackingTypeOK, LedTo
<1> HIDE DEF s
<1>3. LedTo(delivery)' = delivery /\ (streamed' = <<>> => s = delivery)
  BY <1>1, <1>2 DEF LedTo
<1>4. CASE view = NoView
  <2>1. view' = view /\ trip' = trip /\ (lookedUp # <<>> => missed')
    BY <1>1, <1>4 DEF OnStatus
  <2>2. TrackingTypeOK'
    BY <1>1, <1>2, <2>1 DEF TrackingInv, TrackingTypeOK
  <2> QED BY <1>1, <1>3, <1>4, <2>1, <2>2 DEF TrackingInv, OfTheTrip, ShowsLivePosition
<1>5. CASE view # NoView
  <2> DEFINE p == IF ShowsLivePosition(s) THEN view.position ELSE 0
  <2>1. view \in PageView
    BY <1>5 DEF TrackingInv, TrackingTypeOK
  <2>2. view' = [view EXCEPT !.status = s, !.position = p]
    BY <1>5 DEF OnStatus, s
  <2>3. p \in Nat
    BY <2>1 DEF PageView
  <2>4. view' \in PageView /\ view'.status = s /\ view'.position = p
    BY <1>2, <2>1, <2>2, <2>3 DEF PageView
  <2>5. trip' = IF ShowsLivePosition(view.status) THEN trip ELSE fixes + 1
    BY <1>5 DEF OnStatus
  <2>6. TrackingTypeOK'
    BY <1>1, <1>2, <2>4, <2>5 DEF TrackingInv, TrackingTypeOK
  <2>7. OfTheTrip(view)' /\ trip' <= fixes + 1
    BY <1>1, <2>1, <2>4, <2>5 DEF TrackingInv, TrackingTypeOK, OfTheTrip, ShowsLivePosition
  <2>8. view'.position # 0 => view'.position >= trip'
    BY <2>1, <2>4, <2>5 DEF TrackingInv, OfTheTrip
  <2>9. LedTo(view.status)' = delivery
    BY <1>2, <2>4 DEF LedTo
  <2>10. lookedUp = <<>> /\ ~loading
    BY <1>5 DEF TrackingInv
  <2> QED BY <1>1, <1>3, <2>6, <2>7, <2>8, <2>9, <2>10 DEF TrackingInv
<1> QED BY <1>4, <1>5

LEMMA LookupStep == ASSUME TrackingInv, Lookup PROVE TrackingInv'
<1> DEFINE v == [status |-> delivery, arriving |-> FALSE,
                 position |-> IF ShowsLivePosition(delivery) THEN fixes ELSE 0]
<1>1. /\ lookedUp' = <<v>> /\ loading /\ missed' = FALSE
      /\ UNCHANGED <<serviceVars, view, loading, error, trip>>
  BY DEF Lookup
<1>2. v \in PageView /\ v.status = delivery /\ OfTheTrip(v)
  BY DEF TrackingInv, TrackingTypeOK, PageView, OfTheTrip
<1> HIDE DEF v
<1>3. TrackingTypeOK'
  BY <1>1, <1>2 DEF TrackingInv, TrackingTypeOK, serviceVars
<1>4. OfTheTrip(lookedUp[1])' /\ LedTo(lookedUp[1].status)' = delivery
  BY <1>1, <1>2 DEF TrackingInv, OfTheTrip, LedTo, serviceVars
<1> QED BY <1>1, <1>3, <1>4 DEF TrackingInv, OfTheTrip, LedTo, serviceVars

LEMMA LinkAnsweredStep ==
  ASSUME TrackingInv, NEW ok \in BOOLEAN, LinkAnswered(ok)
  PROVE  TrackingInv'
<1>1. loading' = FALSE /\ lookedUp' = <<>> /\ UNCHANGED <<serviceVars, missed>>
  BY DEF LinkAnswered
<1>2. CASE ~ok
  <2>1. UNCHANGED <<view, trip>>
    BY <1>2 DEF LinkAnswered
  <2> QED BY <1>1, <2>1 DEF TrackingInv, TrackingTypeOK, OfTheTrip, LedTo, serviceVars
<1>3. CASE ok
  <2>1. lookedUp # <<>> /\ view' = lookedUp[1] /\ trip' = lookedUp[1].position
    BY <1>3 DEF LinkAnswered
  <2>2. PICK v \in PageView : lookedUp = <<v>>
    BY <2>1 DEF TrackingInv, TrackingTypeOK
  <2>3. view' = v /\ trip' = v.position /\ v.position \in Nat /\ OfTheTrip(v)
        /\ (~missed => LedTo(v.status) = delivery)
    BY <2>1, <2>2 DEF TrackingInv, PageView
  <2>4. TrackingTypeOK'
    BY <1>1, <2>3 DEF TrackingInv, TrackingTypeOK, serviceVars
  <2>5. v.position <= fixes + 1
    BY <2>3 DEF OfTheTrip, TrackingInv, TrackingTypeOK
  <2> QED BY <1>1, <2>3, <2>4, <2>5 DEF TrackingInv, OfTheTrip, LedTo, serviceVars
<1> QED BY <1>2, <1>3

LEMMA OnPositionStep == ASSUME TrackingInv, OnPosition PROVE TrackingInv'
<1>1. /\ fixes' = fixes + 1 /\ fixes \in Nat
      /\ UNCHANGED <<delivery, streamed, loading, error, lookedUp, trip, missed>>
  BY DEF OnPosition, TrackingInv, TrackingTypeOK
<1>2. lookedUp # <<>> => OfTheTrip(lookedUp[1])'
  <2> SUFFICES ASSUME lookedUp # <<>> PROVE OfTheTrip(lookedUp[1])'
    OBVIOUS
  <2>1. PICK v \in PageView : lookedUp = <<v>>
    BY DEF TrackingInv, TrackingTypeOK
  <2>2. OfTheTrip(v) /\ v.position \in Nat
    BY <2>1 DEF TrackingInv, PageView
  <2> QED BY <1>1, <2>1, <2>2 DEF OfTheTrip
<1>3. CASE view # NoView /\ ShowsLivePosition(view.status)
  <2>1. view \in PageView /\ view' = [view EXCEPT !.position = fixes + 1]
    BY <1>1, <1>3 DEF OnPosition, TrackingInv, TrackingTypeOK
  <2>2. view' \in PageView /\ view'.position = fixes + 1 /\ view'.status = view.status
    BY <1>1, <2>1 DEF PageView
  <2>3. TrackingTypeOK'
    BY <1>1, <2>2 DEF TrackingInv, TrackingTypeOK
  <2>4. OfTheTrip(view)' /\ trip' <= fixes' + 1 /\ view'.position >= trip'
    BY <1>1, <1>3, <2>2 DEF TrackingInv, TrackingTypeOK, OfTheTrip, ShowsLivePosition
  <2> QED BY <1>1, <1>2, <1>3, <2>2, <2>3, <2>4 DEF TrackingInv, LedTo
<1>4. CASE ~(view # NoView /\ ShowsLivePosition(view.status))
  <2>1. view' = view
    BY <1>4 DEF OnPosition
  <2>2. TrackingTypeOK'
    BY <1>1, <2>1 DEF TrackingInv, TrackingTypeOK
  <2>3. view.position = 0
    BY <1>4 DEF TrackingInv, OfTheTrip, NoView
  <2>4. OfTheTrip(view)' /\ trip' <= fixes' + 1
    BY <1>1, <2>1, <2>2, <2>3 DEF TrackingInv, TrackingTypeOK, OfTheTrip
  <2> QED BY <1>1, <1>2, <2>1, <2>2, <2>3, <2>4 DEF TrackingInv, LedTo
<1> QED BY <1>3, <1>4

LEMMA OnArrivingStep == ASSUME TrackingInv, OnArriving PROVE TrackingInv'
<1>1. UNCHANGED <<serviceVars, loading, error, lookedUp, trip, missed>>
  BY DEF OnArriving
<1>2. CASE view = NoView
  <2>1. view' = view
    BY <1>2 DEF OnArriving
  <2> QED BY <1>1, <2>1 DEF TrackingInv, TrackingTypeOK, OfTheTrip, LedTo, serviceVars
<1>3. CASE view # NoView
  <2>1. view \in PageView /\ view' = [view EXCEPT !.arriving = TRUE]
    BY <1>3 DEF OnArriving, TrackingInv, TrackingTypeOK
  <2>2. view' \in PageView /\ view'.position = view.position /\ view'.status = view.status
    BY <2>1 DEF PageView
  <2>3. TrackingTypeOK'
    BY <1>1, <2>2 DEF TrackingInv, TrackingTypeOK, serviceVars
  <2> QED BY <1>1, <1>3, <2>2, <2>3 DEF TrackingInv, OfTheTrip, LedTo, serviceVars
<1> QED BY <1>2, <1>3

LEMMA TrackingInvStep == TrackingInv /\ [TrackingNext]_trackingVars => TrackingInv'
<1> SUFFICES ASSUME TrackingInv, [TrackingNext]_trackingVars PROVE TrackingInv'
  OBVIOUS
<1>1. CASE UNCHANGED trackingVars
  BY <1>1 DEF trackingVars, TrackingInv, TrackingTypeOK, OfTheTrip, LedTo
<1>2. ASSUME NEW next \in UNION {Next1[s] : s \in DOMAIN Next1}, Transition(next)
      PROVE  TrackingInv'
  <2>1. next \in DeliveryStatus
    BY DEF Next1, DeliveryStatus
  <2> QED BY <1>2, <2>1, TransitionStep
<1>3. CASE ResolveLink
  BY <1>3 DEF ResolveLink, serviceVars, TrackingInv, TrackingTypeOK, OfTheTrip, LedTo
<1> QED BY <1>1, <1>2, <1>3, LookupStep, OnStatusStep, OnPositionStep, OnArrivingStep,
           LinkAnsweredStep DEF TrackingNext

\* Unless a change came between the lookup and the view it leads to: what is
\* streamed brings the page to the status of the delivery, and it shows the
\* vehicle only while the delivery is on its trip or the change that ends the
\* trip is on its way.  The page's own status is always one that shows it.
THEOREM TrackingCorrect == TrackingSpec => []TrackingSafe
<1>1. TrackingInv => TrackingSafe
  <2> SUFFICES ASSUME TrackingInv PROVE TrackingSafe
    OBVIOUS
  <2>1. PageFollowsDelivery
    BY DEF TrackingInv, PageFollowsDelivery, Ahead, LedTo
  <2>2. view.position # 0 => /\ view # NoView
                             /\ ShowsLivePosition(view.status) /\ view.position >= trip
    BY DEF TrackingInv, OfTheTrip, NoView
  <2>3. ASSUME view.position # 0, ~missed PROVE OnTripOrEnding
    <3>1. Ahead = delivery
      BY <2>1, <2>2, <2>3 DEF PageFollowsDelivery
    <3>2. streamed = <<>> => ShowsLivePosition(delivery)
      BY <2>2, <2>3, <3>1 DEF Ahead
    <3> QED BY <3>1, <3>2 DEF OnTripOrEnding
  <2> QED BY <2>1, <2>2, <2>3 DEF TrackingSafe, PositionOnlyOnTheTrip
<1>2. TrackingSpec => []TrackingInv
  BY TrackingInvInit, TrackingInvStep, PTL DEF TrackingSpec
<1> QED BY <1>1, <1>2, PTL

-----------------------------------------------------------------------------
(***************************************************************************)
(* The driver's phone, for any sizes.  First sequences of distinct pings:  *)
(* what the operations of the queue do to the pings in them.               *)
(***************************************************************************)

Ascending(s) == \A i, j \in DOMAIN s : i < j => s[i] < s[j]

LEMMA AppendDistinct ==
  ASSUME NEW s \in Seq(Nat), IsInjective(s), NEW x \in Nat, x \notin ToSet(s)
  PROVE  /\ Append(s, x) \in Seq(Nat) /\ IsInjective(Append(s, x))
         /\ ToSet(Append(s, x)) = ToSet(s) \cup {x}
<1> DEFINE t == Append(s, x)
           n == Len(s)
<1>1. /\ n \in Nat /\ DOMAIN s = 1..n /\ t \in Seq(Nat) /\ DOMAIN t = 1..n + 1
      /\ \A i \in 1..n : t[i] = s[i]
      /\ t[n + 1] = x
  BY AppendProperties, LenProperties
<1> HIDE DEF t, n
<1>2. 1..n + 1 = (1..n) \cup {n + 1} /\ n + 1 \notin 1..n
  BY <1>1
<1>3. ToSet(t) = ToSet(s) \cup {x}
  BY <1>1, <1>2 DEF ToSet
<1>4. \A i \in 1..n : s[i] # x
  BY <1>1 DEF ToSet
<1>5. IsInjective(t)
  BY <1>1, <1>2, <1>4 DEF IsInjective
<1> QED BY <1>1, <1>3, <1>5 DEF t

LEMMA TailDistinct ==
  ASSUME NEW s \in Seq(Nat), IsInjective(s), s # <<>>
  PROVE  /\ Head(s) \in Nat /\ Tail(s) \in Seq(Nat) /\ IsInjective(Tail(s))
         /\ Head(s) \notin ToSet(Tail(s)) /\ ToSet(s) = {Head(s)} \cup ToSet(Tail(s))
         /\ Ascending(s) => Ascending(Tail(s))
<1> DEFINE t == Tail(s)
           n == Len(s)
<1>1. /\ n \in Nat /\ n # 0 /\ DOMAIN s = 1..n /\ t \in Seq(Nat) /\ DOMAIN t = 1..n - 1
      /\ Head(s) = s[1] /\ Head(s) \in Nat
      /\ \A i \in 1..n - 1 : t[i] = s[i + 1]
  BY HeadTailProperties, LenProperties, EmptySeq
<1> HIDE DEF t, n
<1>2. \A i \in 1..n : i = 1 \/ i - 1 \in 1..n - 1
  BY <1>1
<1>3. 1 \in 1..n /\ \A i \in 1..n - 1 : i + 1 \in 1..n /\ i + 1 # 1
  BY <1>1
<1>4. IsInjective(t)
  <2> SUFFICES ASSUME NEW i \in 1..n - 1, NEW j \in 1..n - 1, t[i] = t[j] PROVE i = j
    BY <1>1 DEF IsInjective
  <2>1. s[i + 1] = s[j + 1] /\ i + 1 \in 1..n /\ j + 1 \in 1..n
    BY <1>1, <1>3
  <2>2. i + 1 = j + 1
    BY <1>1, <2>1 DEF IsInjective
  <2> QED BY <2>2
<1>5. Head(s) \notin ToSet(t)
  <2> SUFFICES ASSUME NEW i \in 1..n - 1, t[i] = s[1] PROVE FALSE
    BY <1>1 DEF ToSet
  <2> QED BY <1>1, <1>3 DEF IsInjective
<1>6. ToSet(s) = {Head(s)} \cup ToSet(t)
  <2>1. ASSUME NEW x \in ToSet(s) PROVE x \in {Head(s)} \cup ToSet(t)
    <3>1. PICK i \in 1..n : s[i] = x
      BY <1>1 DEF ToSet
    <3>2. CASE i = 1
      BY <1>1, <3>1, <3>2
    <3>3. CASE i - 1 \in 1..n - 1
      <4>1. t[i - 1] = x
        BY <1>1, <3>1, <3>3
      <4> QED BY <1>1, <3>3, <4>1 DEF ToSet
    <3> QED BY <1>2, <3>2, <3>3
  <2>2. ASSUME NEW x \in ToSet(t) PROVE x \in ToSet(s)
    <3>1. PICK i \in 1..n - 1 : t[i] = x
      BY <1>1, <2>2 DEF ToSet
    <3>2. i + 1 \in 1..n /\ s[i + 1] = x
      BY <1>1, <1>3, <3>1
    <3> QED BY <1>1, <3>2 DEF ToSet
  <2>3. Head(s) \in ToSet(s)
    BY <1>1, <1>3 DEF ToSet
  <2> QED BY <2>1, <2>2, <2>3
<1>7. Ascending(s) => Ascending(t)
  <2> SUFFICES ASSUME Ascending(s), NEW i \in 1..n - 1, NEW j \in 1..n - 1, i < j
               PROVE  t[i] < t[j]
    BY <1>1 DEF Ascending
  <2>1. i + 1 \in 1..n /\ j + 1 \in 1..n /\ i + 1 < j + 1
    BY <1>3
  <2> QED BY <1>1, <2>1 DEF Ascending
<1> QED BY <1>1, <1>4, <1>5, <1>6, <1>7 DEF t

LEMMA ConcatDistinct ==
  ASSUME NEW s \in Seq(Nat), IsInjective(s), NEW t \in Seq(Nat), IsInjective(t),
         ToSet(s) \cap ToSet(t) = {}
  PROVE  /\ s \o t \in Seq(Nat) /\ IsInjective(s \o t) /\ ToSet(s \o t) = ToSet(s) \cup ToSet(t)
<1> DEFINE u == s \o t
           n == Len(s)
           m == Len(t)
<1>1. /\ n \in Nat /\ m \in Nat /\ DOMAIN s = 1..n /\ DOMAIN t = 1..m
      /\ u \in Seq(Nat) /\ DOMAIN u = 1..n + m
      /\ \A i \in 1..n + m : u[i] = IF i <= n THEN s[i] ELSE t[i - n]
  BY ConcatProperties, LenProperties
<1> HIDE DEF u, n, m
<1>2. \A i \in 1..n + m : (i <= n /\ i \in 1..n) \/ (~(i <= n) /\ i - n \in 1..m)
  BY <1>1
<1>3. /\ \A i \in 1..n : i \in 1..n + m /\ u[i] = s[i]
      /\ \A i \in 1..m : i + n \in 1..n + m /\ u[i + n] = t[i]
  BY <1>1
<1>4. ToSet(u) = ToSet(s) \cup ToSet(t)
  <2>1. ASSUME NEW x \in ToSet(u) PROVE x \in ToSet(s) \cup ToSet(t)
    <3>1. PICK i \in 1..n + m : u[i] = x
      BY <1>1 DEF ToSet
    <3> QED BY <1>1, <1>2, <3>1 DEF ToSet
  <2>2. ASSUME NEW x \in ToSet(s) PROVE x \in ToSet(u)
    BY <1>1, <1>3 DEF ToSet
  <2>3. ASSUME NEW x \in ToSet(t) PROVE x \in ToSet(u)
    <3>1. PICK i \in 1..m : t[i] = x
      BY <1>1 DEF ToSet
    <3>2. i + n \in 1..n + m /\ u[i + n] = x
      BY <1>3, <3>1
    <3> QED BY <1>1, <3>2 DEF ToSet
  <2> QED BY <2>1, <2>2, <2>3
<1>5. IsInjective(u)
  <2> SUFFICES ASSUME NEW i \in 1..n + m, NEW j \in 1..n + m, u[i] = u[j] PROVE i = j
    BY <1>1 DEF IsInjective
  <2>1. CASE i <= n /\ j <= n
    BY <1>1, <1>2, <2>1 DEF IsInjective
  <2>2. CASE ~(i <= n) /\ ~(j <= n)
    <3>1. t[i - n] = t[j - n] /\ i - n \in 1..m /\ j - n \in 1..m
      BY <1>1, <1>2, <2>2
    <3>2. i - n = j - n
      BY <1>1, <3>1 DEF IsInjective
    <3> QED BY <1>1, <3>2
  <2>3. CASE i <= n /\ ~(j <= n)
    <3>1. s[i] \in ToSet(s) /\ t[j - n] \in ToSet(t) /\ s[i] = t[j - n]
      BY <1>1, <1>2, <2>3 DEF ToSet
    <3> QED BY <3>1
  <2>4. CASE ~(i <= n) /\ j <= n
    <3>1. s[j] \in ToSet(s) /\ t[i - n] \in ToSet(t) /\ s[j] = t[i - n]
      BY <1>1, <1>2, <2>4 DEF ToSet
    <3> QED BY <3>1
  <2> QED BY <2>1, <2>2, <2>3, <2>4
<1> QED BY <1>1, <1>4, <1>5 DEF u

\* Buffered pings are kept or dropped, the first of them first.
LEMMA EnqueueKeepsOrDrops ==
  ASSUME NEW q \in Seq(Nat), IsInjective(q), NEW pings \in Seq(Nat), IsInjective(pings),
         ToSet(q) \cap ToSet(pings) = {}
  PROVE  LET e == Enqueue(q, pings)
         IN  /\ e.queue \in Seq(Nat) /\ IsInjective(e.queue) /\ Len(e.queue) <= QueueSize
             /\ e.dropped \cup ToSet(e.queue) = ToSet(q) \cup ToSet(pings)
             /\ e.dropped \cap ToSet(e.queue) = {}
             /\ Ascending(q \o pings) =>
                  Ascending(e.queue) /\ \A p \in e.dropped, i \in DOMAIN e.queue : p < e.queue[i]
<1> DEFINE all  == q \o pings
           n    == Len(all)
           over == IF n > QueueSize THEN n - QueueSize ELSE 0
           kept == SubSeq(all, over + 1, n)
           lost == SubSeq(all, 1, over)
<1>1. /\ all \in Seq(Nat) /\ IsInjective(all) /\ ToSet(all) = ToSet(q) \cup ToSet(pings)
      /\ n \in Nat /\ DOMAIN all = 1..n /\ \A i \in 1..n : all[i] \in Nat
  BY ConcatDistinct, LenProperties
<1> HIDE DEF all, n
<1>2. over \in 0..n /\ n - over <= QueueSize
  BY <1>1, DriverAppAssumption
<1>3. Enqueue(q, pings) = [queue |-> kept, dropped |-> ToSet(lost)]
  BY DEF Enqueue, all, n
<1> HIDE DEF over
<1>4. /\ kept \in Seq(Nat) /\ Len(kept) = n - over /\ DOMAIN kept = 1..n - over
      /\ \A i \in 1..n - over : kept[i] = all[over + i]
  <2>1. over + 1 \in Int /\ n \in Int /\ \A i \in over + 1..n : all[i] \in Nat
    BY <1>1, <1>2
  <2>2. /\ kept \in Seq(Nat) /\ Len(kept) = IF over + 1 <= n THEN n - (over + 1) + 1 ELSE 0
        /\ \A i \in 1..n - (over + 1) + 1 : kept[i] = all[over + 1 + i - 1]
    BY <2>1, SubSeqProperties
  <2>3. n - (over + 1) + 1 = n - over /\ (~(over + 1 <= n) => n - over = 0)
    BY <1>1, <1>2
  <2>4. \A i \in 1..n - over : over + 1 + i - 1 = over + i
    BY <1>1, <1>2
  <2>5. Len(kept) = n - over /\ \A i \in 1..n - over : kept[i] = all[over + i]
    BY <2>2, <2>3, <2>4
  <2> QED BY <2>2, <2>5, LenProperties
<1>5. /\ lost \in Seq(Nat) /\ DOMAIN lost = 1..over /\ \A i \in 1..over : lost[i] = all[i]
  <2>1. 1 \in Int /\ over \in Int /\ \A i \in 1..over : all[i] \in Nat
    BY <1>1, <1>2
  <2>2. /\ lost \in Seq(Nat) /\ Len(lost) = IF 1 <= over THEN over - 1 + 1 ELSE 0
        /\ \A i \in 1..over - 1 + 1 : lost[i] = all[1 + i - 1]
    BY <2>1, SubSeqProperties
  <2>3. over - 1 + 1 = over /\ (~(1 <= over) => over = 0) /\ \A i \in 1..over : 1 + i - 1 = i
    BY <1>1, <1>2
  <2>4. Len(lost) = over /\ \A i \in 1..over : lost[i] = all[i]
    BY <2>2, <2>3
  <2> QED BY <2>2, <2>4, LenProperties
<1> HIDE DEF kept, lost
<1>6. /\ \A i \in 1..n - over : over + i \in 1..n
      /\ \A i \in 1..over : i \in 1..n
      /\ \A i \in 1..n : i \in 1..over \/ i - over \in 1..n - over
  BY <1>1, <1>2
<1>7. IsInjective(kept)
  <2> SUFFICES ASSUME NEW i \in 1..n - over, NEW j \in 1..n - over, kept[i] = kept[j]
               PROVE  i = j
    BY <1>4 DEF IsInjective
  <2>1. over + i = over + j
    BY <1>1, <1>4, <1>6 DEF IsInjective
  <2> QED BY <1>2, <2>1
<1>8. ToSet(lost) \cup ToSet(kept) = ToSet(all)
  <2>1. ASSUME NEW x \in ToSet(all) PROVE x \in ToSet(lost) \cup ToSet(kept)
    <3>1. PICK i \in 1..n : all[i] = x
      BY <1>1 DEF ToSet
    <3>2. CASE i \in 1..over
      BY <1>5, <3>1, <3>2 DEF ToSet
    <3>3. CASE i - over \in 1..n - over
      <4>1. kept[i - over] = x
        <5>1. over + (i - over) = i
          BY <1>2
        <5> QED BY <1>4, <3>1, <3>3, <5>1
      <4> QED BY <1>4, <3>3, <4>1 DEF ToSet
    <3> QED BY <1>6, <3>2, <3>3
  <2>2. ToSet(lost) \subseteq ToSet(all)
    BY <1>1, <1>5, <1>6 DEF ToSet
  <2>3. ToSet(kept) \subseteq ToSet(all)
    BY <1>1, <1>4, <1>6 DEF ToSet
  <2> QED BY <2>1, <2>2, <2>3
<1>9. ToSet(lost) \cap ToSet(kept) = {}
  <2> SUFFICES ASSUME NEW i \in 1..over, NEW j \in 1..n - over, lost[i] = kept[j] PROVE FALSE
    BY <1>4, <1>5 DEF ToSet
  <2>1. i = over + j
    BY <1>1, <1>4, <1>5, <1>6 DEF IsInjective
  <2> QED BY <1>2, <2>1
<1>10. ASSUME Ascending(all)
       PROVE  Ascending(kept) /\ \A p \in ToSet(lost), i \in DOMAIN kept : p < kept[i]
  <2>1. ASSUME NEW i \in 1..n - over, NEW j \in 1..n - over, i < j PROVE kept[i] < kept[j]
    <3>1. over + i < over + j
      BY <1>2, <2>1
    <3> QED BY <1>1, <1>4, <1>6, <1>10, <3>1 DEF Ascending
  <2>2. ASSUME NEW j \in 1..over, NEW i \in 1..n - over PROVE lost[j] < kept[i]
    <3>1. j < over + i
      BY <1>2
    <3> QED BY <1>1, <1>4, <1>5, <1>6, <1>10, <3>1 DEF Ascending
  <2>3. Ascending(kept)
    BY <1>4, <2>1 DEF Ascending
  <2> QED BY <1>4, <1>5, <2>2, <2>3 DEF ToSet
<1>11. Len(kept) <= QueueSize
  BY <1>2, <1>4
<1> QED BY <1>1, <1>3, <1>4, <1>7, <1>8, <1>9, <1>10, <1>11 DEF all

\* What is queued is sent in the order of time, all of it.
LEMMA DrainAscends ==
  ASSUME NEW q \in Seq(Nat), IsInjective(q)
  PROVE  /\ DrainInOrder(q) \in Seq(Nat) /\ IsInjective(DrainInOrder(q))
         /\ Ascending(DrainInOrder(q)) /\ ToSet(DrainInOrder(q)) = ToSet(q)
<1> DEFINE n == Len(q)
           R == {p \in (DOMAIN q) \X (DOMAIN q) :
                   q[p[1]] < q[p[2]] \/ (q[p[1]] = q[p[2]] /\ p[1] < p[2])}
           order == OrderedBy(DOMAIN q, R)
           d == [i \in DOMAIN q |-> q[order[i]]]
<1>1. n \in Nat /\ DOMAIN q = 1..n /\ q \in [1..n -> Nat]
  BY LenProperties
<1>2. d = DrainInOrder(q)
  BY DEF DrainInOrder
<1> HIDE DEF n
<1>3. IsFiniteSet(1..n) /\ Cardinality(1..n) = n
  BY <1>1, FS_Interval
<1>4. \A i, j \in 1..n : <<i, j>> \in R <=> q[i] < q[j]
  <2> SUFFICES ASSUME NEW i \in 1..n, NEW j \in 1..n PROVE <<i, j>> \in R <=> q[i] < q[j]
    OBVIOUS
  <2>1. <<i, j>> \in R <=> q[i] < q[j] \/ (q[i] = q[j] /\ i < j)
    BY <1>1
  <2>2. q[i] = q[j] => i = j
    BY <1>1 DEF IsInjective
  <2>3. i = j => ~(i < j)
    OBVIOUS
  <2> HIDE DEF R
  <2> QED BY <2>1, <2>2, <2>3
<1> HIDE DEF R
<1>5. TotalOrder(1..n, R)
  <2>1. \A i \in 1..n : q[i] \in Nat
    BY <1>1
  <2>2. ASSUME NEW i \in 1..n, NEW j \in 1..n, i # j PROVE q[i] < q[j] \/ q[j] < q[i]
    <3>1. q[i] # q[j]
      BY <1>1, <2>2 DEF IsInjective
    <3> QED BY <2>1, <3>1
  <2> QED BY <1>4, <2>1, <2>2 DEF TotalOrder
<1>6. /\ order \in [1..n -> 1..n] /\ \A i, j \in 1..n : i < j => <<order[i], order[j]>> \in R
      /\ \A k \in 1..n : \E i \in 1..n : order[i] = k
  <2> DEFINE f == OrderedBy(1..n, R)
  <2>1. /\ f \in [1..Cardinality(1..n) -> 1..n]
        /\ \A i, j \in 1..Cardinality(1..n) : i < j => <<f[i], f[j]>> \in R
        /\ \A k \in 1..n : \E i \in 1..Cardinality(1..n) : f[i] = k
    BY <1>3, <1>5, OrderedByIsNumbering
  <2>2. f = order
    BY <1>1
  <2> HIDE DEF f, order
  <2> QED BY <1>3, <2>1, <2>2
<1> HIDE DEF order
<1>7. d \in [1..n -> Nat] /\ \A i \in 1..n : d[i] = q[order[i]]
  BY <1>1, <1>6
<1> HIDE DEF d
<1>8. ASSUME NEW i \in 1..n, NEW j \in 1..n, i < j PROVE d[i] < d[j]
  <2>1. <<order[i], order[j]>> \in R /\ order[i] \in 1..n /\ order[j] \in 1..n
    BY <1>6, <1>8
  <2> QED BY <1>4, <1>7, <2>1
<1>9. d \in Seq(Nat) /\ DOMAIN d = 1..n
  BY <1>1, <1>7, SeqDef
<1>10. IsInjective(d) /\ Ascending(d)
  <2>3. Ascending(d)
    BY <1>8, <1>9 DEF Ascending
  <2> SUFFICES ASSUME NEW i \in 1..n, NEW j \in 1..n, d[i] = d[j], i # j PROVE FALSE
    BY <1>9, <2>3 DEF IsInjective
  <2>1. i < j \/ j < i
    BY <1>1
  <2>2. d[i] \in Nat
    BY <1>7
  <2> QED BY <1>8, <2>1, <2>2
<1>11. ToSet(d) = ToSet(q)
  <2>1. ASSUME NEW k \in 1..n PROVE d[k] \in ToSet(q)
    BY <1>1, <1>6, <1>7 DEF ToSet
  <2>2. ASSUME NEW k \in 1..n PROVE q[k] \in ToSet(d)
    <3>1. PICK i \in 1..n : order[i] = k
      BY <1>6
    <3> QED BY <1>7, <1>9, <3>1 DEF ToSet
  <2> QED BY <1>1, <1>9, <2>1, <2>2 DEF ToSet
<1> QED BY <1>2, <1>9, <1>10, <1>11

-----------------------------------------------------------------------------
(***************************************************************************)
(* The inductive invariant of the pings.  Each is held at one place: it    *)
(* has been received or dropped, is queued, was submitted and has no       *)
(* answer, or is in a flush.  As long as no send has failed, the queue is in the order of     *)
(* time, because only the connection decides which pings go there.         *)
(***************************************************************************)

\* Every ping of all is in one of the five, in one flush at most, and no other is.
AtOnePlace(all, got, queued, aloft, lost, inFlush) ==
  \A p \in Nat :
    /\ p \in all <=> \/ p \in got \/ p \in queued \/ p \in aloft \/ p \in lost
                     \/ \E f \in Flush : p \in inFlush[f]
    /\ p \in got => p \notin queued /\ p \notin aloft /\ p \notin lost
                      /\ \A f \in Flush : p \notin inFlush[f]
    /\ p \in queued => p \notin aloft /\ p \notin lost /\ \A f \in Flush : p \notin inFlush[f]
    /\ p \in aloft => p \notin lost /\ \A f \in Flush : p \notin inFlush[f]
    /\ p \in lost => \A f \in Flush : p \notin inFlush[f]
    /\ \A f, g \in Flush : p \in inFlush[f] /\ p \in inFlush[g] => f = g

\* The sink has them, or threw.
Unanswered == sending \cup thrown

InFlush == [f \in Flush |-> ToSet(flushes[f].pending) \cup ToSet(flushes[f].failed)]

\* A list of distinct pings.
PingList(s) == s \in Seq(Nat) /\ IsInjective(s)

PingsTypeOK ==
  /\ emitted \in Nat /\ failures \in BOOLEAN
  /\ PingList(received) /\ PingList(queue) /\ sending \in SUBSET Nat /\ dropped \in SUBSET Nat
  /\ thrown \in SUBSET Nat
  /\ flushes \in [Flush -> [pending : Seq(Nat), failed : Seq(Nat)]]
FlushOK(flush) ==
  /\ PingList(flush.pending) /\ PingList(flush.failed) /\ Ascending(flush.pending)
  /\ ToSet(flush.pending) \cap ToSet(flush.failed) = {}
  /\ ~failures => flush.failed = <<>>

PingsInv ==
  /\ PingsTypeOK
  /\ \A f \in Flush : FlushOK(flushes[f])
  /\ AtOnePlace(1..emitted, ToSet(received), ToSet(queue), Unanswered, dropped, InFlush)
  /\ sending \cap thrown = {}
  /\ Len(queue) <= QueueSize
  /\ ~failures => Ascending(queue) /\ \A p \in dropped, i \in DOMAIN queue : p < queue[i]

\* Pings that move from place to place are still each at one.
LEMMA NewPing ==
  ASSUME NEW n \in Nat, NEW got, NEW queued, NEW aloft, NEW lost, NEW inFlush,
         AtOnePlace(1..n, got, queued, aloft, lost, inFlush)
  PROVE  /\ AtOnePlace(1..n + 1, got, queued, aloft \cup {n + 1}, lost, inFlush)
         /\ AtOnePlace(1..n + 1, got, queued \cup {n + 1}, aloft, lost, inFlush)
         /\ n + 1 \notin queued /\ n + 1 \notin aloft
<1>1. \A p \in Nat : p \in 1..n + 1 <=> p \in 1..n \/ p = n + 1
  OBVIOUS
<1>2. n + 1 \in Nat /\ n + 1 \notin 1..n
  OBVIOUS
<1> QED BY <1>1, <1>2 DEF AtOnePlace

LEMMA SentPing ==
  ASSUME NEW all, NEW got, NEW queued, NEW aloft, NEW lost, NEW inFlush,
         AtOnePlace(all, got, queued, aloft, lost, inFlush), NEW x \in aloft, x \in Nat
  PROVE  /\ AtOnePlace(all, got \cup {x}, queued, aloft \ {x}, lost, inFlush)
         /\ AtOnePlace(all, got, queued \cup {x}, aloft \ {x}, lost, inFlush)
         /\ x \notin got /\ x \notin queued
  BY DEF AtOnePlace

LEMMA DrainedPings ==
  ASSUME NEW all, NEW got, NEW queued, NEW aloft, NEW lost, NEW inFlush, NEW f \in Flush,
         AtOnePlace(all, got, queued, aloft, lost, inFlush), inFlush[f] = {},
         NEW after, after[f] = queued, \A g \in Flush : g # f => after[g] = inFlush[g]
  PROVE  AtOnePlace(all, got, {}, aloft, lost, after)
  BY DEF AtOnePlace

LEMMA FlushEnded ==
  ASSUME NEW all, NEW got, NEW queued, NEW aloft, NEW lost, NEW inFlush, NEW f \in Flush,
         AtOnePlace(all, got, queued, aloft, lost, inFlush), inFlush[f] \subseteq Nat,
         NEW after, after[f] = {}, \A g \in Flush : g # f => after[g] = inFlush[g]
  PROVE  /\ AtOnePlace(all, got, queued \cup inFlush[f], aloft, lost, after)
         /\ queued \cap inFlush[f] = {}
  BY DEF AtOnePlace

LEMMA KeptOrDropped ==
  ASSUME NEW all, NEW got, NEW queued, NEW aloft, NEW lost, NEW inFlush,
         AtOnePlace(all, got, queued, aloft, lost, inFlush),
         NEW kept, NEW over, over \cup kept = queued, over \cap kept = {}
  PROVE  AtOnePlace(all, got, kept, aloft, lost \cup over, inFlush)
  BY DEF AtOnePlace

\* What buffering does to the queue.
LEMMA BufferKeepsOrDrops ==
  ASSUME PingsTypeOK, NEW pings, PingList(pings), ToSet(queue) \cap ToSet(pings) = {},
         Buffer(pings)
  PROVE  /\ PingList(queue)' /\ Len(queue') <= QueueSize /\ dropped' \in SUBSET Nat
         /\ \A all, got, aloft, inFlush :
              AtOnePlace(all, got, ToSet(queue) \cup ToSet(pings), aloft, dropped, inFlush)
                => AtOnePlace(all, got, ToSet(queue)', aloft, dropped', inFlush)
         /\ Ascending(queue \o pings)
              /\ (\A p \in dropped, x \in ToSet(queue) \cup ToSet(pings) : p < x)
              => Ascending(queue)' /\ \A p \in dropped', i \in DOMAIN queue' : p < queue'[i]
<1> DEFINE e == Enqueue(queue, pings)
<1>1. queue' = e.queue /\ dropped' = dropped \cup e.dropped
  BY DEF Buffer
<1>2. /\ e.queue \in Seq(Nat) /\ IsInjective(e.queue) /\ Len(e.queue) <= QueueSize
      /\ e.dropped \cup ToSet(e.queue) = ToSet(queue) \cup ToSet(pings)
      /\ e.dropped \cap ToSet(e.queue) = {}
      /\ Ascending(queue \o pings) =>
           Ascending(e.queue) /\ \A p \in e.dropped, i \in DOMAIN e.queue : p < e.queue[i]
  BY EnqueueKeepsOrDrops DEF PingsTypeOK, PingList
<1> HIDE DEF e
<1>3. ToSet(queue) \subseteq Nat /\ ToSet(pings) \subseteq Nat
  BY LenProperties DEF PingsTypeOK, PingList, ToSet
<1>4. dropped' \in SUBSET Nat
  BY <1>1, <1>2, <1>3 DEF PingsTypeOK
<1>5. ToSet(queue)' = ToSet(e.queue)
  BY <1>1 DEF ToSet
<1>6. ASSUME NEW all, NEW got, NEW aloft, NEW inFlush,
             AtOnePlace(all, got, ToSet(queue) \cup ToSet(pings), aloft, dropped, inFlush)
      PROVE  AtOnePlace(all, got, ToSet(queue)', aloft, dropped', inFlush)
  <2>1. AtOnePlace(all, got, ToSet(e.queue), aloft, dropped \cup e.dropped, inFlush)
    BY <1>2, <1>6, KeptOrDropped
  <2> QED BY <1>1, <1>5, <2>1
<1>7. ASSUME Ascending(queue \o pings),
             \A p \in dropped, x \in ToSet(queue) \cup ToSet(pings) : p < x
      PROVE  Ascending(queue)' /\ \A p \in dropped', i \in DOMAIN queue' : p < queue'[i]
  <2>1. \A i \in DOMAIN queue' : queue'[i] \in ToSet(queue) \cup ToSet(pings)
    BY <1>1, <1>2 DEF ToSet
  <2>2. Ascending(queue)'
    BY <1>1, <1>2, <1>7 DEF Ascending
  <2>3. \A p \in e.dropped, i \in DOMAIN queue' : p < queue'[i]
    BY <1>1, <1>2, <1>7
  <2> QED BY <1>1, <1>7, <2>1, <2>2, <2>3
<1> QED BY <1>1, <1>2, <1>4, <1>6, <1>7 DEF PingList

LEMMA PingsInvInit == AppInit => PingsInv
<1> SUFFICES ASSUME AppInit PROVE PingsInv
  OBVIOUS
<1>1. PingList(<<>>) /\ ToSet(<<>>) = {} /\ Ascending(<<>>) /\ Len(<<>>) = 0
  <2>1. <<>> \in Seq(Nat) /\ Len(<<>>) = 0 /\ DOMAIN <<>> = {}
    BY EmptySeq
  <2> QED BY <2>1 DEF PingList, IsInjective, ToSet, Ascending
<1>2. /\ emitted = 0 /\ queue = <<>> /\ received = <<>> /\ sending = {} /\ dropped = {}
      /\ thrown = {} /\ failures = FALSE /\ flushes = [f \in Flush |-> NoFlush]
  BY DEF AppInit
<1>3. NoFlush \in [pending : Seq(Nat), failed : Seq(Nat)]
  BY <1>1 DEF NoFlush, PingList
<1>4. PingsTypeOK
  BY <1>1, <1>2, <1>3 DEF PingsTypeOK
<1>5. \A f \in Flush : FlushOK(flushes[f]) /\ InFlush[f] = {}
  BY <1>1, <1>2 DEF FlushOK, InFlush, NoFlush
<1>6. AtOnePlace(1..emitted, ToSet(received), ToSet(queue), Unanswered, dropped, InFlush)
  <2>1. 1..emitted = {}
    BY <1>2
  <2> QED BY <1>1, <1>2, <1>5, <2>1 DEF AtOnePlace, Unanswered
<1> QED BY <1>1, <1>2, <1>4, <1>5, <1>6, DriverAppAssumption DEF PingsInv

LEMMA OnePing ==
  ASSUME NEW x \in Nat
  PROVE  PingList(<<x>>) /\ ToSet(<<x>>) = {x}
<1>1. <<x>> \in Seq(Nat) /\ DOMAIN <<x>> = {1} /\ <<x>>[1] = x
  OBVIOUS
<1> QED BY <1>1 DEF PingList, IsInjective, ToSet

LEMMA EmitStep == ASSUME PingsInv, EmitPing PROVE PingsInv'
<1> DEFINE x == emitted + 1
<1>1. /\ emitted \in Nat /\ x \in Nat /\ emitted' = x /\ Submit(x)
      /\ UNCHANGED <<online, flushes, received, thrown, failures>>
  BY DEF EmitPing, Submit, PingsInv, PingsTypeOK
<1>2. AtOnePlace(1..emitted, ToSet(received), ToSet(queue), Unanswered, dropped, InFlush)
  BY DEF PingsInv
<1>3. /\ AtOnePlace(1..x, ToSet(received), ToSet(queue), Unanswered \cup {x}, dropped, InFlush)
      /\ AtOnePlace(1..x, ToSet(received), ToSet(queue) \cup {x}, Unanswered, dropped, InFlush)
      /\ x \notin ToSet(queue) /\ x \notin Unanswered
  BY <1>1, <1>2, NewPing
<1>4. InFlush' = InFlush /\ ToSet(received)' = ToSet(received)
      /\ \A f \in Flush : FlushOK(flushes[f])'
  BY <1>1 DEF InFlush, PingsInv, FlushOK
<1>5. CASE online
  <2>1. sending' = sending \cup {x} /\ UNCHANGED <<queue, dropped>>
    BY <1>1, <1>5 DEF Submit
  <2>2. PingsTypeOK'
    BY <1>1, <2>1 DEF PingsInv, PingsTypeOK, PingList
  <2>3. Unanswered' = Unanswered \cup {x} /\ sending' \cap thrown' = {}
    BY <1>1, <1>3, <2>1 DEF PingsInv, Unanswered
  <2> QED BY <1>1, <1>3, <1>4, <2>1, <2>2, <2>3 DEF PingsInv, Ascending
<1>6. CASE ~online
  <2>1. Buffer(<<x>>) /\ UNCHANGED sending
    BY <1>1, <1>6 DEF Submit
  <2>2. PingList(<<x>>) /\ ToSet(<<x>>) = {x} /\ ToSet(queue) \cap {x} = {}
    BY <1>1, <1>3, OnePing
  <2>3. /\ PingList(queue)' /\ Len(queue') <= QueueSize /\ dropped' \in SUBSET Nat
        /\ AtOnePlace(1..x, ToSet(received), ToSet(queue)', Unanswered, dropped', InFlush)
        /\ Ascending(queue \o <<x>>)
             /\ (\A p \in dropped, y \in ToSet(queue) \cup {x} : p < y)
             => Ascending(queue)' /\ \A p \in dropped', i \in DOMAIN queue' : p < queue'[i]
    BY <1>3, <2>1, <2>2, BufferKeepsOrDrops DEF PingsInv
  <2>4. PingsTypeOK'
    BY <1>1, <2>1, <2>3 DEF PingsInv, PingsTypeOK, PingList
  <2>5. ASSUME ~failures
        PROVE  Ascending(queue)' /\ \A p \in dropped', i \in DOMAIN queue' : p < queue'[i]
    <3>1. Ascending(queue) /\ \A p \in dropped, i \in DOMAIN queue : p < queue[i]
      BY <2>5 DEF PingsInv
    <3>2. \A y \in ToSet(queue) \cup dropped : y \in 1..emitted
      <4>1. ToSet(queue) \subseteq Nat /\ dropped \subseteq Nat
        BY LenProperties DEF PingsInv, PingsTypeOK, PingList, ToSet
      <4> QED BY <1>2, <4>1 DEF AtOnePlace
    <3>3. \A p \in dropped, y \in ToSet(queue) \cup {x} : p < y
      BY <1>1, <3>1, <3>2 DEF ToSet
    <3>4. Ascending(queue \o <<x>>)
      <4> DEFINE t == queue \o <<x>>
                 n == Len(queue)
      <4>1. /\ n \in Nat /\ DOMAIN queue = 1..n /\ Len(<<x>>) = 1 /\ <<x>> \in Seq(Nat)
            /\ queue \in Seq(Nat) /\ <<x>>[1] = x
        BY <1>1, LenProperties DEF PingsInv, PingsTypeOK, PingList
      <4>2. /\ Len(t) = n + 1 /\ t \in Seq(Nat)
            /\ \A i \in 1..n + 1 : t[i] = IF i <= n THEN queue[i] ELSE <<x>>[i - n]
        BY <4>1, ConcatProperties
      <4>3. DOMAIN t = 1..n + 1
        BY <4>2, LenProperties
      <4> HIDE DEF t, n
      <4>4. \A i \in 1..n : queue[i] < x
        <5>1. \A i \in 1..n : queue[i] \in 1..emitted
          BY <3>2, <4>1 DEF ToSet
        <5> QED BY <1>1, <5>1
      <4>5. \A i \in 1..n : t[i] = queue[i]
        BY <4>1, <4>2
      <4>6. t[n + 1] = x
        BY <4>1, <4>2
      <4>7. ASSUME NEW i \in 1..n + 1, NEW j \in 1..n + 1, i < j PROVE t[i] < t[j]
        <5>1. i \in 1..n /\ (j \in 1..n \/ j = n + 1)
          BY <4>1, <4>7
        <5> QED BY <3>1, <4>1, <4>4, <4>5, <4>6, <4>7, <5>1 DEF Ascending
      <4>8. Ascending(t)
        BY <4>3, <4>7 DEF Ascending
      <4> QED BY <4>8 DEF t
    <3> QED BY <2>3, <3>3, <3>4
  <2>6. Unanswered' = Unanswered /\ sending' \cap thrown' = {}
    BY <1>1, <2>1 DEF PingsInv, Unanswered
  <2> QED BY <1>1, <1>4, <2>1, <2>3, <2>4, <2>5, <2>6 DEF PingsInv
<1> QED BY <1>5, <1>6

LEMMA SendEndsStep == ASSUME PingsInv, NEW x \in sending, SendEnds(x) PROVE PingsInv'
<1>1. /\ sending' = sending \ {x} /\ UNCHANGED <<emitted, flushes>> /\ x \in Nat
      /\ \/ received' = Append(received, x) /\ UNCHANGED <<queue, dropped, thrown, failures>>
         \/ Buffer(<<x>>) /\ failures' = TRUE /\ UNCHANGED <<received, thrown>>
         \/ thrown' = thrown \cup {x} /\ UNCHANGED <<received, queue, dropped, failures>>
  BY DEF SendEnds, PingsInv, PingsTypeOK
<1>2. /\ AtOnePlace(1..emitted, ToSet(received) \cup {x}, ToSet(queue), Unanswered \ {x}, dropped,
                    InFlush)
      /\ AtOnePlace(1..emitted, ToSet(received), ToSet(queue) \cup {x}, Unanswered \ {x}, dropped,
                    InFlush)
      /\ x \notin ToSet(received) /\ x \notin ToSet(queue)
  <2>1. x \in Unanswered
    BY DEF Unanswered
  <2>2. AtOnePlace(1..emitted, ToSet(received), ToSet(queue), Unanswered, dropped, InFlush)
    BY DEF PingsInv
  <2>3. x \in Nat
    BY <1>1
  <2> HIDE DEF InFlush
  <2> QED BY ONLY <2>1, <2>2, <2>3, SentPing, Zenon
<1>3. InFlush' = InFlush
  BY <1>1 DEF InFlush
<1>6. thrown' = thrown => Unanswered' = Unanswered \ {x} /\ sending' \cap thrown' = {}
  BY <1>1 DEF PingsInv, Unanswered
<1>4. CASE received' = Append(received, x) /\ UNCHANGED <<queue, dropped, thrown, failures>>
  <2>1. PingList(received)' /\ ToSet(received)' = ToSet(received) \cup {x}
    <3>1. /\ Append(received, x) \in Seq(Nat) /\ IsInjective(Append(received, x))
          /\ ToSet(Append(received, x)) = ToSet(received) \cup {x}
      BY <1>1, <1>2, AppendDistinct DEF PingsInv, PingsTypeOK, PingList
    <3> QED BY <1>4, <3>1 DEF PingList
  <2>2. PingsTypeOK'
    BY <1>1, <1>4, <2>1 DEF PingsInv, PingsTypeOK, PingList
  <2>3. \A f \in Flush : FlushOK(flushes[f])'
    BY <1>1, <1>4 DEF PingsInv, FlushOK
  <2> QED BY <1>1, <1>2, <1>3, <1>4, <1>6, <2>1, <2>2, <2>3 DEF PingsInv, Ascending
<1>5. CASE Buffer(<<x>>) /\ failures' = TRUE /\ UNCHANGED <<received, thrown>>
  <2>1. PingList(<<x>>) /\ ToSet(<<x>>) = {x} /\ ToSet(queue) \cap {x} = {}
    BY <1>1, <1>2, OnePing
  <2>2. /\ PingList(queue)' /\ Len(queue') <= QueueSize /\ dropped' \in SUBSET Nat
        /\ AtOnePlace(1..emitted, ToSet(received), ToSet(queue)', Unanswered \ {x}, dropped',
                      InFlush)
    BY <1>2, <1>5, <2>1, BufferKeepsOrDrops DEF PingsInv
  <2>3. PingsTypeOK'
    BY <1>1, <1>5, <2>2 DEF PingsInv, PingsTypeOK, PingList
  <2>4. \A f \in Flush : FlushOK(flushes[f])'
    BY <1>1, <1>5 DEF PingsInv, FlushOK
  <2> QED BY <1>1, <1>3, <1>5, <1>6, <2>2, <2>3, <2>4 DEF PingsInv
<1>7. CASE thrown' = thrown \cup {x} /\ UNCHANGED <<received, queue, dropped, failures>>
  <2>1. Unanswered' = Unanswered /\ sending' \cap thrown' = {}
    BY <1>1, <1>7 DEF PingsInv, Unanswered
  <2>2. PingsTypeOK'
    BY <1>1, <1>7 DEF PingsInv, PingsTypeOK, PingList
  <2>3. \A f \in Flush : FlushOK(flushes[f])'
    BY <1>1, <1>7 DEF PingsInv, FlushOK
  <2> QED BY <1>1, <1>3, <1>7, <2>1, <2>2, <2>3 DEF PingsInv, Ascending
<1> QED BY <1>1, <1>4, <1>5, <1>7

LEMMA SetOnlineStep == ASSUME PingsInv, NEW on \in BOOLEAN, SetOnline(on) PROVE PingsInv'
<1>1. UNCHANGED <<emitted, sending, received, dropped, thrown, failures>>
  BY DEF SetOnline
<1>2. CASE UNCHANGED <<flushes, queue>>
  BY <1>1, <1>2 DEF PingsInv, PingsTypeOK, PingList, FlushOK, InFlush, Ascending, Unanswered
<1>3. ASSUME NEW f \in Flush, flushes[f] = NoFlush, queue' = <<>>,
             flushes' = [flushes EXCEPT ![f].pending = DrainInOrder(queue)]
      PROVE  PingsInv'
  <2> DEFINE d == DrainInOrder(queue)
  <2>1. d \in Seq(Nat) /\ IsInjective(d) /\ Ascending(d) /\ ToSet(d) = ToSet(queue)
    BY DrainAscends DEF PingsInv, PingsTypeOK, PingList
  <2> HIDE DEF d
  <2>2. flushes' = [flushes EXCEPT ![f] = [pending |-> d, failed |-> <<>>]]
    <3>1. [flushes[f] EXCEPT !.pending = d] = [pending |-> d, failed |-> <<>>]
      BY <1>3 DEF NoFlush
    <3>2. flushes' = [flushes EXCEPT ![f] = [flushes[f] EXCEPT !.pending = d]]
      BY <1>3 DEF d
    <3> QED BY <3>1, <3>2
  <2>3. <<>> \in Seq(Nat) /\ PingList(<<>>) /\ ToSet(<<>>) = {} /\ Len(<<>>) = 0
        /\ Ascending(<<>>) /\ DOMAIN <<>> = {}
    <3>1. <<>> \in Seq(Nat) /\ Len(<<>>) = 0 /\ DOMAIN <<>> = {}
      BY EmptySeq
    <3> QED BY <3>1 DEF PingList, IsInjective, ToSet, Ascending
  <2>4. [pending |-> d, failed |-> <<>>] \in [pending : Seq(Nat), failed : Seq(Nat)]
    BY <2>1, <2>3
  <2>5. /\ flushes' \in [Flush -> [pending : Seq(Nat), failed : Seq(Nat)]]
        /\ flushes'[f] = [pending |-> d, failed |-> <<>>]
        /\ \A g \in Flush : g # f => flushes'[g] = flushes[g]
    BY <2>2, <2>4 DEF PingsInv, PingsTypeOK
  <2>6. PingsTypeOK'
    BY <1>1, <1>3, <2>3, <2>5 DEF PingsInv, PingsTypeOK, PingList
  <2>7. \A g \in Flush : FlushOK(flushes'[g])
    <3>1. FlushOK([pending |-> d, failed |-> <<>>])
      BY <2>1, <2>3 DEF FlushOK, PingList
    <3> QED BY <2>5, <3>1 DEF PingsInv
  <2>8. \A g \in Flush : FlushOK(flushes[g])'
    BY <1>1, <2>7 DEF FlushOK
  <2>9. /\ InFlush[f] = {} /\ InFlush'[f] = ToSet(queue)
        /\ \A g \in Flush : g # f => InFlush'[g] = InFlush[g]
    BY <1>3, <2>1, <2>3, <2>5 DEF InFlush, NoFlush
  <2>10. AtOnePlace(1..emitted, ToSet(received), {}, Unanswered, dropped, InFlush')
    <3> HIDE DEF InFlush
    <3> QED BY <2>9, DrainedPings DEF PingsInv
  <2>11. ToSet(queue)' = {} /\ Len(queue') <= QueueSize /\ Ascending(queue)'
    BY <1>3, <2>3, DriverAppAssumption
  <2>12. AtOnePlace(1..emitted, ToSet(received), ToSet(queue), Unanswered, dropped, InFlush)'
    <3>1. Unanswered' = Unanswered
      BY <1>1 DEF Unanswered
    <3> QED BY <1>1, <2>10, <2>11, <3>1
  <2>13. \A i \in DOMAIN queue' : FALSE
    BY <1>3, <2>3
  <2> QED BY <1>1, <2>6, <2>8, <2>11, <2>12, <2>13 DEF PingsInv
<1> QED BY <1>2, <1>3 DEF SetOnline

\* Removing the pings of a flush leaves no trace of it.
LEMMA FlushCleared ==
  ASSUME PingsInv, NEW f \in Flush, flushes' = [flushes EXCEPT ![f] = NoFlush],
         failures' = failures
  PROVE  /\ flushes' \in [Flush -> [pending : Seq(Nat), failed : Seq(Nat)]]
         /\ InFlush'[f] = {} /\ \A g \in Flush : g # f => InFlush'[g] = InFlush[g]
         /\ \A g \in Flush : FlushOK(flushes[g])'
<1>1. <<>> \in Seq(Nat) /\ PingList(<<>>) /\ ToSet(<<>>) = {} /\ Ascending(<<>>)
  <2>1. <<>> \in Seq(Nat) /\ DOMAIN <<>> = {}
    BY EmptySeq
  <2> QED BY <2>1 DEF PingList, IsInjective, ToSet, Ascending
<1>2. /\ flushes' \in [Flush -> [pending : Seq(Nat), failed : Seq(Nat)]]
      /\ flushes'[f] = NoFlush
      /\ \A g \in Flush : g # f => flushes'[g] = flushes[g]
  BY <1>1 DEF PingsInv, PingsTypeOK, NoFlush
<1>3. InFlush'[f] = {} /\ \A g \in Flush : g # f => InFlush'[g] = InFlush[g]
  BY <1>1, <1>2 DEF InFlush, NoFlush
<1>4. FlushOK(flushes[f])'
  BY <1>1, <1>2 DEF FlushOK, NoFlush, PingList
<1>5. ASSUME NEW g \in Flush, g # f PROVE FlushOK(flushes[g])'
  <2>1. FlushOK(flushes[g]) /\ flushes'[g] = flushes[g]
    BY <1>2, <1>5 DEF PingsInv
  <2> QED BY <2>1 DEF FlushOK, PingList
<1> QED BY <1>2, <1>3, <1>4, <1>5

LEMMA FlushThrowsStep ==
  ASSUME PingsInv, NEW f \in Flush, FlushStep(f), FlushThrows(f) PROVE PingsInv'
<1>1. /\ UNCHANGED <<emitted, online, sending, received, queue, dropped, failures>>
      /\ flushes' = [flushes EXCEPT ![f] = NoFlush]
      /\ thrown' = thrown \cup ToSet(FlushPings(f))
  BY DEF FlushStep, FlushThrows
<1>2. ToSet(FlushPings(f)) = InFlush[f] /\ InFlush[f] \subseteq Nat
  <2>1. FlushOK(flushes[f])
    BY DEF PingsInv
  <2>2. ToSet(flushes[f].pending) \subseteq Nat /\ ToSet(flushes[f].failed) \subseteq Nat
    BY <2>1, LenProperties DEF FlushOK, PingList, ToSet
  <2> QED BY <2>1, <2>2, ConcatDistinct DEF FlushOK, PingList, FlushPings, InFlush
<1>3. /\ flushes' \in [Flush -> [pending : Seq(Nat), failed : Seq(Nat)]]
      /\ InFlush'[f] = {} /\ \A g \in Flush : g # f => InFlush'[g] = InFlush[g]
      /\ \A g \in Flush : FlushOK(flushes[g])'
  BY <1>1, FlushCleared
<1> HIDE DEF InFlush
<1>4. /\ AtOnePlace(1..emitted, ToSet(received), ToSet(queue), Unanswered \cup InFlush[f], dropped,
                    InFlush')
      /\ Unanswered \cap InFlush[f] = {}
  <2>1. AtOnePlace(1..emitted, ToSet(received), ToSet(queue), Unanswered, dropped, InFlush)
    BY DEF PingsInv
  <2>2. InFlush[f] \subseteq Nat
    BY <1>2
  <2>3. InFlush'[f] = {} /\ \A g \in Flush : g # f => InFlush'[g] = InFlush[g]
    BY <1>3
  <2>4. f \in Flush
    OBVIOUS
  <2> QED BY ONLY <2>1, <2>2, <2>3, <2>4, SMTT(20)
          DEF AtOnePlace
<1>5. Unanswered' = Unanswered \cup InFlush[f] /\ sending' \cap thrown' = {}
  BY <1>1, <1>2, <1>4 DEF PingsInv, Unanswered
<1>6. PingsTypeOK'
  BY <1>1, <1>2, <1>3 DEF PingsInv, PingsTypeOK, PingList
<1> QED BY <1>1, <1>3, <1>4, <1>5, <1>6 DEF PingsInv, Ascending

LEMMA FlushAnsweredStep ==
  ASSUME PingsInv, NEW f \in Flush, FlushStep(f), FlushAnswered(f) PROVE PingsInv'
<1> DEFINE x == Head(flushes[f].pending)
           left == Tail(flushes[f].pending)
           old == flushes[f].failed
<1>1. PICK ok \in BOOLEAN :
        LET unsent == IF ok THEN old ELSE Append(old, x) IN
          /\ received' = IF ok THEN Append(received, x) ELSE received
          /\ failures' = (failures \/ ~ok)
          /\ IF left # <<>>
             THEN /\ flushes' = [flushes EXCEPT ![f] = [pending |-> left, failed |-> unsent]]
                  /\ UNCHANGED <<queue, dropped>>
             ELSE flushes' = [flushes EXCEPT ![f] = NoFlush] /\ Buffer(unsent)
  BY DEF FlushAnswered
<1> DEFINE unsent == IF ok THEN old ELSE Append(old, x)
           here == IF ok THEN InFlush[f] \ {x} ELSE InFlush[f]
<1>2. UNCHANGED <<emitted, online, sending, thrown>> /\ flushes[f].pending # <<>>
  BY DEF FlushStep, FlushAnswered
<1>3. /\ PingList(flushes[f].pending) /\ Ascending(flushes[f].pending) /\ PingList(old)
      /\ ToSet(flushes[f].pending) \cap ToSet(old) = {} /\ (~failures => old = <<>>)
  BY DEF PingsInv, FlushOK
<1>4. /\ x \in Nat /\ PingList(left) /\ x \notin ToSet(left) /\ Ascending(left)
      /\ ToSet(flushes[f].pending) = {x} \cup ToSet(left)
  BY <1>2, <1>3, TailDistinct DEF PingList
<1>5. /\ InFlush[f] = ToSet(flushes[f].pending) \cup ToSet(old)
      /\ ToSet(flushes[f].pending) \subseteq Nat /\ ToSet(old) \subseteq Nat
  BY <1>3, LenProperties DEF InFlush, ToSet, PingList
<1> HIDE DEF x, left, old, here
<1>6. /\ PingList(unsent)
      /\ ToSet(left) \cap ToSet(unsent) = {} /\ ToSet(left) \cup ToSet(unsent) = here
  <2>1. CASE ok
    BY <1>3, <1>4, <1>5, <2>1 DEF here
  <2>2. CASE ~ok
    <3>1. unsent = Append(old, x) /\ PingList(unsent) /\ ToSet(unsent) = ToSet(old) \cup {x}
      BY <1>3, <1>4, <2>2, AppendDistinct DEF PingList
    <3> QED BY <1>3, <1>4, <1>5, <2>2, <3>1 DEF here
  <2> QED BY <2>1, <2>2
<1>7. /\ failures' \in BOOLEAN
      /\ ~failures' => ~failures /\ unsent = <<>>
  BY <1>1, <1>3 DEF PingsInv, PingsTypeOK
<1> DEFINE moved == [g \in Flush |-> IF g = f THEN here ELSE InFlush[g]]
<1>8. /\ PingList(received)'
      /\ AtOnePlace(1..emitted, ToSet(received)', ToSet(queue), Unanswered, dropped, moved)
  <2>1. moved[f] = here /\ \A g \in Flush : g # f => moved[g] = InFlush[g]
    OBVIOUS
  <2> HIDE DEF moved, InFlush
  <2>2. AtOnePlace(1..emitted, ToSet(received), ToSet(queue), Unanswered, dropped, InFlush)
    BY DEF PingsInv
  <2>3. CASE ok
    <3>1. /\ AtOnePlace(1..emitted, ToSet(received) \cup {x}, ToSet(queue), Unanswered, dropped,
                        moved)
          /\ x \notin ToSet(received)
      <4>1. x \in InFlush[f] /\ moved[f] = InFlush[f] \ {x}
        BY <1>4, <1>5, <2>1, <2>3 DEF here
      <4> HIDE DEF here
      <4> QED BY <1>4, <2>1, <2>2, <4>1 DEF AtOnePlace
    <3>2. received' = Append(received, x)
      BY <1>1, <2>3
    <3>3. PingList(Append(received, x)) /\ ToSet(Append(received, x)) = ToSet(received) \cup {x}
      BY <1>4, <3>1, AppendDistinct DEF PingsInv, PingsTypeOK, PingList
    <3>4. PingList(received)' /\ ToSet(received)' = ToSet(received) \cup {x}
      BY <3>2, <3>3 DEF PingList
    <3> QED BY <3>1, <3>4
  <2>4. CASE ~ok
    <3>1. received' = received
      BY <1>1, <2>4
    <3>2. PingList(received)' /\ ToSet(received)' = ToSet(received)
      BY <3>1 DEF PingsInv, PingsTypeOK, PingList
    <3>3. \A g \in Flush : moved[g] = InFlush[g]
      BY <2>1, <2>4 DEF here
    <3> QED BY <2>2, <3>2, <3>3 DEF AtOnePlace
  <2> QED BY <2>3, <2>4
<1> HIDE DEF moved, unsent
<1>11. Unanswered' = Unanswered /\ sending' \cap thrown' = {}
  BY <1>2 DEF PingsInv, Unanswered
<1>9. CASE left # <<>>
  <2>1. flushes' = [flushes EXCEPT ![f] = [pending |-> left, failed |-> unsent]]
        /\ UNCHANGED <<queue, dropped>>
    BY <1>1, <1>9 DEF unsent
  <2>2. [pending |-> left, failed |-> unsent] \in [pending : Seq(Nat), failed : Seq(Nat)]
    BY <1>4, <1>6 DEF PingList
  <2>3. /\ flushes' \in [Flush -> [pending : Seq(Nat), failed : Seq(Nat)]]
        /\ flushes'[f] = [pending |-> left, failed |-> unsent]
        /\ \A g \in Flush : g # f => flushes'[g] = flushes[g]
    BY <2>1, <2>2 DEF PingsInv, PingsTypeOK
  <2>4. PingsTypeOK'
    BY <1>2, <1>7, <1>8, <2>1, <2>3 DEF PingsInv, PingsTypeOK, PingList
  <2>5. \A g \in Flush : FlushOK(flushes[g])'
    <3>1. FlushOK(flushes[f])'
      BY <1>4, <1>6, <1>7, <2>3 DEF FlushOK, PingList
    <3>2. ASSUME NEW g \in Flush, g # f PROVE FlushOK(flushes[g])'
      <4>1. FlushOK(flushes[g]) /\ flushes'[g] = flushes[g]
        BY <2>3, <3>2 DEF PingsInv
      <4> QED BY <1>7, <4>1 DEF FlushOK, PingList
    <3> QED BY <3>1, <3>2
  <2>6. \A g \in Flush : InFlush'[g] = moved[g]
    BY <1>6, <2>3 DEF InFlush, moved
  <2>7. AtOnePlace(1..emitted, ToSet(received), ToSet(queue), Unanswered, dropped, InFlush)'
    <3> HIDE DEF InFlush
    <3> QED BY <1>2, <1>8, <1>11, <2>1, <2>6 DEF AtOnePlace
  <2> QED BY <1>7, <1>11, <2>1, <2>4, <2>5, <2>7 DEF PingsInv, Ascending
<1>10. CASE left = <<>>
  <2>1. flushes' = [flushes EXCEPT ![f] = NoFlush] /\ Buffer(unsent)
    BY <1>1, <1>10 DEF unsent
  <2>2. <<>> \in Seq(Nat) /\ PingList(<<>>) /\ ToSet(<<>>) = {} /\ Ascending(<<>>)
    <3>1. <<>> \in Seq(Nat) /\ DOMAIN <<>> = {}
      BY EmptySeq
    <3> QED BY <3>1 DEF PingList, IsInjective, ToSet, Ascending
  <2>3. /\ flushes' \in [Flush -> [pending : Seq(Nat), failed : Seq(Nat)]]
        /\ flushes'[f] = NoFlush
        /\ \A g \in Flush : g # f => flushes'[g] = flushes[g]
    BY <2>1, <2>2 DEF PingsInv, PingsTypeOK, NoFlush
  <2>4. here = ToSet(unsent) /\ here \subseteq Nat
    BY <1>5, <1>6, <1>10, <2>2 DEF here
  <2>5. /\ moved[f] = here
        /\ InFlush'[f] = {} /\ \A g \in Flush : g # f => InFlush'[g] = moved[g]
    BY <2>2, <2>3 DEF InFlush, NoFlush, moved
  <2>6. /\ AtOnePlace(1..emitted, ToSet(received)', ToSet(queue) \cup ToSet(unsent), Unanswered,
                      dropped, InFlush')
        /\ ToSet(queue) \cap ToSet(unsent) = {}
    <3> HIDE DEF InFlush
    <3> QED BY <1>8, <2>4, <2>5, FlushEnded
  <2>7. /\ PingList(queue)' /\ Len(queue') <= QueueSize /\ dropped' \in SUBSET Nat
        /\ AtOnePlace(1..emitted, ToSet(received)', ToSet(queue)', Unanswered, dropped', InFlush')
        /\ Ascending(queue \o unsent)
             /\ (\A p \in dropped, y \in ToSet(queue) \cup ToSet(unsent) : p < y)
             => Ascending(queue)' /\ \A p \in dropped', i \in DOMAIN queue' : p < queue'[i]
    <3> HIDE DEF InFlush
    <3> QED BY <1>6, <2>1, <2>6, BufferKeepsOrDrops DEF PingsInv
  <2>8. PingsTypeOK'
    BY <1>2, <1>7, <1>8, <2>3, <2>7 DEF PingsInv, PingsTypeOK, PingList
  <2>9. \A g \in Flush : FlushOK(flushes[g])'
    <3>1. FlushOK(flushes[f])'
      BY <2>2, <2>3 DEF FlushOK, NoFlush, PingList
    <3>2. ASSUME NEW g \in Flush, g # f PROVE FlushOK(flushes[g])'
      <4>1. FlushOK(flushes[g]) /\ flushes'[g] = flushes[g]
        BY <2>3, <3>2 DEF PingsInv
      <4> QED BY <1>7, <4>1 DEF FlushOK, PingList
    <3> QED BY <3>1, <3>2
  <2>10. ASSUME ~failures'
         PROVE  Ascending(queue)' /\ \A p \in dropped', i \in DOMAIN queue' : p < queue'[i]
    <3>1. unsent = <<>> /\ Ascending(queue) /\ \A p \in dropped, i \in DOMAIN queue : p < queue[i]
      BY <1>7, <2>10 DEF PingsInv
    <3>2. queue \o unsent = queue
      BY <3>1, ConcatEmptySeq DEF PingsInv, PingsTypeOK, PingList
    <3>3. \A p \in dropped, y \in ToSet(queue) \cup ToSet(unsent) : p < y
      BY <2>2, <3>1 DEF ToSet
    <3> QED BY <2>7, <3>1, <3>2, <3>3
  <2> QED BY <1>2, <1>11, <2>7, <2>8, <2>9, <2>10 DEF PingsInv
<1> QED BY <1>9, <1>10

PhoneCalls ==
  \/ EmitPing \/ (\E x \in sending : SendEnds(x)) \/ (\E on \in BOOLEAN : SetOnline(on))
  \/ \E f \in Flush : FlushStep(f)

LEMMA PingsInvStep == PingsInv /\ [AppNext]_appVars => PingsInv'
<1> SUFFICES ASSUME PingsInv, [AppNext]_appVars PROVE PingsInv'
  OBVIOUS
<1>1. CASE UNCHANGED <<emitted, transmitter>>
  BY <1>1 DEF transmitter, PingsInv, PingsTypeOK, PingList, FlushOK, InFlush, Ascending, Unanswered
<1>2. CASE PhoneCalls
  BY <1>2, EmitStep, SendEndsStep, SetOnlineStep, FlushAnsweredStep, FlushThrowsStep
     DEF PhoneCalls, FlushStep
<1>3. UNCHANGED <<emitted, transmitter>> \/ PhoneCalls
  BY DEF AppNext, PhoneCalls, PingTimer, StartAssignment, SignIn, SignOut, SetStatus, Progress,
         EndStop, Quiet, appVars, transmitter
<1> QED BY <1>1, <1>2, <1>3

\* A list of distinct pings has each of them at one index.
LEMMA IndexesOf ==
  ASSUME NEW s, PingList(s), NEW p
  PROVE  /\ p \in ToSet(s) => \E i \in DOMAIN s : {k \in DOMAIN s : s[k] = p} = {i}
         /\ p \notin ToSet(s) => {k \in DOMAIN s : s[k] = p} = {}
  BY DEF PingList, IsInjective, ToSet

LEMMA IndexCount ==
  ASSUME NEW s, PingList(s), NEW p
  PROVE  Cardinality({k \in DOMAIN s : s[k] = p}) = IF p \in ToSet(s) THEN 1 ELSE 0
<1> DEFINE at == {k \in DOMAIN s : s[k] = p}
<1>1. /\ p \in ToSet(s) => \E i \in DOMAIN s : at = {i}
      /\ p \notin ToSet(s) => at = {}
  BY IndexesOf
<1> HIDE DEF at
<1>2. Cardinality(at) = IF p \in ToSet(s) THEN 1 ELSE 0
  BY <1>1, FS_Singleton, FS_EmptySet
<1> QED BY <1>2 DEF at

\* Of the flushes, one has the ping, at one index, if any has it.
LEMMA FlushCount ==
  ASSUME PingsInv, NEW p \in Nat
  PROVE  Cardinality(UNION {{f} \X {i \in DOMAIN FlushPings(f) : FlushPings(f)[i] = p} :
                             f \in Flush})
           = IF \E f \in Flush : p \in InFlush[f] THEN 1 ELSE 0
<1> DEFINE at(f) == {i \in DOMAIN FlushPings(f) : FlushPings(f)[i] = p}
           all   == UNION {{f} \X at(f) : f \in Flush}
<1>1. \A f \in Flush : PingList(FlushPings(f)) /\ ToSet(FlushPings(f)) = InFlush[f]
  BY ConcatDistinct DEF PingsInv, FlushOK, PingList, FlushPings, InFlush
<1>2. \A f \in Flush : /\ p \in InFlush[f] => \E i \in DOMAIN FlushPings(f) : at(f) = {i}
                       /\ p \notin InFlush[f] => at(f) = {}
  BY <1>1, IndexesOf
<1> HIDE DEF at, InFlush
<1>3. CASE \E f \in Flush : p \in InFlush[f]
  <2>1. PICK f \in Flush : p \in InFlush[f]
    BY <1>3
  <2>2. \A g \in Flush : g # f => at(g) = {}
    BY <1>2, <2>1 DEF PingsInv, AtOnePlace
  <2>3. PICK i : at(f) = {i}
    BY <1>2, <2>1
  <2>4. all = {<<f, i>>}
    <3>1. ASSUME NEW x \in all PROVE x = <<f, i>>
      <4>1. PICK g \in Flush : x \in {g} \X at(g)
        OBVIOUS
      <4>2. g = f
        BY <2>2, <4>1
      <4> QED BY <2>3, <4>1, <4>2
    <3>2. <<f, i>> \in {f} \X at(f)
      BY <2>3
    <3> QED BY <3>1, <3>2
  <2> HIDE DEF all
  <2>5. Cardinality(all) = 1
    BY <2>4, FS_Singleton
  <2> QED BY <1>3, <2>5 DEF all, at
<1>4. CASE ~\E f \in Flush : p \in InFlush[f]
  <2>1. all = {}
    BY <1>2, <1>4
  <2> HIDE DEF all
  <2>2. Cardinality(all) = 0
    BY <2>1, FS_EmptySet
  <2> QED BY <1>4, <2>2 DEF all, at
<1> QED BY <1>3, <1>4

LEMMA PingsAreOnce == PingsInv => EachPingOnce
<1> SUFFICES ASSUME PingsInv, NEW p \in 1..emitted
             PROVE  Cardinality({i \in DOMAIN received : received[i] = p})
                      + Cardinality({i \in DOMAIN queue : queue[i] = p})
                      + (IF p \in sending THEN 1 ELSE 0) + (IF p \in dropped THEN 1 ELSE 0)
                      + (IF p \in thrown THEN 1 ELSE 0)
                      + Cardinality(UNION {{f} \X {i \in DOMAIN FlushPings(f) :
                                                     FlushPings(f)[i] = p} : f \in Flush}) = 1
  BY DEF EachPingOnce
<1>1. p \in Nat
  BY DEF PingsInv, PingsTypeOK
<1>2. /\ Cardinality({i \in DOMAIN received : received[i] = p})
           = IF p \in ToSet(received) THEN 1 ELSE 0
      /\ Cardinality({i \in DOMAIN queue : queue[i] = p}) = IF p \in ToSet(queue) THEN 1 ELSE 0
  BY IndexCount DEF PingsInv, PingsTypeOK
<1>3. Cardinality(UNION {{f} \X {i \in DOMAIN FlushPings(f) : FlushPings(f)[i] = p} :
                          f \in Flush}) = IF \E f \in Flush : p \in InFlush[f] THEN 1 ELSE 0
  BY <1>1, FlushCount
<1>4. AtOnePlace(1..emitted, ToSet(received), ToSet(queue), Unanswered, dropped, InFlush)
  BY DEF PingsInv
<1>5. \/ /\ p \in ToSet(received) /\ p \notin ToSet(queue) /\ p \notin Unanswered
         /\ p \notin dropped /\ ~\E f \in Flush : p \in InFlush[f]
      \/ /\ p \notin ToSet(received) /\ p \in ToSet(queue) /\ p \notin Unanswered
         /\ p \notin dropped /\ ~\E f \in Flush : p \in InFlush[f]
      \/ /\ p \notin ToSet(received) /\ p \notin ToSet(queue) /\ p \in Unanswered
         /\ p \notin dropped /\ ~\E f \in Flush : p \in InFlush[f]
      \/ /\ p \notin ToSet(received) /\ p \notin ToSet(queue) /\ p \notin Unanswered
         /\ p \in dropped /\ ~\E f \in Flush : p \in InFlush[f]
      \/ /\ p \notin ToSet(received) /\ p \notin ToSet(queue) /\ p \notin Unanswered
         /\ p \notin dropped /\ \E f \in Flush : p \in InFlush[f]
  <2> HIDE DEF InFlush
  <2> QED BY <1>1, <1>4 DEF AtOnePlace
<1>6. (IF p \in sending THEN 1 ELSE 0) + (IF p \in thrown THEN 1 ELSE 0)
        = IF p \in Unanswered THEN 1 ELSE 0
  BY DEF PingsInv, Unanswered
<1> QED BY <1>2, <1>3, <1>5, <1>6

-----------------------------------------------------------------------------
\* The shift: nobody is on a delivery who is signed out.
StopStatus == {"assigned", "inTransit", "arrived", "completed", "failed"}
UnderWay(r) == \E i \in DOMAIN r : r[i] \notin StopEnded
InStopOrder(r, current) ==
  \A i \in DOMAIN r : /\ i < current <=> r[i] \in StopEnded
                      /\ i > current => r[i] = "assigned"

ShiftInv ==
  /\ signedIn \in BOOLEAN /\ pinging \in BOOLEAN /\ currentStop \in Nat
  /\ route = NoRouteOnPhone \/ route \in [1..Stops -> StopStatus]
  /\ InStopOrder(route, currentStop)
  /\ pinging <=> UnderWay(route)
  /\ pinging <=> status = "onDelivery"
  /\ pinging => signedIn

LEMMA NoRouteIsIdle == ~UnderWay(NoRouteOnPhone) /\ \A n : InStopOrder(NoRouteOnPhone, n)
<1>1. DOMAIN NoRouteOnPhone = {}
  BY DEF NoRouteOnPhone
<1> QED BY <1>1 DEF UnderWay, InStopOrder

LEMMA ShiftInvStep == ShiftInv /\ [AppNext]_appVars => ShiftInv'
<1> SUFFICES ASSUME ShiftInv, [AppNext]_appVars PROVE ShiftInv'
  OBVIOUS
<1> USE DriverAppAssumption
<1>1. CASE UNCHANGED shift
  BY <1>1 DEF shift, ShiftInv, UnderWay, InStopOrder
<1>2. CASE SignIn
  <2>1. ~pinging /\ pinging' = pinging /\ signedIn' = TRUE /\ status' = "available"
        /\ UNCHANGED <<route, currentStop>>
    BY <1>2 DEF SignIn, ShiftInv
  <2>2. UnderWay(route)' = UnderWay(route)
        /\ InStopOrder(route, currentStop)' = InStopOrder(route, currentStop)
    BY <2>1 DEF UnderWay, InStopOrder
  <2> QED BY <2>1, <2>2 DEF ShiftInv
<1>3. CASE SignOut
  <2>1. /\ signedIn' = FALSE /\ status' = "offline" /\ route' = NoRouteOnPhone
        /\ currentStop' = 1 /\ pinging' = FALSE
    BY <1>3 DEF SignOut
  <2>2. ~UnderWay(route') /\ InStopOrder(route', 1)
    BY <2>1, NoRouteIsIdle
  <2>3. ~UnderWay(route)' /\ InStopOrder(route, currentStop)'
    BY <2>1, <2>2 DEF UnderWay, InStopOrder
  <2> QED BY <2>1, <2>3 DEF ShiftInv
<1>4. ASSUME NEW s \in {"offline", "available", "onBreak"}, SetStatus(s) PROVE ShiftInv'
  <2>1. ~pinging /\ pinging' = FALSE /\ status' # "onDelivery"
        /\ UNCHANGED <<signedIn, route, currentStop>>
    BY <1>4 DEF SetStatus, ShiftInv
  <2>2. UnderWay(route)' = UnderWay(route)
        /\ InStopOrder(route, currentStop)' = InStopOrder(route, currentStop)
    BY <2>1 DEF UnderWay, InStopOrder
  <2> QED BY <2>1, <2>2 DEF ShiftInv
<1>5. CASE StartAssignment
  <2>1. /\ route' = [i \in 1..Stops |-> "assigned"] /\ currentStop' = 1
        /\ status' = "onDelivery" /\ pinging' = TRUE /\ signedIn' = TRUE
    BY <1>5 DEF StartAssignment, ShiftInv
  <2>2. route' \in [1..Stops -> StopStatus] /\ 1 \in DOMAIN route'
        /\ \A i \in DOMAIN route' : route'[i] = "assigned"
    BY <2>1 DEF StopStatus
  <2>3. UnderWay(route)'
    BY <2>2 DEF UnderWay, StopEnded
  <2>4. InStopOrder(route, currentStop)'
    BY <2>1, <2>2 DEF InStopOrder, StopEnded
  <2> QED BY <2>1, <2>2, <2>3, <2>4 DEF ShiftInv
<1>6. ASSUME NEW s \in {"inTransit", "arrived"}, Progress(s) PROVE ShiftInv'
  <2>1. /\ currentStop \in DOMAIN route /\ route[currentStop] \in {"assigned", "inTransit"}
        /\ route' = [route EXCEPT ![currentStop] = s]
        /\ UNCHANGED <<signedIn, status, currentStop, pinging>>
    BY <1>6 DEF Progress
  <2>2. /\ route \in [1..Stops -> StopStatus] /\ route' \in [1..Stops -> StopStatus]
        /\ route'[currentStop] = s
        /\ \A i \in 1..Stops : i # currentStop => route'[i] = route[i]
    BY <2>1 DEF ShiftInv, StopStatus, NoRouteOnPhone
  <2>3. UnderWay(route) /\ UnderWay(route)'
    BY <2>1, <2>2 DEF UnderWay, StopEnded
  <2>4. InStopOrder(route, currentStop)'
    BY <2>1, <2>2 DEF ShiftInv, InStopOrder, StopEnded
  <2> QED BY <2>1, <2>2, <2>3, <2>4 DEF ShiftInv
<1>7. ASSUME NEW s \in StopEnded, EndStop(s) PROVE ShiftInv'
  <2>1. /\ currentStop \in DOMAIN route /\ route[currentStop] = "arrived"
        /\ route' = [route EXCEPT ![currentStop] = s] /\ currentStop' = currentStop + 1
        /\ IF \A i \in DOMAIN route : route'[i] \in StopEnded
           THEN status' = "available" /\ pinging' = FALSE
           ELSE UNCHANGED <<status, pinging>>
        /\ UNCHANGED signedIn
    BY <1>7 DEF EndStop
  <2>2. /\ route \in [1..Stops -> StopStatus] /\ route' \in [1..Stops -> StopStatus]
        /\ route'[currentStop] = s /\ currentStop \in 1..Stops
        /\ \A i \in 1..Stops : i # currentStop => route'[i] = route[i]
    BY <2>1 DEF ShiftInv, StopStatus, StopEnded, NoRouteOnPhone
  <2>3. pinging /\ status = "onDelivery" /\ signedIn
    BY <2>1, <2>2 DEF ShiftInv, UnderWay, StopEnded
  <2>4. InStopOrder(route, currentStop)'
    BY <2>1, <2>2 DEF ShiftInv, InStopOrder
  <2>5. CASE UnderWay(route)'
    <3>1. UNCHANGED <<status, pinging>>
      BY <2>1, <2>2, <2>5 DEF UnderWay
    <3>2. pinging' = TRUE /\ status' = "onDelivery" /\ signedIn' = TRUE
      BY <2>1, <2>3, <3>1 DEF ShiftInv
    <3>3. currentStop' \in Nat
      BY <2>1 DEF ShiftInv
    <3> QED BY <2>2, <2>4, <2>5, <3>2, <3>3 DEF ShiftInv
  <2>6. CASE ~UnderWay(route)'
    <3>1. status' = "available" /\ pinging' = FALSE
      BY <2>1, <2>2, <2>6 DEF UnderWay
    <3>2. pinging' = FALSE /\ status' # "onDelivery" /\ signedIn' = TRUE
      BY <2>1, <2>3, <3>1 DEF ShiftInv
    <3>3. currentStop' \in Nat
      BY <2>1 DEF ShiftInv
    <3> QED BY <2>2, <2>4, <2>6, <3>2, <3>3 DEF ShiftInv
  <2> QED BY <2>5, <2>6
<1>8. \/ UNCHANGED shift \/ SignIn \/ SignOut \/ StartAssignment
      \/ \E s \in {"offline", "available", "onBreak"} : SetStatus(s)
      \/ \E s \in {"inTransit", "arrived"} : Progress(s)
      \/ \E s \in StopEnded : EndStop(s)
  BY DEF AppNext, PingTimer, SendEnds, SetOnline, FlushStep, appVars
<1> QED BY <1>1, <1>2, <1>3, <1>4, <1>5, <1>6, <1>7, <1>8

\* However submits, flushes, failures and the connection interleave, each ping
\* of the phone is at exactly one place: it is sent once, unless a full queue drops
\* it or a sink that throws takes it along; and the phone pings
\* exactly while a delivery is under way.
THEOREM PhoneCorrect == AppSpec => []PhoneSafe
<1>1. AppInit => ShiftInv
  <2> SUFFICES ASSUME AppInit PROVE ShiftInv
    OBVIOUS
  <2>1. /\ signedIn = FALSE /\ status = "offline" /\ route = NoRouteOnPhone
        /\ currentStop = 1 /\ pinging = FALSE
    BY DEF AppInit
  <2>2. ~UnderWay(route) /\ InStopOrder(route, currentStop)
    BY <2>1, NoRouteIsIdle
  <2> QED BY <2>1, <2>2 DEF ShiftInv
<1>2. PingsInv /\ ShiftInv => PhoneSafe
  <2> SUFFICES ASSUME PingsInv, ShiftInv PROVE PhoneSafe
    OBVIOUS
  <2>1. QueueIsRecent
    BY DEF PingsInv, FlushOK, QueueIsRecent, Ascending
  <2>2. PingsDuringDelivery
    BY DEF ShiftInv, PingsDuringDelivery, UnderWay, InStopOrder
  <2> QED BY <2>1, <2>2, PingsAreOnce DEF PhoneSafe
<1>3. AppSpec => [](PingsInv /\ ShiftInv)
  BY <1>1, PingsInvInit, PingsInvStep, ShiftInvStep, PTL DEF AppSpec
<1> QED BY <1>2, <1>3, PTL

-----------------------------------------------------------------------------
(***************************************************************************)
(* The simulated vehicle.                                                  *)
(***************************************************************************)

\* A segment has at least a metre, and one after it.
LEMMA SegmentsHaveLength ==
  /\ Len(Loop) \in Nat /\ Len(Loop) >= 1 /\ Segment = 1..Len(Loop)
  /\ \A i \in Segment : /\ NextOf(i) \in Segment /\ SegLen(i) \in Nat /\ SegLen(i) >= 1
                        /\ Loop[i] \in Int \X Int
                        /\ Loop[i][1] \in Int /\ Loop[i][2] \in Int
                        /\ NextOf(i) = IF i = Len(Loop) THEN 1 ELSE i + 1
<1>1. Len(Loop) \in Nat /\ Len(Loop) >= 1 /\ Segment = 1..Len(Loop)
  BY SimulationAssumption, LenProperties, EmptySeq DEF Segment
<1>2. \A i \in Segment : Loop[i] \in Int \X Int
  BY <1>1, SimulationAssumption, ElementOfSeq DEF Segment
<1>3. ASSUME NEW i \in Segment PROVE NextOf(i) = IF i = Len(Loop) THEN 1 ELSE i + 1
  <2>1. \A n \in Nat : n >= 1 => n % n = 0 /\ \A j \in 1..n : j < n => j % n = j
    OBVIOUS
  <2> QED BY <1>1, <2>1 DEF NextOf
<1>4. ASSUME NEW i \in Segment PROVE NextOf(i) \in Segment
  BY <1>1, <1>3
<1>5. ASSUME NEW i \in Segment PROVE SegLen(i) \in Nat /\ SegLen(i) >= 1
  <2>1. \A a, b \in Int \X Int : Abs(b[1] - a[1]) + Abs(b[2] - a[2]) \in Nat
    BY DEF Abs
  <2>2. Loop[i] \in Int \X Int /\ Loop[NextOf(i)] \in Int \X Int
    BY <1>2, <1>4
  <2>3. Abs(Loop[NextOf(i)][1] - Loop[i][1]) + Abs(Loop[NextOf(i)][2] - Loop[i][2]) \in Nat
    BY <2>1, <2>2
  <2> QED BY <2>3 DEF SegLen
<1>6. ASSUME NEW i \in Segment
      PROVE  /\ Loop[i] \in Int \X Int
             /\ Loop[i][1] \in Int /\ Loop[i][2] \in Int
  <2>1. Loop[i] \in Int \X Int
    BY <1>2
  <2> QED BY <2>1
<1> QED BY <1>1, <1>3, <1>4, <1>5, <1>6

\* The sums of the lengths, as routeLength adds them up.
LEMMA BeforeIsSum ==
  /\ Before \in [1..Len(Loop) + 1 -> Nat] /\ Before[1] = 0
  /\ \A i \in Segment : Before[i + 1] = Before[i] + SegLen(i)
<1> DEFINE N == Len(Loop) + 1
           S == 1..N
           to == [i \in S |-> IF i = 1 THEN 1 ELSE i - 1]
           base == [i \in S |-> 0]
           h == [i \in S |-> [t \in Nat |-> IF i = 1 THEN 0 ELSE t + SegLen(i - 1)]]
           R(f) == f = [i \in S |-> IF i = 1 THEN 0 ELSE f[i - 1] + SegLen(i - 1)]
<1>1. N \in Nat /\ Len(Loop) \in Nat /\ N >= 2 /\ Segment = 1..Len(Loop)
  BY SegmentsHaveLength
<1>2. Descends(to, S)
  BY <1>1 DEF Descends
<1>3. base \in [S -> Nat] /\ h \in [S -> [Nat -> Nat]]
  <2>1. \A i \in S : i # 1 => i - 1 \in Segment
    BY <1>1
  <2>2. \A i \in S : \A t \in Nat : (IF i = 1 THEN 0 ELSE t + SegLen(i - 1)) \in Nat
    <3>1. ASSUME NEW i \in S, NEW t \in Nat PROVE (IF i = 1 THEN 0 ELSE t + SegLen(i - 1)) \in Nat
      <4>1. CASE i = 1
        BY <4>1
      <4>2. CASE i # 1
        <5>1. SegLen(i - 1) \in Nat
          BY <2>1, <4>2, SegmentsHaveLength
        <5> QED BY <4>2, <5>1
      <4> QED BY <4>1, <4>2
    <3> QED BY <3>1
  <2> QED BY <2>2
<1>4. PICK f \in [S -> Nat] : Recursion(f, to, base, h)
  <2> HIDE DEF to, base, h, N
  <2>1. S = 1..N
    OBVIOUS
  <2> HIDE DEF S
  <2> QED BY <1>1, <1>2, <1>3, <2>1, RecursionExists
<1>5. R(f)
  <2>1. ASSUME NEW i \in S PROVE f[i] = IF i = 1 THEN 0 ELSE f[i - 1] + SegLen(i - 1)
    <3>1. CASE i = 1
      BY <1>4, <3>1 DEF Recursion
    <3>2. CASE i # 1
      <4>1. to[i] = i - 1 /\ to[i] # i /\ i - 1 \in S
        BY <1>1, <3>2
      <4>2. f[i] = h[i][f[i - 1]] /\ f[i - 1] \in Nat
        BY <1>4, <4>1 DEF Recursion
      <4> QED BY <3>2, <4>2
    <3> QED BY <3>1, <3>2
  <2> QED BY <2>1
<1>6. R(Before)
  <2>1. Before = CHOOSE g : R(g)
    BY DEF Before
  <2>2. \E g : R(g)
    BY <1>5
  <2> HIDE DEF R
  <2> QED BY <2>1, <2>2
<1>7. Before = f
  <2>0. \A i \in S : Before[i] = IF i = 1 THEN 0 ELSE Before[i - 1] + SegLen(i - 1)
    BY <1>6
  <2>1. \A i \in S : f[i] = IF i = 1 THEN 0 ELSE f[i - 1] + SegLen(i - 1)
    BY <1>5
  <2> DEFINE A == {k \in Nat : k + 1 \in S => Before[k + 1] = f[k + 1]}
  <2>2. 0 \in A
    BY <2>0, <2>1
  <2>3. ASSUME NEW k \in Nat, k \in A PROVE k + 1 \in A
    <3> SUFFICES ASSUME (k + 1) + 1 \in S PROVE Before[(k + 1) + 1] = f[(k + 1) + 1]
      OBVIOUS
    <3>1. k + 1 \in S /\ (k + 1) + 1 # 1 /\ ((k + 1) + 1) - 1 = k + 1
      BY <1>1
    <3>2. Before[k + 1] = f[k + 1]
      BY <2>3, <3>1
    <3> QED BY <2>0, <2>1, <3>1, <3>2
  <2>4. Nat \subseteq A
    <3> HIDE DEF A
    <3> QED BY <2>2, <2>3, EveryNumber
  <2>5. ASSUME NEW i \in S PROVE Before[i] = f[i]
    <3>1. i - 1 \in Nat /\ (i - 1) + 1 = i
      OBVIOUS
    <3> QED BY <2>4, <3>1
  <2>6. DOMAIN Before = S /\ Before = [i \in S |-> Before[i]]
    BY <1>6
  <2> QED BY <2>5, <2>6
<1>8. \A i \in S : Before[i] = IF i = 1 THEN 0 ELSE Before[i - 1] + SegLen(i - 1)
  BY <1>6
<1>9. ASSUME NEW i \in Segment PROVE Before[i + 1] = Before[i] + SegLen(i)
  <2>1. i + 1 \in S /\ i + 1 # 1 /\ (i + 1) - 1 = i
    BY <1>1
  <2> QED BY <1>8, <2>1
<1> QED BY <1>1, <1>4, <1>7, <1>8, <1>9

\* An earlier segment begins before the end of the loop.
LEMMA BeforeIsBounded ==
  /\ LoopLength \in Nat
  /\ \A i \in Segment : Before[i] \in Nat /\ Before[i] + SegLen(i) <= LoopLength
<1>1. Len(Loop) \in Nat /\ Len(Loop) >= 1 /\ Segment = 1..Len(Loop)
  BY SegmentsHaveLength
<1>2. LoopLength = Before[Len(Loop) + 1] /\ LoopLength \in Nat
  BY <1>1, BeforeIsSum DEF LoopLength
<1>3. \A i \in Segment : /\ Before[i] \in Nat /\ Before[i + 1] \in Nat /\ SegLen(i) \in Nat
                         /\ Before[i + 1] = Before[i] + SegLen(i)
  <2> TAKE i \in Segment
  <2>1. i \in 1..Len(Loop) + 1 /\ i + 1 \in 1..Len(Loop) + 1
    BY <1>1
  <2>2. Before[i] \in Nat /\ Before[i + 1] \in Nat
    BY <2>1, BeforeIsSum
  <2> QED BY <2>2, BeforeIsSum, SegmentsHaveLength
<1> DEFINE A == {k \in Nat : \A i \in Segment : i + k = Len(Loop) => Before[i + 1] <= LoopLength}
<1>4. 0 \in A
  BY <1>1, <1>2
<1>5. ASSUME NEW k \in Nat, k \in A PROVE k + 1 \in A
  <2> SUFFICES ASSUME NEW i \in Segment, i + (k + 1) = Len(Loop)
      PROVE  Before[i + 1] <= LoopLength
    OBVIOUS
  <2>1. i \in Nat /\ i + 1 \in Segment /\ (i + 1) + k = Len(Loop)
    BY <1>1
  <2>2. Before[(i + 1) + 1] <= LoopLength
    BY <1>5, <2>1
  <2> QED BY <1>2, <1>3, <2>1, <2>2
<1>6. Nat \subseteq A
  <2> HIDE DEF A
  <2> QED BY <1>4, <1>5, EveryNumber
<1>7. ASSUME NEW i \in Segment PROVE Before[i + 1] <= LoopLength
  <2>1. Len(Loop) - i \in Nat /\ i + (Len(Loop) - i) = Len(Loop)
    BY <1>1
  <2> QED BY <1>6, <2>1
<1> QED BY <1>2, <1>3, <1>7

\* A tick's loop stops: a vehicle that is on a segment has less to go after it.
WalkIs(w) ==
  LET remain == SegLen(w.seg) - w.frac IN
  Walk[w] = IF w.rest < remain
            THEN [seg |-> w.seg, frac |-> w.frac + w.rest, last |-> w.seg]
            ELSE IF w.rest = remain THEN [seg |-> NextOf(w.seg), frac |-> 0, last |-> w.seg]
            ELSE Walk[[seg |-> NextOf(w.seg), frac |-> 0, rest |-> w.rest - remain]]

LEMMA WalkEnds == \A w \in Stage : WalkIs(w)
<1> DEFINE remain(w) == SegLen(w.seg) - w.frac
           size == [w \in Stage |-> IF remain(w) > 0 THEN w.rest ELSE w.rest + w.frac + 1]
           stop == {w \in Stage : w.rest <= remain(w)}
           on(w) == [seg |-> NextOf(w.seg), frac |-> 0, rest |-> w.rest - remain(w)]
           next == [w \in Stage |-> IF w \in stop THEN w ELSE on(w)]
           here(w) == [seg |-> w.seg, frac |-> w.frac + w.rest, last |-> w.seg]
           there(w) == [seg |-> NextOf(w.seg), frac |-> 0, last |-> w.seg]
           answer == [w \in Stage |-> IF w.rest < remain(w) THEN here(w) ELSE there(w)]
           T == [seg : Segment, frac : Nat, last : Segment]
           R(f) == f = [w \in Stage |->
                          IF w.rest < remain(w) THEN here(w)
                          ELSE IF w.rest = remain(w) THEN there(w) ELSE f[on(w)]]
<1>1. ASSUME NEW w \in Stage
      PROVE  /\ w.seg \in Segment /\ w.frac \in Nat /\ w.rest \in Nat
             /\ SegLen(w.seg) \in Nat /\ SegLen(w.seg) >= 1 /\ NextOf(w.seg) \in Segment
             /\ SegLen(NextOf(w.seg)) \in Nat /\ SegLen(NextOf(w.seg)) >= 1
             /\ remain(w) \in Int
  <2>1. w.seg \in Segment /\ w.frac \in Nat /\ w.rest \in Nat
    BY DEF Stage
  <2>2. /\ SegLen(w.seg) \in Nat /\ SegLen(w.seg) >= 1 /\ NextOf(w.seg) \in Segment
    BY <2>1, SegmentsHaveLength
  <2> QED BY <2>1, <2>2, SegmentsHaveLength
<1>2. ASSUME NEW w \in Stage, w \notin stop
      PROVE  on(w) \in Stage /\ size[on(w)] < size[w]
  <2>1. w.rest > remain(w) /\ w.rest - remain(w) \in Nat
    BY <1>1, <1>2
  <2>2. on(w) \in Stage
    BY <1>1, <2>1 DEF Stage
  <2>3. remain(on(w)) = SegLen(NextOf(w.seg)) /\ remain(on(w)) > 0
    BY <1>1
  <2>4. size[on(w)] = w.rest - remain(w)
    BY <2>2, <2>3
  <2>5. remain(w) <= 0 => w.rest - remain(w) < w.rest + w.frac + 1
    BY <1>1
  <2> QED BY <1>1, <2>2, <2>4, <2>5
<1>3. GoesOn(Stage, size, next, stop, answer, T)
  <2>1. size \in [Stage -> Nat]
    BY <1>1
  <2>2. next \in [Stage -> Stage]
    BY <1>2
  <2>3. ASSUME NEW w \in Stage PROVE answer[w] \in T
    <3>1. here(w) \in T /\ there(w) \in T
      BY <1>1
    <3> QED BY <3>1
  <2>4. ASSUME NEW w \in Stage, w \notin stop PROVE size[next[w]] < size[w]
    <3>1. next[w] = on(w)
      BY <2>4
    <3> HIDE DEF size, on, stop, next
    <3> QED BY <1>2, <2>4, <3>1
  <2> HIDE DEF size, next, stop, answer, T
  <2> QED BY <2>1, <2>2, <2>3, <2>4 DEF GoesOn
<1>4. PICK f \in [Stage -> T] : Follows(f, Stage, next, stop, answer)
  <2> HIDE DEF size, next, stop, answer, T
  <2> QED BY <1>3, GoingOnEnds
<1>5. R(f)
  <2>1. ASSUME NEW w \in Stage
        PROVE  f[w] = IF w.rest < remain(w) THEN here(w)
                      ELSE IF w.rest = remain(w) THEN there(w) ELSE f[on(w)]
    <3>1. f[w] = IF w \in stop THEN answer[w] ELSE f[next[w]]
      BY <1>4 DEF Follows
    <3>2. CASE w \in stop
      <4>1. f[w] = IF w.rest < remain(w) THEN here(w) ELSE there(w)
        BY <3>1, <3>2
      <4>2. ~(w.rest < remain(w)) => w.rest = remain(w)
        BY <1>1, <3>2
      <4> HIDE DEF here, there, on, remain
      <4> QED BY <4>1, <4>2
    <3>3. CASE w \notin stop
      <4>1. f[w] = f[on(w)]
        BY <3>1, <3>3
      <4>2. ~(w.rest < remain(w)) /\ w.rest # remain(w)
        BY <1>1, <3>3
      <4> HIDE DEF here, there, on, remain
      <4> QED BY <4>1, <4>2
    <3> QED BY <3>2, <3>3
  <2> HIDE DEF here, there, on, remain
  <2> QED BY <2>1
<1>6. R(Walk)
  <2>1. Walk = CHOOSE g : R(g)
    BY DEF Walk, Stage
  <2>2. \E g : R(g)
    BY <1>5
  <2> HIDE DEF R
  <2> QED BY <2>1, <2>2
<1>7. ASSUME NEW w \in Stage PROVE WalkIs(w)
  <2>1. Walk[w] = IF w.rest < remain(w) THEN here(w)
                  ELSE IF w.rest = remain(w) THEN there(w) ELSE Walk[on(w)]
    <3> HIDE DEF here, there, on, remain
    <3> QED BY <1>6
  <2> QED BY <2>1 DEF WalkIs
<1> QED BY <1>7

-----------------------------------------------------------------------------
\* Whole rounds of the loop do not count.
LEMMA RoundsDoNotCount ==
  ASSUME NEW L \in Nat, NEW r \in Nat, r < L, NEW k \in Nat
  PROVE  (k * L + r) % L = r
OBVIOUS

\* A vehicle is on the segment it has reached.
OnSegment(i, frac) == i \in Segment /\ frac \in Nat /\ frac < SegLen(i)

\* The walk loses no metre: it ends where metres, and whole rounds, say.
Arrives(i, frac, metres) ==
  LET end == Walk[[seg |-> i, frac |-> frac, rest |-> metres]] IN
  /\ OnSegment(end.seg, end.frac)
  /\ \E k \in Nat : Before[i] + frac + metres = k * LoopLength + Before[end.seg] + end.frac

\* The end of a segment is the start of the next, in this round or the next.
LEMMA NextIsAfter ==
  \A i \in Segment : \E k \in Nat :
    Before[i] + SegLen(i) = k * LoopLength + Before[NextOf(i)]
<1> TAKE i \in Segment
<1>1. /\ Len(Loop) \in Nat /\ Len(Loop) >= 1 /\ Segment = 1..Len(Loop)
      /\ NextOf(i) = IF i = Len(Loop) THEN 1 ELSE i + 1
      /\ Before[i + 1] = Before[i] + SegLen(i) /\ Before[1] = 0
      /\ LoopLength = Before[Len(Loop) + 1]
  BY SegmentsHaveLength, BeforeIsSum DEF LoopLength
<1>2. LoopLength \in Nat /\ Before[i + 1] \in Nat
  <2>1. i + 1 \in 1..Len(Loop) + 1
    BY <1>1
  <2> QED BY <2>1, BeforeIsSum, BeforeIsBounded
<1>3. CASE i = Len(Loop)
  <2>1. Before[i] + SegLen(i) = 1 * LoopLength + Before[NextOf(i)]
    BY <1>1, <1>2, <1>3
  <2> QED BY <2>1
<1>4. CASE i # Len(Loop)
  <2>1. Before[i] + SegLen(i) = 0 * LoopLength + Before[NextOf(i)]
    BY <1>1, <1>2, <1>4
  <2> QED BY <2>1
<1> QED BY <1>3, <1>4

\* By induction on the metres to go.
LEMMA WalkArrives ==
  ASSUME NEW i \in Segment, NEW frac \in Nat, frac < SegLen(i), NEW metres \in Nat
  PROVE  Arrives(i, frac, metres)
<1> DEFINE Bad == {m \in Nat : \E j \in Segment, f \in Nat : f < SegLen(j) /\ ~Arrives(j, f, m)}
<1> SUFFICES ASSUME Bad # {} PROVE FALSE
  OBVIOUS
<1>1. PICK m \in Bad : \A n \in Bad : m <= n
  <2>1. Bad \in SUBSET Nat
    OBVIOUS
  <2> HIDE DEF Bad
  <2> QED BY <2>1, LeastExists
<1>2. PICK j \in Segment, f \in Nat : f < SegLen(j) /\ ~Arrives(j, f, m)
  OBVIOUS
<1> DEFINE w == [seg |-> j, frac |-> f, rest |-> m]
           rem == SegLen(j) - f
           end == Walk[w]
<1>3. /\ m \in Nat /\ SegLen(j) \in Nat /\ rem \in Nat /\ rem > 0
      /\ Before[j] \in Nat /\ LoopLength \in Nat /\ w \in Stage
  <2>1. m \in Nat
    OBVIOUS
  <2> HIDE DEF Bad
  <2>2. SegLen(j) \in Nat
    BY SegmentsHaveLength
  <2>3. Before[j] \in Nat /\ LoopLength \in Nat
    BY BeforeIsBounded
  <2>4. w \in Stage
    BY <2>1 DEF Stage
  <2>5. rem \in Nat /\ rem > 0
    BY <1>2, <2>2
  <2> HIDE DEF w, rem
  <2> QED BY <2>1, <2>2, <2>3, <2>4, <2>5
<1>4. end = IF m < rem THEN [seg |-> j, frac |-> f + m, last |-> j]
            ELSE IF m = rem THEN [seg |-> NextOf(j), frac |-> 0, last |-> j]
            ELSE Walk[[seg |-> NextOf(j), frac |-> 0, rest |-> m - rem]]
  BY <1>3, WalkEnds DEF WalkIs
<1>5. /\ NextOf(j) \in Segment /\ SegLen(NextOf(j)) \in Nat /\ 0 < SegLen(NextOf(j))
      /\ Before[NextOf(j)] \in Nat
  <2> HIDE DEF Bad, w, rem, end
  <2>1. NextOf(j) \in Segment
    BY SegmentsHaveLength
  <2>2. SegLen(NextOf(j)) \in Nat /\ SegLen(NextOf(j)) >= 1
    BY <2>1, SegmentsHaveLength
  <2>3. Before[NextOf(j)] \in Nat
    BY <2>1, BeforeIsBounded
  <2> QED BY <2>1, <2>2, <2>3
<1>6. PICK k \in Nat : Before[j] + SegLen(j) = k * LoopLength + Before[NextOf(j)]
  BY NextIsAfter
<1> HIDE DEF end, w
<1>7. ASSUME OnSegment(end.seg, end.frac), NEW n \in Nat,
             Before[j] + f + m = n * LoopLength + Before[end.seg] + end.frac
      PROVE  FALSE
  <2>1. Arrives(j, f, m)
    BY <1>7 DEF Arrives, end, w
  <2> QED BY <1>2, <2>1
<1>8. CASE m < rem
  <2>1. end.seg = j /\ end.frac = f + m
    BY <1>4, <1>8
  <2>2. OnSegment(end.seg, end.frac)
    BY <1>3, <1>8, <2>1 DEF OnSegment
  <2>3. Before[j] + f + m = 0 * LoopLength + Before[end.seg] + end.frac
    BY <1>3, <2>1
  <2> QED BY <1>7, <2>2, <2>3
<1>9. CASE m = rem
  <2>1. end.seg = NextOf(j) /\ end.frac = 0
    BY <1>3, <1>4, <1>9
  <2>2. OnSegment(end.seg, end.frac)
    BY <1>5, <2>1 DEF OnSegment
  <2>3. Before[j] + f + m = k * LoopLength + Before[end.seg] + end.frac
    <3>1. Before[j] + f + m = Before[j] + SegLen(j)
      BY <1>3, <1>9
    <3>2. k * LoopLength \in Nat
      BY <1>3
    <3> QED BY <1>3, <1>5, <1>6, <2>1, <3>1, <3>2
  <2> QED BY <1>7, <2>2, <2>3
<1>10. CASE m > rem
  <2>1. m - rem \in Nat /\ m - rem < m
    BY <1>3, <1>10
  <2>2. Arrives(NextOf(j), 0, m - rem)
    <3>1. m - rem \notin Bad
      BY <1>1, <1>3, <2>1
    <3> QED BY <1>5, <2>1, <3>1
  <2>3. end = Walk[[seg |-> NextOf(j), frac |-> 0, rest |-> m - rem]]
    BY <1>3, <1>4, <1>10
  <2>4. PICK n \in Nat : Before[NextOf(j)] + 0 + (m - rem)
                           = n * LoopLength + Before[end.seg] + end.frac
    BY <2>2, <2>3 DEF Arrives
  <2>5. OnSegment(end.seg, end.frac)
    BY <2>2, <2>3 DEF Arrives
  <2>6. Before[end.seg] \in Nat /\ end.frac \in Nat
    BY <2>5, BeforeIsBounded DEF OnSegment
  <2>7. k * LoopLength \in Nat /\ n * LoopLength \in Nat
        /\ (k + n) * LoopLength = k * LoopLength + n * LoopLength
    BY <1>3
  <2>8. Before[j] + f + m = (Before[j] + SegLen(j)) + (m - rem)
    BY <1>3
  <2>9. Before[j] + f + m = (k + n) * LoopLength + Before[end.seg] + end.frac
    <3> DEFINE a == k * LoopLength
               b == n * LoopLength
    <3>1. Before[j] + SegLen(j) = a + Before[NextOf(j)]
      BY <1>6
    <3>2. Before[NextOf(j)] + 0 + (m - rem) = b + Before[end.seg] + end.frac
      BY <2>4
    <3>3. a \in Nat /\ b \in Nat /\ (k + n) * LoopLength = a + b
      BY <2>7
    <3>4. Before[j] + f + m = a + Before[NextOf(j)] + (m - rem)
      BY <2>8, <3>1
    <3> HIDE DEF a, b, rem, Bad
    <3> QED BY <1>5, <2>1, <2>6, <3>2, <3>3, <3>4
  <2>10. k + n \in Nat
    OBVIOUS
  <2> QED BY <1>7, <2>5, <2>9, <2>10
<1> QED BY <1>3, <1>8, <1>9, <1>10

-----------------------------------------------------------------------------
\* The edges of a zone's ring that a ray to the east passes are its two sides:
\* one of them when, and only when, the point is between them.
LEMMA RingIsRectangle ==
  ASSUME NEW z \in SimZone, NEW x \in Int, NEW y \in Int
  PROVE  InRing(<<x, y>>, RingOf(z)) <=> InRectangle(<<x, y>>, z)
<1> DEFINE p == <<x, y>>
           ring == RingOf(z)
           west == z[1][1]  south == z[1][2]
           east == z[2][1]  north == z[2][2]
           crosses(i) ==
             LET xi == ring[i][1]  yi == ring[i][2]  xj == ring[i+1][1]  yj == ring[i+1][2]
                 side == (xj - xi) * (p[2] - yi) - (p[1] - xi) * (yj - yi)
             IN  Passes(yi, yj, p[2]) /\ (IF yj > yi THEN side > 0 ELSE side < 0)
           C == {i \in 1..4 : crosses(i)}
<1>1. /\ west \in Int /\ south \in Int /\ east \in Int /\ north \in Int
      /\ west < east /\ south < north
      /\ z[1] = <<west, south>> /\ z[2] = <<east, north>>
  BY SimulationAssumption
<1>2. Len(ring) = 5 /\ ring[1] = <<west, north>> /\ ring[2] = <<east, north>>
      /\ ring[3] = <<east, south>> /\ ring[4] = <<west, south>> /\ ring[5] = <<west, north>>
  BY <1>1 DEF RingOf
<1>3. InRing(p, ring) <=> Cardinality(C) % 2 = 1
  BY <1>2 DEF InRing
<1> DEFINE between == south <= y /\ y < north
<1>4. p[1] = x /\ p[2] = y
  OBVIOUS
<1> HIDE DEF p, ring
<1>5. ~crosses(1) /\ ~crosses(3)
  BY <1>1, <1>2, <1>4 DEF Passes
<1>6. crosses(2) <=> between /\ x < east
  <2>1. ring[2][1] = east /\ ring[2][2] = north /\ ring[2+1][1] = east /\ ring[2+1][2] = south
    BY <1>2
  <2>2. (east - east) * (y - north) - (x - east) * (south - north) < 0 <=> x < east
    BY <1>1
  <2>3. ~(south > north)
    BY <1>1
  <2>4. Passes(north, south, y) <=> between
    BY <1>1 DEF Passes
  <2> HIDE DEF west, south, east, north
  <2> QED BY <1>4, <2>1, <2>2, <2>3, <2>4
<1>7. crosses(4) <=> between /\ x < west
  <2>1. ring[4][1] = west /\ ring[4][2] = south /\ ring[4+1][1] = west /\ ring[4+1][2] = north
    BY <1>2
  <2>2. (west - west) * (y - south) - (x - west) * (north - south) > 0 <=> x < west
    BY <1>1
  <2>3. north > south
    BY <1>1
  <2>4. Passes(south, north, y) <=> between
    BY <1>1 DEF Passes
  <2> HIDE DEF west, south, east, north
  <2> QED BY <1>4, <2>1, <2>2, <2>3, <2>4
<1> HIDE DEF crosses, between
<1>8. \A i \in 1..4 : i \in {1, 2, 3, 4}
  OBVIOUS
<1>9. C = (IF crosses(2) THEN {2} ELSE {}) \cup (IF crosses(4) THEN {4} ELSE {})
  BY <1>5, <1>8
<1> HIDE DEF C
<1>10. Cardinality(C) % 2 = 1 <=> (crosses(2) /\ ~crosses(4)) \/ (~crosses(2) /\ crosses(4))
  <2>0. 0 % 2 = 0 /\ 1 % 2 = 1 /\ 2 % 2 = 0
    OBVIOUS
  <2>1. CASE crosses(2) /\ crosses(4)
    <3>1. C = {2} \cup {4}
      BY <1>9, <2>1
    <3>2. Cardinality(C) = 2
      <4>1. IsFiniteSet({2}) /\ Cardinality({2}) = 1
        BY FS_Singleton
      <4>2. Cardinality({2} \cup {4}) = 1 + 1
        BY <4>1, FS_AddElement
      <4> QED BY <3>1, <4>2
    <3> QED BY <2>0, <2>1, <3>2
  <2>2. CASE crosses(2) /\ ~crosses(4)
    <3>1. C = {2}
      BY <1>9, <2>2
    <3>2. Cardinality(C) = 1
      BY <3>1, FS_Singleton
    <3> QED BY <2>0, <2>2, <3>2
  <2>3. CASE ~crosses(2) /\ crosses(4)
    <3>1. C = {4}
      BY <1>9, <2>3
    <3>2. Cardinality(C) = 1
      BY <3>1, FS_Singleton
    <3> QED BY <2>0, <2>3, <3>2
  <2>4. CASE ~crosses(2) /\ ~crosses(4)
    <3>1. C = {}
      BY <1>9, <2>4
    <3>2. Cardinality(C) = 0
      BY <3>1, FS_EmptySet
    <3> QED BY <2>0, <2>4, <3>2
  <2> QED BY <2>1, <2>2, <2>3, <2>4
<1>11. InRectangle(p, z) <=> x \in west..east - 1 /\ y \in south..north - 1
  BY <1>4 DEF InRectangle
<1> QED BY <1>1, <1>3, <1>6, <1>7, <1>10, <1>11 DEF p, ring, between

-----------------------------------------------------------------------------
\* The invariant of the simulation: the vehicle is on its segment as far as it
\* has travelled in this round, its position is there or, before the first tick,
\* at the start of the segment, and its zones are those of the position.
SimInv ==
  /\ OnSegment(segIndex, segFrac)
  /\ travelled = Before[segIndex] + segFrac
  /\ PositionIsReached
  /\ inside = ZonesAt(position)
  /\ \A z \in SimZone : /\ lastEvent[z] = "Enter" => z \in inside
                        /\ lastEvent[z] = "Exit" => z \notin inside

\* Positions are on the grid.
LEMMA PointsAreOnGrid ==
  ASSUME NEW i \in Segment, NEW frac \in Nat
  PROVE  PointAt(i, frac) \in Int \X Int
<1>1. /\ Loop[i][1] \in Int /\ Loop[i][2] \in Int
      /\ SegLen(i) \in Nat /\ SegLen(i) >= 1 /\ NextOf(i) \in Segment
  BY SegmentsHaveLength
<1>2. Loop[NextOf(i)][1] \in Int /\ Loop[NextOf(i)][2] \in Int
  BY <1>1, SegmentsHaveLength
<1>3. \A a, b \in Int : a + ((b - a) * frac) \div SegLen(i) \in Int
  <2> TAKE a \in Int, b \in Int
  <2>1. (b - a) * frac \in Int
    OBVIOUS
  <2>2. ((b - a) * frac) \div SegLen(i) \in Int
    BY <1>1, <2>1
  <2> QED BY <2>2
<1> QED BY <1>1, <1>2, <1>3 DEF PointAt

\* The constructor establishes it.
LEMMA SimInvInit == SimInit => SimInv
<1> SUFFICES ASSUME SimInit PROVE SimInv
  OBVIOUS
<1>1. segIndex \in Segment /\ segFrac \in 0..SegLen(segIndex) - 1
  BY DEF SimInit
<1>2. SegLen(segIndex) \in Nat
  BY <1>1, SegmentsHaveLength
<1>3. OnSegment(segIndex, segFrac)
  BY <1>1, <1>2 DEF OnSegment
<1>4. \A z \in SimZone : lastEvent[z] = "none"
  BY DEF SimInit
<1>5. PositionIsReached
  BY DEF SimInit, PositionIsReached
<1> QED BY <1>3, <1>4, <1>5 DEF SimInit, SimInv

\* A tick keeps it, whatever corners it passes.
LEMMA SimTickStep ==
  ASSUME SimInv, NEW metres \in Distance, SimTick(metres)
  PROVE  SimInv'
<1> DEFINE end == Walk[[seg |-> segIndex, frac |-> segFrac, rest |-> metres]]
           now == ZonesAt(PointAt(end.seg, end.frac))
<1>1. /\ metres \in Nat
      /\ segIndex \in Segment /\ segFrac \in Nat /\ segFrac < SegLen(segIndex)
  BY SimulationAssumption DEF SimInv, OnSegment
<1>2. Arrives(segIndex, segFrac, metres)
  BY <1>1, WalkArrives
<1>3. OnSegment(end.seg, end.frac)
  BY <1>2 DEF Arrives
<1>4. PICK k \in Nat :
        Before[segIndex] + segFrac + metres = k * LoopLength + Before[end.seg] + end.frac
  BY <1>2 DEF Arrives
<1>5. /\ segIndex' = end.seg /\ segFrac' = end.frac
      /\ position' = PointAt(end.seg, end.frac) /\ inside' = now
      /\ frames' = Events(inside, now)
      /\ travelled' = (travelled + metres) % LoopLength
      /\ lastEvent' = [z \in SimZone |->
           IF <<"Enter", z>> \in frames' THEN "Enter"
           ELSE IF <<"Exit", z>> \in frames' THEN "Exit" ELSE lastEvent[z]]
  BY DEF SimTick, Move
<1> HIDE DEF end, now
<1>6. travelled' = Before[end.seg] + end.frac
  <2> DEFINE r == Before[end.seg] + end.frac
  <2>1. /\ Before[end.seg] \in Nat /\ LoopLength \in Nat
        /\ Before[end.seg] + SegLen(end.seg) <= LoopLength /\ SegLen(end.seg) \in Nat
        /\ end.frac \in Nat /\ end.frac < SegLen(end.seg)
    BY <1>3, BeforeIsBounded, SegmentsHaveLength DEF OnSegment
  <2>2. r \in Nat /\ r < LoopLength
    BY <2>1
  <2>3. travelled + metres = k * LoopLength + r
    <3>1. k * LoopLength \in Nat
      BY <2>1
    <3>2. travelled + metres = Before[segIndex] + segFrac + metres
      BY DEF SimInv
    <3> QED BY <1>4, <2>1, <3>1, <3>2
  <2> HIDE DEF r
  <2>4. (k * LoopLength + r) % LoopLength = r
    BY <2>1, <2>2, RoundsDoNotCount
  <2> QED BY <1>5, <2>3, <2>4 DEF r
<1>7. inside' = ZonesAt(position)'
  BY <1>5 DEF now, ZonesAt
<1>8. ASSUME NEW z \in SimZone
      PROVE  /\ lastEvent'[z] = "Enter" => z \in inside'
             /\ lastEvent'[z] = "Exit" => z \notin inside'
  <2>1. <<"Enter", z>> \in frames' <=> z \in now /\ z \notin inside
    BY <1>5 DEF Events
  <2>2. <<"Exit", z>> \in frames' <=> z \in inside /\ z \notin now
    BY <1>5 DEF Events
  <2>3. lastEvent'[z] = IF <<"Enter", z>> \in frames' THEN "Enter"
                        ELSE IF <<"Exit", z>> \in frames' THEN "Exit" ELSE lastEvent[z]
    BY <1>5
  <2>4. /\ lastEvent[z] = "Enter" => z \in inside
        /\ lastEvent[z] = "Exit" => z \notin inside
    BY DEF SimInv
  <2> QED BY <1>5, <2>1, <2>2, <2>3, <2>4
<1>9. PositionIsReached'
  BY <1>5 DEF PositionIsReached
<1> QED BY <1>3, <1>5, <1>6, <1>7, <1>8, <1>9 DEF SimInv, OnSegment

\* For any loop, zones and speeds: no metre is lost at a corner, at the end of the
\* loop or between ticks, the vehicle is inside exactly the zones that contain the
\* position it reports, and the last Enter or Exit it sent says the same
\* (fleetSimulation.ts, tick and pointInRing).
THEOREM SimulationCorrect == SimSpec => []SimulationSafe
<1>1. SimInv /\ [SimNext]_simVars => SimInv'
  <2> SUFFICES ASSUME SimInv, [SimNext]_simVars PROVE SimInv'
    OBVIOUS
  <2>1. CASE SimNext
    BY <2>1, SimTickStep DEF SimNext
  <2>2. CASE UNCHANGED simVars
    BY <2>2 DEF simVars, SimInv, PositionIsReached, ZonesAt
  <2> QED BY <2>1, <2>2
<1>2. SimInv => SimulationSafe
  <2> SUFFICES ASSUME SimInv PROVE SimulationSafe
    OBVIOUS
  <2>1. segIndex \in Segment /\ segFrac \in Nat /\ segFrac < SegLen(segIndex)
    BY DEF SimInv, OnSegment
  <2>2. DistanceKept
    <3>1. /\ Before[segIndex] \in Nat /\ LoopLength \in Nat /\ SegLen(segIndex) \in Nat
          /\ Before[segIndex] + SegLen(segIndex) <= LoopLength
      BY <2>1, BeforeIsBounded, SegmentsHaveLength
    <3>2. travelled \in Nat /\ travelled < LoopLength /\ travelled = Before[segIndex] + segFrac
      BY <2>1, <3>1 DEF SimInv
    <3>3. (0 * LoopLength + travelled) % LoopLength = travelled
      BY <3>1, <3>2, RoundsDoNotCount
    <3>4. 0 * LoopLength + travelled = travelled
      BY <3>1, <3>2
    <3> QED BY <3>2, <3>3, <3>4 DEF DistanceKept
  <2>3. position \in Int \X Int
    <3>1. PointAt(segIndex, segFrac) \in Int \X Int
      BY <2>1, PointsAreOnGrid
    <3>2. Loop[segIndex] \in Int \X Int
      BY <2>1, SegmentsHaveLength
    <3> QED BY <3>1, <3>2 DEF SimInv, PositionIsReached
  <2>4. EventsTellWhereItIs
    <3>1. position = <<position[1], position[2]>> /\ position[1] \in Int /\ position[2] \in Int
      BY <2>3
    <3>2. ASSUME NEW z \in SimZone PROVE z \in inside <=> InRectangle(position, z)
      <4>1. z \in inside <=> InRing(position, RingOf(z))
        BY DEF SimInv, ZonesAt
      <4>2. InRing(position, RingOf(z)) <=> InRectangle(position, z)
        BY <3>1, RingIsRectangle
      <4> QED BY <4>1, <4>2
    <3> QED BY <3>2 DEF EventsTellWhereItIs, SimInv
  <2> QED BY <2>2, <2>4 DEF SimulationSafe, SimInv
<1> QED BY <1>1, <1>2, SimInvInit, PTL DEF SimSpec

-----------------------------------------------------------------------------
(***************************************************************************)
(* The turning globe.                                                      *)
(***************************************************************************)

\* The invariant of the spin: before anything was reported there is no pause; since
\* the start of an interaction was reported there is one, and no timer to end it;
\* a pause otherwise has its timer; and after the unmount all is still.
SpinInv ==
  /\ life \in {"loading", "loaded", "gone"}
  /\ life # "gone" /\ report = "start" => interacting /\ ~resumeTimer
  /\ PauseEnds
  /\ life = "loading" => ~enabled
  /\ life = "gone" => ~enabled
  /\ GoneIsQuiet

\* A step that begins no nudge, unless the last report is of an end.
Yields == report' = "start" => ~NudgeBegins

\* It is inductive, and every step yields.
LEMMA SpinInvStep ==
  ASSUME SpinInv, [SpinNext]_spinVars
  PROVE  SpinInv' /\ (Yields \/ UNCHANGED spinVars)
<1> USE DEF SpinInv, PauseEnds, GoneIsQuiet, Yields, NudgeBegins, hands
<1>1. CASE Loaded
  BY <1>1 DEF Loaded, StepOrGoOn, MoveEnd
<1>2. CASE IntroFires
  BY <1>2 DEF IntroFires, Fly, MoveEnd
<1>3. CASE MoveEnd
  BY <1>3 DEF MoveEnd, Step
<1>4. CASE Press \/ DragStart
  BY <1>4 DEF Press, DragStart, InteractStart, MoveEnd, Step
<1>5. CASE Release \/ DragEnd
  BY <1>5 DEF Release, DragEnd, InteractEnd, MoveEnd
<1>6. CASE ReleaseUnseen
  BY <1>6 DEF ReleaseUnseen, MoveEnd
<1>7. CASE Wheel
  BY <1>7 DEF Wheel, Fly, MoveEnd
<1>8. CASE ResumeFires
  <2>1. resumeTimer /\ ~resumeTimer' /\ ~interacting'
        /\ UNCHANGED <<life, enabled, report>>
    BY <1>8 DEF ResumeFires
  <2>2. report # "start" /\ life # "gone"
    BY <2>1
  <2> QED BY <2>1, <2>2
<1>9. CASE Unmounted
  BY <1>9 DEF Unmounted, MoveEnd
<1>10. CASE \E to \in Zoom : Button(to)
  BY <1>10 DEF Button, Fly, MoveEnd
<1>11. CASE UNCHANGED spinVars
  BY <1>11 DEF spinVars
<1> QED BY <1>1, <1>2, <1>3, <1>4, <1>5, <1>6, <1>7, <1>8, <1>9, <1>10, <1>11 DEF SpinNext

\* Whatever the fingers and buttons do, reported or not: once an interaction was
\* reported to start, no nudge begins until an end was reported; a pause after
\* that report has its timer; and after the unmount neither timer nor motion is
\* left (globeSpin.ts).
THEOREM SpinCorrect == SpinSpec => [](PauseEnds /\ GoneIsQuiet) /\ YieldsToTheUser
<1>1. SpinInit => SpinInv
  BY DEF SpinInit, SpinInv, PauseEnds, GoneIsQuiet
<1>2. SpinInv /\ [SpinNext]_spinVars => SpinInv'
  BY SpinInvStep
<1>3. SpinInv /\ [SpinNext]_spinVars => [report' = "start" => ~NudgeBegins]_spinVars
  BY SpinInvStep DEF Yields
<1>4. SpinInv => PauseEnds /\ GoneIsQuiet
  BY DEF SpinInv
<1> QED BY <1>1, <1>2, <1>3, <1>4, PTL DEF SpinSpec, YieldsToTheUser

=============================================================================
