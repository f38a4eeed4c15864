----------------------------- MODULE MCServices -----------------------------
(***************************************************************************)
(* Instances for TLC of the other services and of the two apps, each by    *)
(* itself: each behaviour is a behaviour of the part that subject names,   *)
(* from any of its initial states, while the others stay in one of theirs, *)
(* in which nothing is under way.                                          *)
(***************************************************************************)
EXTENDS Routes, Optimizer, ArrivalNotices, Sessions, DriverApp, Tracking,
        Validation, Zones, Reporting, ZoneEventDelivery, Registers

CONSTANTS a1, a2, b1, b2, e1, e2, e3, p1, p2

VARIABLE subject

\* A good answer, one with a delivery twice, one with a foreign delivery, one
\* that leaves one out; groups that are right, and groups that overlap.
MCAnswer ==
  [sequence : {<<2, 1>>, <<1, 1>>, <<1, 9>>, <<1>>, <<3, 2>>},
   groups   : {<<>>, <<<<1, 2>>>>, <<<<9, 2>>, <<2, 1>>, <<3>>>>}]

MCPositions == {<<0, 0>>, <<1, 0>>, <<2, 0>>, <<0, 1>>, <<2, 1>>}

Subjects == {"routes", "optimizer", "notices", "sessions", "phone", "tracking",
             "form", "zones", "reports", "retries", "registers"}

ServicesInit ==
  /\ subject \in Subjects
  /\ RoutesInit /\ (subject = "routes" \/ linkedTo = [d \in RDelivery |-> Elsewhere])
  /\ OptimizerInit /\ (subject = "optimizer" \/ near = {})
  /\ NoticesInit /\ (subject = "notices" \/
       /\ parcel = [d \in Parcel |-> [terminal |-> FALSE, load |-> Unassigned]]
       /\ carrier = [a \in Load |-> "t1"])
  /\ SessionsInit
  /\ AppInit /\ (subject = "phone" \/ online)
  /\ TrackingInit /\ (subject = "tracking" \/ delivery = "assigned")
  /\ FormInit
  /\ ZonesInit
  /\ ReportInit
  /\ DeliveryInit
  /\ RegistersInit /\ (subject = "registers" \/ register = "drivers")

ServicesNext ==
  /\ IF subject = "routes"    THEN RoutesNext    ELSE UNCHANGED routeVars
  /\ IF subject = "optimizer" THEN OptimizerNext ELSE UNCHANGED optimizerVars
  /\ IF subject = "notices"   THEN NoticesNext   ELSE UNCHANGED noticeVars
  /\ IF subject = "sessions"  THEN SessionsNext  ELSE UNCHANGED sessionVars
  /\ IF subject = "phone"     THEN AppNext       ELSE UNCHANGED appVars
  /\ IF subject = "tracking"  THEN TrackingNext  ELSE UNCHANGED trackingVars
  /\ IF subject = "form"      THEN FormNext      ELSE UNCHANGED form
  /\ IF subject = "zones"     THEN ZonesNext     ELSE UNCHANGED zoneVars
  /\ IF subject = "reports"   THEN ReportNext    ELSE UNCHANGED reportVars
  /\ IF subject = "retries"   THEN DeliveryNext  ELSE UNCHANGED deliveryVars
  /\ IF subject = "registers" THEN RegistersNext ELSE UNCHANGED registerVars
  /\ UNCHANGED subject

servicesVars == <<subject, routeVars, optimizerVars, noticeVars, sessionVars, appVars,
                  trackingVars, form, zoneVars, reportVars, deliveryVars, registerVars>>

\* What stands still has nothing to do, so that no fairness binds it.
ServicesSpec ==
  /\ ServicesInit /\ [][ServicesNext]_servicesVars
  /\ RoutesFairness /\ AppFairness /\ DeliveryFairness
=============================================================================
