-------------------------------- MODULE PoxCore --------------------------------
(***************************************************************************)
(* Starting POX: the command line names components, pox.py imports and     *)
(* launches them one after the other, and core announces registrations and *)
(* that the system goes up.  A launch that fails ends the program.         *)
(*                                                                         *)
(* A command line is [openflow, order]: whether the OpenFlow components    *)
(* are launched by default, and the components in their order.             *)
(***************************************************************************)
EXTENDS ReventRaise, Discovery

register(st, name) ==
    raiseEventNoErrors([st EXCEPT !.c.components = @ \union {name}], Core,
                       [type |-> "ComponentRegistered", name |-> name])

LaunchDiscovery(st) ==
    register([Discovery__init__(st) EXCEPT !.c.expiring = TRUE], "openflow_discovery")

LaunchConnectionArbiter(st) ==
    IF hasComponent(st, "openflow") THEN st
    ELSE LET arbiter == register(st, "OpenFlowConnectionArbiter")
         IN  register(listenTo(arbiter, "nexus", Core, Unspecified), "openflow")

LaunchOf01(st) ==
    IF hasComponent(st, "of_01") THEN st ELSE register(st, "of_01")

LaunchL2Multi(st) ==
    LET found == IF hasComponent(st, "openflow_discovery") THEN st ELSE LaunchDiscovery(st)
        nexus == Attribute(found, "openflow")
    IN  Then(nexus,
          LET first == listenTo(nexus, "l2_multi", OpenFlow, Priority(0))
          IN  register(listenTo(first, "l2_multi", OpenFlowDiscovery, Unspecified), "l2_multi"))

LaunchSpanningTree(st) ==
    LET found == Attribute(st, "openflow_discovery")
    IN  Then(found, [found EXCEPT !.c.handlers =
            addListener(@, OpenFlowDiscovery, "LinkEvent", <<"spanning_tree", "LinkEvent">>, FALSE, Unspecified)])

LaunchHostTracker(st) ==
    register(listenTo([st EXCEPT !.c.checking = TRUE], "host_tracker", Core, Unspecified), "host_tracker")

launch(st, name) ==
    CASE name = "openflow.discovery" -> LaunchDiscovery(st)
      [] name = "openflow.connection_arbiter" -> LaunchConnectionArbiter(st)
      [] name = "openflow.of_01" -> LaunchOf01(st)
      [] name = "forwarding.l2_multi" -> LaunchL2Multi(st)
      [] name = "openflow.spanning_tree" -> LaunchSpanningTree(st)
      [] name = "host_tracker" -> LaunchHostTracker(st)

Components == {"openflow.discovery", "openflow.connection_arbiter", "openflow.of_01",
               "forwarding.l2_multi", "openflow.spanning_tree", "host_tracker"}

(* pre_startup runs while the arguments are read, before any launch.       *)
pre_startup(st, cmd) ==
    IF cmd.openflow THEN LaunchConnectionArbiter(st) ELSE st

(* One round of doLaunch's loop; ok says that main goes on.  None of the   *)
(* modelled components accepts several instances.                          *)
doImport(name) == name \in Components
doLaunch(st, cmd, i) ==
    LET name == cmd.order[i]
        single == Cardinality({j \in DOMAIN cmd.order : cmd.order[j] = name}) = 1
        after == IF doImport(name) /\ single THEN launch(st, name) ELSE st
    IN  [st |-> after, ok |-> doImport(name) /\ single /\ ~after.raised]

post_startup(st, cmd) == IF cmd.openflow THEN LaunchOf01(st) ELSE st

(* goUp lets exceptions through, so main ends on one.                      *)
goUp(st) ==
    LET going == raiseEvent(st, Core, [type |-> "GoingUpEvent"])
    IN  Then(going, raiseEvent(going, Core, [type |-> "UpEvent"]))

(* quit has the scheduler stopped between the two events, so nothing but   *)
(* the listeners of DownEvent runs any more.                               *)
quit(st) ==
    LET going == raiseEvent(st, Core, [type |-> "GoingDownEvent"])
    IN  Then(going, raiseEvent(going, Core, [type |-> "DownEvent"]))
================================================================================
