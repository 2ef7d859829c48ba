-------------------------------- MODULE Revent --------------------------------
(***************************************************************************)
(* The event library every POX component is wired with (lib/revent): who   *)
(* listens to whom, in which order the listeners of an event are called,   *)
(* and what their return values and exceptions do to the rest of the list. *)
(*                                                                         *)
(* A source of events is a pair <<class, number>>; a handler is a pair     *)
(* <<sink, event>>, because sinks bind methods named _handle_<Event>.  No  *)
(* component registers a handler twice for one event of one source, so the *)
(* event ID of a listener is the handler itself.                           *)
(*                                                                         *)
(* The operators work on a "call state" st: the controller's state st.c,   *)
(* the network's state st.n, and how the running call ends: st.rv is its   *)
(* return value and st.raised tells that it left by an exception.  st.p is *)
(* what the properties remember of the past.                               *)
(***************************************************************************)
EXTENDS Naturals, Sequences, FiniteSets, TLC

Core == <<"core", 0>>
OpenFlow == <<"openflow", 0>>
OpenFlowDiscovery == <<"openflow_discovery", 0>>
Con(k) == <<"con", k>>              \* k numbers the Connection objects

(* _eventMixin_events of the sources, as far as somebody listens to them.  *)
EventsOf == [core |-> {"UpEvent", "DownEvent", "GoingUpEvent", "GoingDownEvent", "ComponentRegistered"},
             openflow |-> {"ConnectionUp", "ConnectionDown", "PortStatus", "PacketIn"},
             openflow_discovery |-> {"LinkEvent"},
             con |-> {"ConnectionUp", "ConnectionDown", "PortStatus", "PacketIn"}]

(* The _handle_ methods of the sinks.  That l2_multi's Switch listens to   *)
(* ConnectionDown of its connection has no effect: the event is raised on  *)
(* the nexus only.                                                         *)
MethodsOf == [nexus |-> {"DownEvent"},
              discovery |-> {"ComponentRegistered", "ConnectionUp", "ConnectionDown", "PortStatus", "PacketIn"},
              l2_multi |-> {"LinkEvent", "ConnectionUp"},
              l2_switch |-> {"PacketIn", "ConnectionDown"},
              host_tracker |-> {"GoingUpEvent", "PacketIn"}]

(* Return values of handlers; a handler that returns nothing continues.    *)
EventReturn(halt, remove) == <<halt, remove>>
EventContinue == EventReturn(FALSE, FALSE)
EventHalt == EventReturn(TRUE, FALSE)
EventRemove == EventReturn(FALSE, TRUE)

Continue(st) == [st EXCEPT !.rv = EventContinue]
Returns(st, rv) == [st EXCEPT !.rv = rv]
Raises(st) == [st EXCEPT !.raised = TRUE]

HandlersOf(handlers, src, type) ==
    IF <<src, type>> \in DOMAIN handlers THEN handlers[<<src, type>>] ELSE <<>>

(* priority: a number, or Unspecified, which sorts below every number; a   *)
(* list is kept in descending order and equal priorities keep their order. *)
Unspecified == 0
Priority(n) == n + 1

addListener(handlers, src, type, handler, once, priority) ==
    LET hs == HandlersOf(handlers, src, type)
        entry == [priority |-> priority, handler |-> handler, once |-> once]
    IN  (<<src, type>> :>
           SelectSeq(hs, LAMBDA e : e.priority >= priority) \o <<entry>> \o
           SelectSeq(hs, LAMBDA e : e.priority < priority)) @@ handlers

removeListeners(handlers, src) == [k \in {h \in DOMAIN handlers : h[1] # src} |-> handlers[k]]
removeListener(handlers, src, handler) ==
    [k \in DOMAIN handlers |->
        IF k[1] = src THEN SelectSeq(handlers[k], LAMBDA e : e.handler # handler) ELSE handlers[k]]

(* Every _handle_ method of the sink whose event the source declares.      *)
autoBindEvents(handlers, sink, src, priority) ==
    LET bound == MethodsOf[sink] \cap EventsOf[src[1]]
    IN  [k \in DOMAIN handlers \union {<<src, e>> : e \in bound} |->
            IF k[1] = src /\ k[2] \in bound
            THEN addListener(handlers, src, k[2], <<sink, k[2]>>, FALSE, priority)[k]
            ELSE handlers[k]]

listenTo(st, sink, src, priority) ==
    [st EXCEPT !.c.handlers = autoBindEvents(@, sink, src, priority)]

(* F(x), with x evaluated once however often F mentions it.                *)
Apply(F(_), x) == CHOOSE r \in {F(y) : y \in {x}} : TRUE

(* for item in items: st = F(st, item)                                     *)
Each(F(_, _), st, items) ==
    LET After[i \in 0 .. Len(items)] ==
            IF i = 0 THEN st ELSE Apply(LAMBDA before : F(before, items[i]), After[i - 1])
    IN  After[Len(items)]

(* What components ask of core before they are wired.                     *)
hasComponent(st, name) == name \in st.c.components

(* core.<name>, which raises AttributeError for an unregistered component. *)
Attribute(st, name) == IF hasComponent(st, name) THEN st ELSE Raises(st)

(* Statements in sequence: what follows an exception is not executed.      *)
Then(st, after) == IF st.raised THEN st ELSE after
===============================================================================
