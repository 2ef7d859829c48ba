------------------------------ MODULE ReventRaise ------------------------------
(***************************************************************************)
(* lib/revent, raising: what raiseEvent does with the listeners that       *)
(* Revent registered.                                                      *)
(***************************************************************************)
EXTENDS Revent

CONSTANT Invoke(_, _, _)   \* Invoke(st, handler, ev): the call of one listener

(* The listeners are called in the order of the list as it was when the    *)
(* event was raised; one that raises or halts keeps the others from being  *)
(* called.                                                                 *)
CallListener(before, src, entry, ev) ==
    IF before.raised \/ before.rv[1] THEN before
    ELSE LET end(called) ==
                 IF ~called.raised /\ (entry.once \/ called.rv[2])
                 THEN [called EXCEPT !.c.handlers = removeListener(@, src, entry.handler)]
                 ELSE called
         IN  Apply(end, Invoke(Continue(before), entry.handler, ev))

raiseEvent(st, src, ev) ==
    LET run(begin) == Continue(Each(LAMBDA before, entry : CallListener(before, src, entry, ev),
                                    Continue(begin), HandlersOf(begin.c.handlers, src, ev.type)))
    IN  Apply(run, st)

raiseEventNoErrors(st, src, ev) ==
    [raiseEvent(st, src, ev) EXCEPT !.raised = FALSE]
================================================================================
