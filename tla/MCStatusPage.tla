----------------------------- MODULE MCStatusPage -----------------------------
(* A spec that runs in every cycle and flips at once, one that runs in     *)
(* every second cycle, and a disabled one, read in this order.             *)
EXTENDS StatusPage

CONSTANTS often, seldom, never

pageConf == [active |-> TRUE, everyCycles |-> 1, failure |-> 1, success |-> 1,
             timeout |-> 1, hash |-> 0, mail |-> FALSE]

PageSpecs == {often, seldom, never}
PageConf  == [s \in PageSpecs |->
                CASE s = often  -> pageConf
                  [] s = seldom -> [pageConf EXCEPT !.everyCycles = 2]
                  [] s = never  -> [pageConf EXCEPT !.active = FALSE]]
PageOrder == <<often, never, seldom>>
===============================================================================
