-------------------------------- MODULE MCEddie --------------------------------
(* One spec with both scripts and mails. It fails after two failed checks  *)
(* and recovers at once; a cycle and one more check fit in the interval.   *)
EXTENDS Eddie

EddieConf == [web |-> [active |-> TRUE, everyCycles |-> 0, failure |-> 2, success |-> 0,
                       timeout |-> 1, hash |-> 0, mail |-> TRUE]]

EddieSpecs   == DOMAIN EddieConf
EddieScripts == EddieSpecs \X {"failure", "recovery"}
===============================================================================
