----------------------------- MODULE MCNotifier -----------------------------
(* One test, then two, in lives in which different things may happen.       *)
EXTENDS CallbackNotifier

CONSTANTS t1, t2, plain

MCTests == {t1, t2, plain}
MCWithCallback == {t1, t2}
MCLives ==
  {[tests |-> {t1}, may |-> {"stop", "drop"}],
   [tests |-> {t1}, may |-> {"stop", "cancel"}],
   [tests |-> {t1, t2}, may |-> {"drop"}],
   [tests |-> {plain}, may |-> {"drop", "cancel"}]}
=============================================================================
