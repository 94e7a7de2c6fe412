-------------------------------- MODULE MCBot --------------------------------
(***************************************************************************)
(* Instances of BotDialog for TLC: the handlers are interchangeable, and   *)
(* each property of this module's runs is about all of them.               *)
(***************************************************************************)
EXTENDS BotDialog, TLC

Symmetry == Permutations(Handlers)

\* No action reads the history, and once a handler was overlapped the passing run's
\* properties other than TypeOK say nothing of it: such states differ by the rest only.
View == IF overlaps = 0 THEN vars ELSE <<chat, task, dialog, overlaps>>
=============================================================================
