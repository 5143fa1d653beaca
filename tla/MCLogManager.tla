---------------------------- MODULE MCLogManager ----------------------------
(***************************************************************************)
(* LogManager on a small instance.                                         *)
(***************************************************************************)
EXTENDS LogManager

CONSTANTS t1, t2, net, none, c, d

TwoThreads == {t1, t2}
OneTag     == {net}
TwoDirs    == {c, d}

\* a line that makes the buffer grow, and a dump of one byte that makes it
\* grow once more; both fit when the buffer has grown
SomeMessages ==
  { [kind |-> "log", len |-> 4, bytes |-> 0], [kind |-> "hex", len |-> 1, bytes |-> 1] }
TwoLevels == {LEVEL_DEBUG, LEVEL_SYSTEM}
=============================================================================
