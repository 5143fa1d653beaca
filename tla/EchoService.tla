---------------------------- MODULE EchoService ----------------------------
(***************************************************************************)
(* What each of the three servers promises its clients, whatever threads,  *)
(* locks and buffers it serves them with.  A connection is served once,    *)
(* beside a limited number of others.  What goes back on it is packet      *)
(* First, First + 1, ... : each message that arrived is echoed in its      *)
(* turn, once, and never before it arrived.  The server ends a connection  *)
(* only when there is a reason: the client left, or somebody asked for it; *)
(* and nothing goes out on it afterwards.                                  *)
(***************************************************************************)
EXTENDS Integers, Sequences, FiniteSets

CONSTANTS
  Conns,     \* connections
  MaxServed, \* connections served at a time
  First      \* 0 where a login packet comes before the echoes, otherwise 1

VARIABLES
  status,    \* of each connection: "new", "served" or "gone"
  ending,    \* is there a reason to end it?
  arrived,   \* messages the server received
  echoed     \* packets the client received

vars == <<status, ending, arrived, echoed>>

Served == {c \in Conns : status[c] = "served"}

Init ==
  /\ status = [c \in Conns |-> "new"] /\ ending = [c \in Conns |-> FALSE]
  /\ arrived = [c \in Conns |-> 0] /\ echoed = [c \in Conns |-> <<>>]

Accept(c) ==
  /\ status[c] = "new" /\ Cardinality(Served) < MaxServed
  /\ status' = [status EXCEPT ![c] = "served"]
  /\ UNCHANGED <<ending, arrived, echoed>>

Arrive(c, n) ==
  /\ c \in Served /\ n \in Nat \ {0}
  /\ arrived' = [arrived EXCEPT ![c] = @ + n]
  /\ UNCHANGED <<status, ending, echoed>>

\* the next n packets
Echo(c, n) ==
  LET next == First + Len(echoed[c]) IN
  /\ c \in Served /\ n \in Nat \ {0} /\ next + n - 1 <= arrived[c]
  /\ echoed' = [echoed EXCEPT ![c] = @ \o [i \in 1 .. n |-> next + i - 1]]
  /\ UNCHANGED <<status, ending, arrived>>

AskEnd(c) ==
  /\ c \in Served
  /\ ending' = [ending EXCEPT ![c] = TRUE]
  /\ UNCHANGED <<status, arrived, echoed>>

End(c) ==
  /\ c \in Served /\ ending[c]
  /\ status' = [status EXCEPT ![c] = "gone"]
  /\ UNCHANGED <<ending, arrived, echoed>>

\* a reason for all of them: the server is stopped
AskAll ==
  /\ ending' = [c \in Conns |-> TRUE]
  /\ UNCHANGED <<status, arrived, echoed>>

\* how many at a time is read off the next state
Next ==
  AskAll \/ \E c \in Conns :
    \/ Accept(c) \/ AskEnd(c) \/ End(c)
    \/ Arrive(c, arrived'[c] - arrived[c])
    \/ Echo(c, Len(echoed'[c]) - Len(echoed[c]))

Spec == Init /\ [][Next]_vars
=============================================================================
