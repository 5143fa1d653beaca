-------------------------- MODULE LinearSequence --------------------------
(***************************************************************************)
(* What CLockFreeStack and CLockFreeQueue promise to the threads that use  *)
(* them: put and get take effect at one moment between call and return,    *)
(* on a sequence from which the last (Lifo) or the first item is taken.    *)
(***************************************************************************)
EXTENDS Integers, Sequences

CONSTANTS Procs, Items, Lifo

VARIABLES seq, state

Init == seq = <<>> /\ state = [t \in Procs |-> <<"idle">>]

CallPut(t) ==
  /\ state[t] = <<"idle">>
  /\ \E v \in Items : state' = [state EXCEPT ![t] = <<"put", v>>]
  /\ UNCHANGED seq

DoPut(t) ==
  /\ state[t][1] = "put"
  /\ seq' = Append(seq, state[t][2])
  /\ state' = [state EXCEPT ![t] = <<"idle">>]

CallGet(t) ==
  /\ state[t] = <<"idle">>
  /\ state' = [state EXCEPT ![t] = <<"get">>]
  /\ UNCHANGED seq

\* never of an empty sequence: the callers see to that
DoGet(t) ==
  /\ state[t] = <<"get">> /\ seq # <<>>
  /\ LET v == IF Lifo THEN seq[Len(seq)] ELSE Head(seq) IN
     state' = [state EXCEPT ![t] = <<"got", v>>]
  /\ seq' = IF Lifo THEN SubSeq(seq, 1, Len(seq) - 1) ELSE Tail(seq)

Return(t) ==
  /\ state[t][1] = "got"
  /\ state' = [state EXCEPT ![t] = <<"idle">>]
  /\ UNCHANGED seq

Next == \E t \in Procs : CallPut(t) \/ DoPut(t) \/ CallGet(t) \/ DoGet(t) \/ Return(t)

Spec == Init /\ [][Next]_<<seq, state>>
=============================================================================
