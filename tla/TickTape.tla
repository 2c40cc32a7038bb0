------------------------------- MODULE TickTape -------------------------------
(***************************************************************************)
(* What a reader of recorded ticks relies on, replay first of all: the     *)
(* ticks of a symbol are a tape that only grows at its end and only loses  *)
(* ticks at its beginning, and only those that are too old to be kept.     *)
(***************************************************************************)
EXTENDS Integers, Sequences

CONSTANTS Symbols, Ticks

VARIABLES
  tape,   \* for each symbol the ticks a reader finds, oldest first
  expired \* ticks that are too old to be kept

vars == <<tape, expired>>

Init == tape = [s \in Symbols |-> <<>>] /\ expired = {}

\* A tick is recorded, not older than the one before it. The one before it may
\* be recorded again: a new subscription begins with the last known tick.
Record ==
  /\ \E s \in Symbols, t \in Ticks :
       /\ tape[s] # <<>> => tape[s][Len(tape[s])] <= t
       /\ tape' = [tape EXCEPT ![s] = Append(@, t)]
  /\ UNCHANGED expired

\* Ticks are removed from the beginning.
Prune ==
  /\ DOMAIN tape' = Symbols
  /\ \A s \in Symbols : \E n \in 0..Len(tape[s]) :
       /\ \A i \in 1..n : tape[s][i] \in expired
       /\ tape'[s] = SubSeq(tape[s], n + 1, Len(tape[s]))
  /\ UNCHANGED expired

Age == expired \subseteq expired' /\ UNCHANGED tape

Next == Age \/ Record \/ Prune

Spec == Init /\ [][Next]_vars
===============================================================================
