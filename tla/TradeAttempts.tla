---------------------------- MODULE TradeAttempts ----------------------------
(***************************************************************************)
(* What the live executor promises about one trading opportunity after     *)
(* another, whatever the broker, the connection and the database do: an    *)
(* opportunity is taken up once, is held at most once, is over for good    *)
(* when it is over, and no other opportunity is taken up meanwhile.        *)
(***************************************************************************)
EXTENDS Naturals

CONSTANT MaxAttempts   \* bound: opportunities that are ever taken up

VARIABLE fate          \* what has become of each opportunity

Attempts == 1..MaxAttempts

Fates == {"unused", "trying", "held", "done"}

Init == fate = [a \in Attempts |-> "unused"]

\* An opportunity is taken up when every earlier one is over. It may be over
\* in the same step: refused at once, or simulated from entry to settlement.
Begin(a) ==
  /\ fate[a] = "unused"
  /\ \A b \in Attempts : fate[b] = IF b < a THEN "done" ELSE "unused"
  /\ \E f \in Fates \ {"unused"} : fate' = [fate EXCEPT ![a] = f]

Hold(a) ==
  /\ fate[a] = "trying"
  /\ fate' = [fate EXCEPT ![a] = "held"]

Finish(a) ==
  /\ fate[a] \in {"trying", "held"}
  /\ fate' = [fate EXCEPT ![a] = "done"]

Next == \E a \in Attempts : Begin(a) \/ Hold(a) \/ Finish(a)

Spec == Init /\ [][Next]_fate
===============================================================================
