----------------------------- MODULE PrepaidLedger -----------------------------
(* What a prepaid balance promises, whoever keeps it: an append-only log of     *)
(* movements, each with a key that is used once and the balance it left, and a  *)
(* balance that is the total of the log at every moment.  A commit appends one  *)
(* or more movements to one account.                                            *)
EXTENDS Integers, Sequences

CONSTANT Accounts

VARIABLES
  entries,   \* account -> sequence of [key, amount, after]
  balance    \* account -> the cached total

(* The balance after the first n movements of log, as its last one records it. *)
After(log) == IF log = <<>> THEN 0 ELSE log[Len(log)].after

Continues(log, longer) ==
  /\ Len(log) < Len(longer)
  /\ \A i \in 1 .. Len(log) : longer[i] = log[i]

(* Every movement records the balance before it plus its amount. *)
Chained(log) ==
  \A i \in 1 .. Len(log) :
    log[i].after = log[i].amount + (IF i = 1 THEN 0 ELSE log[i - 1].after)

KeysOnce(log) == \A i, j \in 1 .. Len(log) : log[i].key = log[j].key => i = j

Init ==
  /\ entries = [a \in Accounts |-> <<>>]
  /\ balance = [a \in Accounts |-> 0]

Post(a) ==
  /\ Continues(entries[a], entries'[a])
  /\ Chained(entries'[a])
  /\ KeysOnce(entries'[a])
  /\ entries' = [entries EXCEPT ![a] = entries'[a]]
  /\ balance' = [balance EXCEPT ![a] = After(entries'[a])]

Next == \E a \in Accounts : Post(a)

Spec == Init /\ [][Next]_<<entries, balance>>
================================================================================
