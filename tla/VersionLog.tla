----------------------------- MODULE VersionLog -----------------------------
(***************************************************************************)
(* What the versions of a knowledge item promise, whoever writes them: a   *)
(* log per item that only grows, by the number after the current one, with *)
(* at most one entry the item does not point at yet.  Knowledge implements *)
(* it (the substitution is there).                                         *)
(***************************************************************************)
EXTENDS Naturals

CONSTANT Items

VARIABLES
  log,      \* log[i]: the version numbers stored for item i
  pointer   \* pointer[i]: the version item i calls current (0: no such item)

logVars == <<log, pointer>>

Init ==
  /\ log = [i \in Items |-> {}]
  /\ pointer = [i \in Items |-> 0]

\* The item appears, pointing at a first version that is still to be stored.
Open(i) ==
  /\ pointer[i] = 0
  /\ pointer' = [pointer EXCEPT ![i] = 1]
  /\ UNCHANGED log

First(i) ==
  /\ pointer[i] = 1 /\ log[i] = {}
  /\ log' = [log EXCEPT ![i] = {1}]
  /\ UNCHANGED pointer

\* A writer gets the next number only when no other version is on its way.
Append(i) ==
  /\ pointer[i] > 0 /\ log[i] = 1 .. pointer[i]
  /\ log' = [log EXCEPT ![i] = @ \cup {pointer[i] + 1}]
  /\ UNCHANGED pointer

Point(i) ==
  /\ log[i] = 1 .. pointer[i] + 1
  /\ pointer' = [pointer EXCEPT ![i] = @ + 1]
  /\ UNCHANGED log

Next == \E i \in Items : Open(i) \/ First(i) \/ Append(i) \/ Point(i)

Spec == Init /\ [][Next]_logVars
=============================================================================
