------------------------------- MODULE App12 -------------------------------
(***************************************************************************)
(* The three managers of app12.cpp, for TLC.                               *)
(***************************************************************************)
EXTENDS EventRouter

App12Order == <<"ManagerA", "ManagerB", "ManagerC">>

App12Types == {"STATUS", "CONTROL", "ERROR", "SERIAL"}

App12WillConsume == [m \in {"ManagerA", "ManagerB", "ManagerC"} |->
                       CASE m = "ManagerA" -> {"CONTROL", "SERIAL"}
                         [] m = "ManagerB" -> {"SERIAL"}
                         [] m = "ManagerC" -> {"STATUS"}]

(***************************************************************************)
(* ManagerA alternates: its event number n is created with counter = n-1.  *)
(***************************************************************************)
App12EventType(m, n) == CASE m = "ManagerA" -> (IF (n - 1) % 2 = 0 THEN "STATUS" ELSE "SERIAL")
                          [] m = "ManagerB" -> "SERIAL"
                          [] m = "ManagerC" -> "CONTROL"

(***************************************************************************)
(* Bounds: with a queue of two, ManagerA sends both types and may drop an  *)
(* event; one event each of the others to interleave with.                 *)
(***************************************************************************)
App12MaxEvents == [m \in {"ManagerA", "ManagerB", "ManagerC"} |-> IF m = "ManagerA" THEN 3 ELSE 1]
=============================================================================
