------------------------------ MODULE IperfService ------------------------------
(***************************************************************************)
(* What an iperf3 server promises its clients, without connections and     *)
(* messages: it runs one test at a time; who comes meanwhile may be        *)
(* refused; and a client reports success only if, while its test was the   *)
(* one being run, the results were exchanged.                              *)
(***************************************************************************)
CONSTANTS Clients, None

VARIABLES
  holder,    \* the client whose test is being run
  exchanged, \* the clients whose results have been exchanged
  turned,    \* the clients that have been turned away
  outcome    \* of each client: "", "ok", "denied" or "failed"

serviceVars == <<holder, exchanged, turned, outcome>>

ServiceInit ==
  /\ holder = None /\ exchanged = {} /\ turned = {}
  /\ outcome = [c \in Clients |-> ""]

Admit(c) == holder = None /\ holder' = c /\ UNCHANGED <<exchanged, turned, outcome>>

Exchange(c) ==
  /\ holder = c
  /\ exchanged' = exchanged \cup {c} /\ UNCHANGED <<holder, turned, outcome>>

Release == holder' = None /\ UNCHANGED <<exchanged, turned, outcome>>

TurnAway(c) ==
  /\ holder # None
  /\ turned' = turned \cup {c} /\ UNCHANGED <<holder, exchanged, outcome>>

Ends(c, o) ==
  /\ outcome[c] = ""
  /\ o = "ok" => c \in exchanged
  /\ o = "denied" => c \in turned
  /\ outcome' = [outcome EXCEPT ![c] = o]
  /\ UNCHANGED <<holder, exchanged, turned>>

ServiceNext ==
  \/ Release
  \/ \E c \in Clients :
       \/ Admit(c) \/ Exchange(c) \/ TurnAway(c)
       \/ \E o \in {"ok", "denied", "failed"} : Ends(c, o)

Service == ServiceInit /\ [][ServiceNext]_serviceVars
===============================================================================
