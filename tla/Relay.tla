-------------------------------- MODULE Relay --------------------------------
(***************************************************************************)
(* What an IDG client promises its server.  Every item of the index is     *)
(* fetched from its source storage and forwarded to its destination at     *)
(* most once, nothing is forwarded that was not fetched, and the session   *)
(* is called complete only when everything has been forwarded -- or when   *)
(* there is no server left to tell.                                        *)
(***************************************************************************)
EXTENDS Integers, Functions

CONSTANTS Client, Storage,
          Request,   \* Request[c][i][j]: items to move from i to j
          MTU        \* items forwarded in one step, at most

VARIABLES fetched,    \* fetched[c][i]: items received from source i
          held,       \* held[c][j]: items waiting for destination j
          forwarded,  \* forwarded[c][j]: items sent to destination j
          serverUp,   \* the server of c can be told
          outcome

vars == <<fetched, held, forwarded, serverUp, outcome>>

OnConn(v) == [c \in Client |-> [s \in Storage |-> v]]

FromSource(c, i) ==
  SumFunctionOnSet([j \in Storage |-> Request[c][i][j]], Storage)

ForDestination(c, j) ==
  SumFunctionOnSet([i \in Storage |-> Request[c][i][j]], Storage)

Init ==
  /\ fetched = OnConn(0)
  /\ held = OnConn(0)
  /\ forwarded = OnConn(0)
  /\ serverUp = [c \in Client |-> TRUE]
  /\ outcome = [c \in Client |-> "none"]

Fetch(c, i, j, n) ==
  /\ outcome[c] = "none"
  /\ n \in 1 .. MTU
  /\ fetched[c][i] + n <= FromSource(c, i)
  /\ fetched' = [fetched EXCEPT ![c][i] = @ + n]
  /\ held' = [held EXCEPT ![c][j] = @ + n]
  /\ UNCHANGED <<forwarded, serverUp, outcome>>

Forward(c, j, n) ==
  /\ outcome[c] = "none"
  /\ n \in 1 .. MTU
  /\ n <= held[c][j]
  /\ forwarded[c][j] + n <= ForDestination(c, j)
  /\ held' = [held EXCEPT ![c][j] = @ - n]
  /\ forwarded' = [forwarded EXCEPT ![c][j] = @ + n]
  /\ UNCHANGED <<fetched, serverUp, outcome>>

(* A failed send loses the chunk it was sending.                           *)
Lose(c, j, n) ==
  /\ outcome[c] = "none"
  /\ n \in 1 .. MTU
  /\ n <= held[c][j]
  /\ held' = [held EXCEPT ![c][j] = @ - n]
  /\ UNCHANGED <<fetched, forwarded, serverUp, outcome>>

Clear(f, c) == [f EXCEPT ![c] = [s \in Storage |-> 0]]

(* The server can be told "complete" only when every item was forwarded.   *)
End(c, result) ==
  /\ outcome[c] = "none"
  /\ result = "complete" /\ serverUp[c] =>
        \A j \in Storage : forwarded[c][j] = ForDestination(c, j)
  /\ outcome' = [outcome EXCEPT ![c] = result]
  /\ fetched' = Clear(fetched, c)
  /\ held' = Clear(held, c)
  /\ forwarded' = Clear(forwarded, c)

EndSession(c) ==
  /\ \E result \in {"complete", "error"} : End(c, result)
  /\ UNCHANGED serverUp

Killed(c) ==
  /\ outcome[c] = "none"
  /\ outcome' = [outcome EXCEPT ![c] = "killed"]
  /\ serverUp' \in {serverUp, [serverUp EXCEPT ![c] = FALSE]}
  /\ fetched' = Clear(fetched, c)
  /\ held' = Clear(held, c)
  /\ forwarded' = Clear(forwarded, c)

ServerLost(c) ==
  /\ outcome[c] = "none"
  /\ serverUp' = [serverUp EXCEPT ![c] = FALSE]
  /\ UNCHANGED <<fetched, held, forwarded, outcome>>

Next ==
  \E c \in Client :
    \/ \E i, j \in Storage, n \in 1 .. MTU : Fetch(c, i, j, n)
    \/ \E j \in Storage, n \in 1 .. MTU : Forward(c, j, n) \/ Lose(c, j, n)
    \/ EndSession(c) \/ Killed(c) \/ ServerLost(c)

Spec == Init /\ [][Next]_vars

=============================================================================
