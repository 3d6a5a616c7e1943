------------------------------ MODULE ViewPool ------------------------------
(****************************************************************************)
(* What FCFSViewScheduler promises, without threads, players' receivers or  *)
(* drawing: "Available views will be allocated in a first-come-first-served *)
(* principle", a player without a view waits in a queue, and a view that    *)
(* becomes available goes to the player at the head of it.                  *)
(****************************************************************************)
EXTENDS Sequences

CONSTANTS
  Players,
  Views,
  None       (* no player *)

PoolAssumption == None \notin Players

VARIABLES
  holder,    (* holder[v]: the player view v is allocated to, or None *)
  queue      (* the waiting players, first come first                 *)

poolVars == <<holder, queue>>

FreeViews == {v \in Views : holder[v] = None}
Waiting   == {queue[i] : i \in DOMAIN queue}
Holders   == {holder[v] : v \in Views} \ {None}

Init ==
  /\ holder = [v \in Views |-> None]
  /\ queue = <<>>

Arrive(p) ==
  /\ p \notin Holders \cup Waiting
  /\ \/ \E v \in FreeViews : holder' = [holder EXCEPT ![v] = p] /\ UNCHANGED queue
     \/ FreeViews = {} /\ queue' = Append(queue, p) /\ UNCHANGED holder

Depart(p) ==
  \E v \in Views :
    /\ holder[v] = p
    /\ \/ /\ queue = <<>>
          /\ holder' = [holder EXCEPT ![v] = None]
          /\ UNCHANGED queue
       \/ /\ queue # <<>>
          /\ holder' = [holder EXCEPT ![v] = Head(queue)]
          /\ queue' = Tail(queue)

Next == \E p \in Players : Arrive(p) \/ Depart(p)

Spec == Init /\ [][Next]_poolVars

-----------------------------------------------------------------------------

TypeOK ==
  /\ holder \in [Views -> Players \cup {None}]
  /\ queue \in Seq(Players)

\* A player holds at most one view, and a waiting player holds none and waits
\* once.
Exclusive ==
  /\ \A v, w \in Views : (holder[v] = holder[w] /\ holder[v] # None) => v = w
  /\ \A i, j \in DOMAIN queue : queue[i] = queue[j] => i = j
  /\ Waiting \cap Holders = {}

\* No view idles while a player waits.
WorkConserving == queue # <<>> => FreeViews = {}
=============================================================================
