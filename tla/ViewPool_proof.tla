--------------------------- MODULE ViewPool_proof ---------------------------
(***************************************************************************)
(* The pool of views keeps its promises for any set of players and views.  *)
(***************************************************************************)
EXTENDS ViewPool, Naturals, TLAPS

PoolInv == TypeOK /\ Exclusive /\ WorkConserving

\* A departure with players waiting hands the view to the head of the queue;
\* what is left of the queue is a queue without that player.
LEMMA TailOfQueue ==
  ASSUME TypeOK, Exclusive, queue # <<>>
  PROVE  /\ Head(queue) \in Players
         /\ Tail(queue) \in Seq(Players)
         /\ \A i \in DOMAIN Tail(queue) :
              i + 1 \in DOMAIN queue /\ Tail(queue)[i] = queue[i + 1]
         /\ \A i \in DOMAIN Tail(queue) : Tail(queue)[i] # Head(queue)
         /\ \A i, j \in DOMAIN Tail(queue) : Tail(queue)[i] = Tail(queue)[j] => i = j
  <1>1. queue \in Seq(Players) /\ Len(queue) \in Nat /\ Len(queue) # 0 /\ DOMAIN queue = 1..Len(queue)
    BY DEF TypeOK
  <1>2. /\ Head(queue) = queue[1] /\ 1 \in DOMAIN queue
        /\ Tail(queue) \in Seq(Players)
        /\ Len(Tail(queue)) = Len(queue) - 1
        /\ DOMAIN Tail(queue) = 1..(Len(queue) - 1)
    BY <1>1
  <1>3. \A i \in DOMAIN Tail(queue) :
          i \in Nat /\ i + 1 \in DOMAIN queue /\ i + 1 # 1 /\ Tail(queue)[i] = queue[i + 1]
    BY <1>1, <1>2
  <1>4. QED BY <1>1, <1>2, <1>3 DEF Exclusive

LEMMA ArriveKeepsInv ==
  ASSUME PoolAssumption, PoolInv, NEW p \in Players, Arrive(p)
  PROVE  PoolInv'
  <1> USE DEF PoolInv, TypeOK, Exclusive, WorkConserving, PoolAssumption
  <1>1. p \notin Holders /\ p \notin Waiting
    BY DEF Arrive
  <1>2. ASSUME NEW v \in Views, holder[v] = None, queue' = queue,
               holder' = [holder EXCEPT ![v] = p]
        PROVE  PoolInv'
    <2>1. \A w \in Views : holder[w] # p
      BY <1>1 DEF Holders
    <2>2. Holders' = Holders \cup {p}
      BY <1>2 DEF Holders
    <2>3. FreeViews' \subseteq FreeViews
      BY <1>2 DEF FreeViews
    <2>4. QED BY <1>1, <1>2, <2>1, <2>2, <2>3 DEF Waiting
  <1>3. ASSUME FreeViews = {}, queue' = Append(queue, p), holder' = holder
        PROVE  PoolInv'
    <2>1. /\ queue' \in Seq(Players)
          /\ DOMAIN queue = 1..Len(queue) /\ Len(queue) \in Nat
          /\ DOMAIN queue' = 1..(Len(queue) + 1)
          /\ queue'[Len(queue) + 1] = p
          /\ \A i \in DOMAIN queue : queue'[i] = queue[i]
      BY <1>3
    <2>2. \A i \in DOMAIN queue : queue[i] # p
      BY <1>1 DEF Waiting
    <2>3. \A i, j \in DOMAIN queue' : queue'[i] = queue'[j] => i = j
      BY <2>1, <2>2
    <2>4. Waiting' = Waiting \cup {p}
      BY <2>1 DEF Waiting
    <2>5. Holders' = Holders /\ FreeViews' = {}
      BY <1>3 DEF Holders, FreeViews
    <2>6. QED BY <1>1, <1>3, <2>1, <2>3, <2>4, <2>5
  <1>4. QED BY <1>2, <1>3 DEF Arrive, FreeViews

LEMMA DepartKeepsInv ==
  ASSUME PoolAssumption, PoolInv, NEW p \in Players, Depart(p)
  PROVE  PoolInv'
  <1> USE DEF PoolInv, TypeOK, Exclusive, WorkConserving, PoolAssumption
  <1>1. PICK v \in Views :
          /\ holder[v] = p
          /\ \/ /\ queue = <<>>
                /\ holder' = [holder EXCEPT ![v] = None]
                /\ queue' = queue
             \/ /\ queue # <<>>
                /\ holder' = [holder EXCEPT ![v] = Head(queue)]
                /\ queue' = Tail(queue)
    BY DEF Depart
  <1>2. CASE queue = <<>>
    <2>1. holder' = [holder EXCEPT ![v] = None] /\ queue' = queue /\ queue' = <<>>
      BY <1>1, <1>2
    <2>2. DOMAIN queue' = {} /\ Waiting' = {}
      BY <2>1 DEF Waiting
    <2>3. QED BY <1>1, <2>1, <2>2
  <1>3. CASE queue # <<>>
    <2> DEFINE q == Head(queue)
    <2>1. holder' = [holder EXCEPT ![v] = q] /\ queue' = Tail(queue)
      BY <1>1, <1>3
    <2>2. /\ q \in Players
          /\ queue' \in Seq(Players)
          /\ \A i \in DOMAIN queue' : i + 1 \in DOMAIN queue /\ queue'[i] = queue[i + 1]
          /\ \A i \in DOMAIN queue' : queue'[i] # q
          /\ \A i, j \in DOMAIN queue' : queue'[i] = queue'[j] => i = j
      BY <1>3, <2>1, TailOfQueue
    <2>3. q \in Waiting
      <3>1. queue \in Seq(Players) /\ 1 \in DOMAIN queue /\ q = queue[1]
        BY <1>3
      <3>2. QED BY <3>1 DEF Waiting
    <2>4. \A w \in Views : holder[w] # q
      BY <2>2, <2>3 DEF Holders
    <2>5. Holders' \subseteq Holders \cup {q}
      BY <2>1 DEF Holders
    <2>6. Waiting' \subseteq Waiting /\ q \notin Waiting'
      BY <2>2 DEF Waiting
    <2>7. FreeViews' \subseteq FreeViews /\ FreeViews = {}
      BY <1>3, <2>1, <2>2 DEF FreeViews
    <2> HIDE DEF q
    <2>8. QED BY <2>1, <2>2, <2>4, <2>5, <2>6, <2>7
  <1>4. QED BY <1>2, <1>3

\* FCFSViewScheduler's promise, for every set of players and of views: a view
\* is never shared, a player never holds two or holds one while waiting, and
\* no view idles while a player waits.
THEOREM PoolCorrect ==
  ASSUME PoolAssumption
  PROVE  Spec => [](TypeOK /\ Exclusive /\ WorkConserving)
  <1>1. Init => PoolInv
    BY DEF Init, PoolInv, TypeOK, Exclusive, WorkConserving, Waiting, Holders
  <1>2. PoolInv /\ [Next]_poolVars => PoolInv'
    <2> SUFFICES ASSUME PoolInv, [Next]_poolVars PROVE PoolInv'
      OBVIOUS
    <2>1. CASE UNCHANGED poolVars
      BY <2>1 DEF poolVars, PoolInv, TypeOK, Exclusive, WorkConserving, Waiting, Holders, FreeViews
    <2>2. CASE Next
      BY <2>2, PoolAssumption, ArriveKeepsInv, DepartKeepsInv DEF Next
    <2>3. QED BY <2>1, <2>2
  <1>3. QED BY <1>1, <1>2, PTL DEF Spec, PoolInv
=============================================================================
