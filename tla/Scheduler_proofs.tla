-------------------------- MODULE Scheduler_proofs --------------------------
(***************************************************************************)
(* Proofs about the scheduler, for any number of tasks and priorities,     *)
(* every slice and delay, and every set of calls; and about the event      *)
(* control block on top of it, for any number of readers, any bits, reads, *)
(* writes and time limits.                                                 *)
(***************************************************************************)
EXTENDS Event, PendList_proofs

(***************************************************************************)
(* The ready queues hold the tasks of the set ready, each once and in the  *)
(* queue of its priority pr.                                               *)
(***************************************************************************)
QueuesHold(queues, ready, pr) ==
  /\ queues \in [Priorities -> Seq(Tasks)]
  /\ \A p \in Priorities : /\ IsInjective(queues[p])
                           /\ ToSet(queues[p]) = {t \in ready : pr[t] = p}

\* OsSchedTaskEnQueue, of tasks that are in no queue.
LEMMA EnQueuedHold ==
  ASSUME NEW queues, NEW ready, NEW pr \in [Tasks -> Priorities],
         QueuesHold(queues, ready, pr), timeSlice \in [Tasks -> Int],
         NEW ts \in Seq(Tasks), IsInjective(ts), ToSet(ts) \cap ready = {}
  PROVE  QueuesHold(EnQueued(queues, ts, pr), ready \cup ToSet(ts), pr)
<1> DEFINE front(p) == Only(ts, {t \in Tasks : pr[t] = p /\ timeSlice[t] > 0})
           back(p) == Only(ts, {t \in Tasks : pr[t] = p /\ timeSlice[t] <= 0})
           mid(p) == Reverse(front(p)) \o queues[p]
<1>0. ToSet(ts) \subseteq Tasks
  BY EmptyMembers
<1>1. ASSUME NEW p \in Priorities
      PROVE  /\ mid(p) \o back(p) \in Seq(Tasks)
             /\ IsInjective(mid(p) \o back(p))
             /\ ToSet(mid(p) \o back(p)) = {t \in ready \cup ToSet(ts) : pr[t] = p}
  <2> DEFINE q == queues[p]
             f == front(p)
             b == back(p)
             F == ToSet(ts) \cap {t \in Tasks : pr[t] = p /\ timeSlice[t] > 0}
             B == ToSet(ts) \cap {t \in Tasks : pr[t] = p /\ timeSlice[t] <= 0}
             Q == {t \in ready : pr[t] = p}
  <2>1. q \in Seq(Tasks) /\ IsInjective(q) /\ ToSet(q) = Q
    BY <1>1 DEF QueuesHold
  <2>2. f \in Seq(Tasks) /\ IsInjective(f) /\ ToSet(f) = F
    BY OnlyMembers
  <2>3. b \in Seq(Tasks) /\ IsInjective(b) /\ ToSet(b) = B
    BY OnlyMembers
  <2> HIDE DEF f, b, q
  <2>4. Reverse(f) \in Seq(Tasks) /\ IsInjective(Reverse(f)) /\ ToSet(Reverse(f)) = F
    BY <2>2, ReverseMembers
  <2>5. F \cap Q = {} /\ B \cap Q = {} /\ F \cap B = {}
    <3>1. \A t \in Tasks : ~(timeSlice[t] > 0 /\ timeSlice[t] <= 0)
      OBVIOUS
    <3> QED
      BY <3>1, <1>0
  <2> HIDE DEF F, B, Q
  <2>6. /\ Reverse(f) \o q \in Seq(Tasks) /\ IsInjective(Reverse(f) \o q)
        /\ ToSet(Reverse(f) \o q) = F \cup Q
    BY <2>1, <2>4, <2>5, ConcatMembers
  <2> DEFINE h == Reverse(f) \o q
  <2> HIDE DEF h
  <2>7. /\ h \o b \in Seq(Tasks)
        /\ IsInjective(h \o b)
        /\ ToSet(h \o b) = (F \cup Q) \cup B
    <3>1. h \in Seq(Tasks) /\ IsInjective(h) /\ ToSet(h) = F \cup Q
      BY <2>6 DEF h
    <3>2. ToSet(h) \cap ToSet(b) = {}
      BY <2>5, <2>3, <3>1
    <3>3. ToSet(h \o b) = ToSet(h) \cup ToSet(b)
      BY <2>3, <3>1, ConcatMembers
    <3>4. h \o b \in Seq(Tasks) /\ IsInjective(h \o b)
      BY <2>3, <3>1, <3>2, ConcatMembers
    <3> QED
      BY <2>3, <3>1, <3>3, <3>4
  <2>8. (F \cup Q) \cup B = {t \in ready \cup ToSet(ts) : pr[t] = p}
    <3>1. \A t \in Tasks : timeSlice[t] > 0 \/ timeSlice[t] <= 0
      OBVIOUS
    <3>2. F \cup B = {t \in ToSet(ts) : pr[t] = p}
      <4>1. ASSUME NEW t \in ToSet(ts) PROVE t \in F \cup B <=> pr[t] = p
        <5>1. t \in Tasks
          BY <1>0
        <5> QED
          BY <3>1, <5>1 DEF F, B
      <4>2. F \cup B \subseteq ToSet(ts)
        BY DEF F, B
      <4> QED
        BY <4>1, <4>2
    <3> QED
      BY <3>2 DEF Q
  <2> QED
    BY <2>7, <2>8 DEF f, b, q, h
<1>2. EnQueued(queues, ts, pr) = [p \in Priorities |-> mid(p) \o back(p)]
  BY DEF EnQueued
<1> HIDE DEF mid, back, front
<1> QED
  BY <1>1, <1>2 DEF QueuesHold

\* OsSchedTaskDeQueue.
LEMMA DeQueuedHold ==
  ASSUME NEW queues, NEW ready, NEW pr, QueuesHold(queues, ready, pr), NEW t
  PROVE  QueuesHold(DeQueued(queues, t), ready \ {t}, pr)
<1>1. ASSUME NEW p \in Priorities
      PROVE  /\ Without(queues[p], t) \in Seq(Tasks)
             /\ IsInjective(Without(queues[p], t))
             /\ ToSet(Without(queues[p], t)) = {u \in ready \ {t} : pr[u] = p}
  <2>1. /\ queues[p] \in Seq(Tasks) /\ IsInjective(queues[p])
        /\ ToSet(queues[p]) = {u \in ready : pr[u] = p}
    BY <1>1 DEF QueuesHold
  <2>2. /\ Without(queues[p], t) \in Seq(Tasks)
        /\ IsInjective(Without(queues[p], t))
        /\ ToSet(Without(queues[p], t)) = ToSet(queues[p]) \ {t}
    BY <2>1, LeaveMembers DEF Without
  <2> QED
    BY <2>1, <2>2
<1>2. DeQueued(queues, t) = [p \in Priorities |-> Without(queues[p], t)]
  BY DEF DeQueued
<1> QED
  BY <1>1, <1>2 DEF QueuesHold

\* The priority of a task that is in no queue changes nothing in the queues.
LEMMA RepriorHold ==
  ASSUME NEW queues, NEW ready, NEW pr, QueuesHold(queues, ready, pr),
         ready \subseteq Tasks, pr \in [Tasks -> Priorities], NEW t \in Tasks \ ready, NEW p
  PROVE  QueuesHold(queues, ready, [pr EXCEPT ![t] = p])
<1>1. \A u \in ready : [pr EXCEPT ![t] = p][u] = pr[u]
  OBVIOUS
<1> QED
  BY <1>1 DEF QueuesHold

\* OsGetTopTask finds a strongest of the tasks in the queues.
LEMMA TopTaskStrongest ==
  ASSUME NEW queues, NEW ready \in SUBSET Tasks, NEW pr \in [Tasks -> Priorities],
         QueuesHold(queues, ready, pr)
  PROVE  /\ ready = {} => TopTask(queues) = Idle
         /\ ready # {} => /\ TopTask(queues) \in ready
                          /\ \A u \in ready : pr[TopTask(queues)] <= pr[u]
<1> DEFINE nonEmpty == {p \in Priorities : queues[p] # <<>>}
           m == Min(nonEmpty)
<1>1. ASSUME NEW p \in Priorities
      PROVE  /\ queues[p] \in Seq(Tasks) /\ IsInjective(queues[p])
             /\ ToSet(queues[p]) = {t \in ready : pr[t] = p}
             /\ queues[p] = <<>> <=> ToSet(queues[p]) = {}
  <2>1. /\ queues[p] \in Seq(Tasks) /\ IsInjective(queues[p])
        /\ ToSet(queues[p]) = {t \in ready : pr[t] = p}
    BY DEF QueuesHold
  <2> QED
    BY <2>1, EmptyMembers
<1>2. nonEmpty = {p \in Priorities : \E t \in ready : pr[t] = p}
  <2>1. \A p \in Priorities : queues[p] = <<>> <=> {t \in ready : pr[t] = p} = {}
    BY <1>1
  <2>2. \A p \in Priorities : {t \in ready : pr[t] = p} = {} <=> ~\E t \in ready : pr[t] = p
    OBVIOUS
  <2> QED
    BY <2>1, <2>2, Zenon
<1>3. TopTask(queues) = IF nonEmpty = {} THEN Idle ELSE Head(queues[m])
  BY DEF TopTask
<1> HIDE DEF nonEmpty, m
<1>4. CASE ready = {}
  BY <1>2, <1>3, <1>4
<1>5. CASE ready # {}
  <2>1. nonEmpty # {} /\ nonEmpty \in SUBSET Nat
    BY <1>2, <1>5, SchedulerAssumption
  <2>2. m \in nonEmpty /\ \A p \in nonEmpty : m <= p
    BY <2>1, LeastNatural DEF m
  <2>3. m \in Priorities /\ queues[m] # <<>>
    BY <2>2 DEF nonEmpty
  <2>4. queues[m] \in Seq(Tasks) /\ IsInjective(queues[m])
    BY <1>1, <2>3
  <2>5. Head(queues[m]) \in ToSet(queues[m])
    BY <2>3, <2>4, TailMembers
  <2>6. Head(queues[m]) \in ready /\ pr[Head(queues[m])] = m
    BY <1>1, <2>3, <2>5
  <2>7. \A u \in ready : pr[u] \in nonEmpty
    BY <1>2
  <2> QED
    BY <1>3, <1>5, <2>1, <2>2, <2>6, <2>7
<1> QED
  BY <1>4, <1>5

-----------------------------------------------------------------------------
Nodes == [task : Tasks, left : Int]

Sorted(link) == \A i, j \in DOMAIN link : i < j => link[i].left <= link[j].left

(***************************************************************************)
(* The timer list holds the timed waits of the tasks of the set ts, one of *)
(* each, the soonest first.                                                *)
(***************************************************************************)
LinkHolds(link, ts) ==
  /\ link \in Seq(Nodes)
  /\ IsInjective(Sleepers(link))
  /\ ToSet(Sleepers(link)) = ts
  /\ Sorted(link)

LEMMA SleepersType ==
  ASSUME NEW link \in Seq(Nodes)
  PROVE  /\ Len(link) \in Nat /\ DOMAIN link = 1..Len(link)
         /\ Sleepers(link) \in Seq(Tasks)
         /\ DOMAIN Sleepers(link) = DOMAIN link
         /\ \A i \in DOMAIN link : /\ Sleepers(link)[i] = link[i].task
                                   /\ link[i] \in Nodes /\ link[i].left \in Int
                                   /\ link[i].task \in Tasks
<1>1. Len(link) \in Nat /\ DOMAIN link = 1..Len(link)
  BY LenProperties
<1>2. \A i \in DOMAIN link : link[i] \in Nodes
  BY <1>1, ElementOfSeq
<1>3. \A i \in DOMAIN link : link[i].left \in Int /\ link[i].task \in Tasks
  BY <1>2 DEF Nodes
<1>4. Sleepers(link) = [i \in 1..Len(link) |-> link[i].task]
  BY <1>1 DEF Sleepers
<1> QED
  BY <1>1, <1>2, <1>3, <1>4

\* OsAddNode2SortLink.
LEMMA LinkedHold ==
  ASSUME NEW link, NEW ts, LinkHolds(link, ts), NEW node \in Nodes, node.task \notin ts
  PROVE  /\ LinkHolds(Linked(link, node), ts \cup {node.task})
         /\ \A i \in DOMAIN Linked(link, node) :
              Linked(link, node)[i] = node \/ \E j \in DOMAIN link : Linked(link, node)[i] = link[j]
<1> DEFINE r == Linked(link, node)
           n == Len(link)
<1>0. /\ link \in Seq(Nodes) /\ IsInjective(Sleepers(link))
      /\ ToSet(Sleepers(link)) = ts /\ Sorted(link)
  BY DEF LinkHolds
<1>1. /\ n \in Nat /\ DOMAIN link = 1..n
      /\ \A i \in 1..n : link[i].left \in Int /\ link[i].task \in Tasks
      /\ Sleepers(link) \in Seq(Tasks)
      /\ DOMAIN Sleepers(link) = 1..n
      /\ \A i \in 1..n : Sleepers(link)[i] = link[i].task
  BY <1>0, SleepersType
<1>2. node.left \in Int /\ node.task \in Tasks
  BY DEF Nodes
<1>3. \A i, j \in 1..n : i < j => link[i].left <= link[j].left
  BY <1>0, <1>1 DEF Sorted
<1>4. \A x \in Nodes : x.left \in Int
  BY DEF Nodes
<1>5. /\ r \in Seq(Nodes) /\ DOMAIN r = 1..(n + 1)
      /\ \E k \in 1..(n + 1) : \A i \in 1..(n + 1) :
           \/ i < k /\ i \in 1..n /\ r[i] = link[i]
           \/ i = k /\ r[i] = node
           \/ i > k /\ i - 1 \in 1..n /\ r[i] = link[i - 1]
      /\ \A i, j \in DOMAIN r : i < j => r[i].left <= r[j].left
  <2>1. \A i, j \in DOMAIN link : i < j => link[i].left <= link[j].left
    BY <1>1, <1>3
  <2> QED
    BY <1>0, <1>4, <2>1, LinkedPlace
<1> HIDE DEF r
<1>6. PICK k \in 1..(n + 1) : \A i \in 1..(n + 1) :
        \/ i < k /\ i \in 1..n /\ r[i] = link[i]
        \/ i = k /\ r[i] = node
        \/ i > k /\ i - 1 \in 1..n /\ r[i] = link[i - 1]
  BY <1>5
<1>7. r \in Seq(Nodes) /\ DOMAIN r = 1..(n + 1)
  BY <1>5
<1>8. \A i \in 1..(n + 1) :
        \/ i < k /\ i \in 1..n /\ r[i] = link[i]
        \/ i = k /\ r[i] = node
        \/ i > k /\ i - 1 \in 1..n /\ r[i] = link[i - 1]
  BY <1>6
<1>9. /\ Sleepers(r) \in Seq(Tasks) /\ DOMAIN Sleepers(r) = 1..(n + 1)
      /\ \A i \in 1..(n + 1) : Sleepers(r)[i] = r[i].task
  BY <1>7, SleepersType
<1>10. \A i \in 1..n : link[i].task \in ts
  BY <1>0, <1>1 DEF ToSet
<1>11. IsInjective(Sleepers(r))
  <2> SUFFICES ASSUME NEW i \in 1..(n + 1), NEW j \in 1..(n + 1), r[i].task = r[j].task
               PROVE  i = j
    BY <1>9 DEF IsInjective
  <2>1. \A a, b \in 1..n : link[a].task = link[b].task => a = b
    BY <1>0, <1>1 DEF IsInjective
  <2>2. \A a \in 1..n : link[a].task # node.task
    BY <1>10
  <2>3. i = k \/ i < k \/ i > k
    BY <1>8
  <2>4. CASE i = k
    BY <2>4, <2>2, <1>8
  <2>5. CASE i < k
    <3>1. i \in 1..n /\ r[i] = link[i]
      BY <2>5, <1>8, <1>1, <1>6
    <3>2. j = k \/ (j < k /\ j \in 1..n /\ r[j] = link[j]) \/ (j > k /\ j - 1 \in 1..n /\ r[j] = link[j - 1])
      BY <1>8
    <3>3. j # k
      BY <3>1, <2>2, <1>8
    <3>4. j > k => i = j - 1
      BY <3>1, <3>2, <2>1, <1>1, <1>6
    <3> QED
      BY <3>1, <3>2, <3>3, <3>4, <2>1, <2>5, <1>1, <1>6
  <2>6. CASE i > k
    <3>1. i - 1 \in 1..n /\ r[i] = link[i - 1]
      BY <2>6, <1>8, <1>1, <1>6
    <3>2. j = k \/ (j < k /\ j \in 1..n /\ r[j] = link[j]) \/ (j > k /\ j - 1 \in 1..n /\ r[j] = link[j - 1])
      BY <1>8
    <3>3. j # k
      BY <3>1, <2>2, <1>8
    <3>4. j < k => i - 1 = j
      BY <3>1, <3>2, <2>1, <1>1, <1>6
    <3>5. j > k => i - 1 = j - 1
      BY <3>1, <3>2, <2>1, <1>1, <1>6
    <3> QED
      BY <3>2, <3>3, <3>4, <3>5, <2>6, <1>1, <1>6
  <2> QED
    BY <2>3, <2>4, <2>5, <2>6
<1>12. ToSet(Sleepers(r)) = ts \cup {node.task}
  <2>1. ASSUME NEW i \in 1..(n + 1) PROVE r[i].task \in ts \cup {node.task}
    BY <1>8, <1>10
  <2>2. ASSUME NEW x \in ts PROVE \E i \in 1..(n + 1) : x = r[i].task
    <3>1. PICK i \in 1..n : x = link[i].task
      BY <1>0, <1>1, <2>2 DEF ToSet
    <3>2. CASE i < k
      <4>1. i \in 1..(n + 1) /\ r[i] = link[i]
        BY <3>2, <1>1, <1>8
      <4> QED
        BY <3>1, <4>1
    <3>3. CASE ~(i < k)
      <4>1. i + 1 \in 1..(n + 1) /\ ~(i + 1 < k) /\ i + 1 # k /\ (i + 1) - 1 = i
        BY <3>3, <1>1, <1>6
      <4>2. r[i + 1] = link[i]
        BY <4>1, <1>8
      <4> QED
        BY <3>1, <4>1, <4>2
    <3> QED
      BY <3>2, <3>3
  <2>3. k \in 1..(n + 1) /\ r[k] = node
    BY <1>6, <1>8, <1>1
  <2>4. ToSet(Sleepers(r)) = {r[i].task : i \in 1..(n + 1)}
    BY <1>9 DEF ToSet
  <2> QED
    BY <2>1, <2>2, <2>3, <2>4
<1>13. Sorted(r)
  BY <1>5 DEF Sorted
<1>14. \A i \in DOMAIN r : r[i] = node \/ \E j \in DOMAIN link : r[i] = link[j]
  BY <1>1, <1>7, <1>8
<1> QED
  BY <1>7, <1>11, <1>12, <1>13, <1>14 DEF LinkHolds, r

\* OsDeleteSortLink, of the waits of the tasks gone.
LEMMA UnlinkedHold ==
  ASSUME NEW link, NEW ts, LinkHolds(link, ts), NEW gone
  PROVE  /\ LinkHolds(Unlinked(link, gone), ts \ gone)
         /\ \A i \in DOMAIN Unlinked(link, gone) :
              \E j \in DOMAIN link : /\ Unlinked(link, gone)[i] = link[j]
                                     /\ link[j].task \notin gone
<1> DEFINE K == {i \in DOMAIN link : link[i].task \notin gone}
           r == KeepAt(link, K)
<1>0. /\ link \in Seq(Nodes) /\ IsInjective(Sleepers(link))
      /\ ToSet(Sleepers(link)) = ts /\ Sorted(link)
  BY DEF LinkHolds
<1>1. /\ Len(link) \in Nat /\ DOMAIN link = 1..Len(link)
      /\ Sleepers(link) \in Seq(Tasks) /\ DOMAIN Sleepers(link) = DOMAIN link
      /\ \A i \in DOMAIN link : Sleepers(link)[i] = link[i].task
  BY <1>0, SleepersType
<1>2. K \in SUBSET DOMAIN link /\ Unlinked(link, gone) = r
  BY DEF Unlinked
<1>3. /\ r \in Seq(Nodes) /\ Len(r) = Cardinality(K)
      /\ \A k \in DOMAIN r : \E i \in K : r[k] = link[i]
  BY <1>0, <1>2, KeepAtElements
<1>4. Cardinality(K) \in Nat /\ DOMAIN r = 1..Cardinality(K)
  BY <1>3, LenProperties
<1>5. Sleepers(r) = Leave(Sleepers(link), gone)
  <2> DEFINE at(k) == CHOOSE i \in K : Rank(K, i) = k
  <2>1. K = {i \in DOMAIN Sleepers(link) : Sleepers(link)[i] \notin gone}
    BY <1>1
  <2>2. Leave(Sleepers(link), gone) = KeepAt(Sleepers(link), K)
    BY <2>1 DEF Leave
  <2>3. KeepAt(Sleepers(link), K) = [k \in 1..Cardinality(K) |-> Sleepers(link)[at(k)]]
    BY DEF KeepAt
  <2>4. \A k \in 1..Cardinality(K) : r[k] = link[at(k)]
    BY DEF KeepAt
  <2>5. \A k \in 1..Cardinality(K) : at(k) \in K
    <3>1. \A k \in 1..Cardinality(K) : \E i \in K : Rank(K, i) = k
      BY <1>1, <1>2, RankNumbers
    <3> QED
      BY <3>1
  <2>6. Sleepers(r) = [k \in 1..Cardinality(K) |-> r[k].task]
    BY <1>4 DEF Sleepers
  <2> HIDE DEF at, r, K
  <2>7. \A k \in 1..Cardinality(K) : r[k].task = Sleepers(link)[at(k)]
    BY <2>4, <2>5, <1>1, <1>2
  <2> QED
    BY <2>2, <2>3, <2>6, <2>7
<1>6. IsInjective(Sleepers(r)) /\ ToSet(Sleepers(r)) = ts \ gone
  <2> DEFINE sl == Sleepers(link)
  <2> HIDE DEF r, sl
  <2>1. sl \in Seq(Tasks) /\ IsInjective(sl) /\ ToSet(sl) = ts
    BY <1>0, <1>1 DEF sl
  <2>2. IsInjective(Leave(sl, gone)) /\ ToSet(Leave(sl, gone)) = ToSet(sl) \ gone
    BY <2>1, LeaveMembers
  <2> QED
    BY <2>1, <2>2, <1>5 DEF sl
<1>7. Sorted(r)
  <2> SUFFICES ASSUME NEW k \in DOMAIN r, NEW l \in DOMAIN r, k < l
               PROVE  r[k].left <= r[l].left
    BY DEF Sorted
  <2> HIDE DEF K
  <2>1. PICK i \in K, j \in K : i < j /\ r[k] = link[i] /\ r[l] = link[j]
    BY <1>0, <1>2, KeepAtOrder
  <2> QED
    BY <1>0, <1>2, <2>1 DEF Sorted
<1>8. \A k \in DOMAIN r : \E j \in DOMAIN link : r[k] = link[j] /\ link[j].task \notin gone
  BY <1>3
<1> HIDE DEF r
<1> QED
  BY <1>2, <1>3, <1>6, <1>7, <1>8 DEF LinkHolds

\* A tick brings all the waits nearer to their end by the same amount.
LEMMA TickLeftHold ==
  ASSUME NEW link, NEW ts, LinkHolds(link, ts)
  PROVE  /\ LinkHolds(TickLeft(link), ts)
         /\ DOMAIN TickLeft(link) = DOMAIN link
         /\ \A i \in DOMAIN link : /\ TickLeft(link)[i].left = link[i].left - 1
                                   /\ TickLeft(link)[i].task = link[i].task
<1> DEFINE r == TickLeft(link)
<1>0. /\ link \in Seq(Nodes) /\ IsInjective(Sleepers(link))
      /\ ToSet(Sleepers(link)) = ts /\ Sorted(link)
  BY DEF LinkHolds
<1>1. /\ Len(link) \in Nat /\ DOMAIN link = 1..Len(link)
      /\ \A i \in DOMAIN link : /\ link[i] \in Nodes /\ link[i].left \in Int
                                /\ link[i].task \in Tasks
  BY <1>0, SleepersType
<1>2. r = [i \in 1..Len(link) |-> [link[i] EXCEPT !.left = @ - 1]]
  BY <1>1 DEF TickLeft
<1>3. ASSUME NEW i \in 1..Len(link)
      PROVE  r[i].task = link[i].task /\ r[i].left = link[i].left - 1 /\ r[i] \in Nodes
  <2> DEFINE x == [link[i] EXCEPT !.left = @ - 1]
  <2>1. link[i] \in Nodes /\ link[i].left \in Int
    BY <1>1
  <2>2. x.task = link[i].task /\ x.left = link[i].left - 1 /\ x \in Nodes
    BY <2>1 DEF Nodes
  <2>3. r[i] = x
    BY <1>2
  <2> HIDE DEF x
  <2> QED
    BY <2>2, <2>3
<1>4. \A i \in 1..Len(link) : r[i].task = link[i].task /\ r[i].left = link[i].left - 1
  BY <1>3
<1>5. \A i \in 1..Len(link) : r[i] \in Nodes
  BY <1>3
<1>6. DOMAIN r = 1..Len(link) /\ r \in [1..Len(link) -> Nodes]
  BY <1>2, <1>5
<1> HIDE DEF r
<1>7. r \in Seq(Nodes)
  BY <1>1, <1>6
<1>8. Sleepers(r) = Sleepers(link)
  <2>1. \A i \in 1..Len(link) : r[i].task = link[i].task
    BY <1>4
  <2> QED
    BY <1>1, <1>6, <2>1 DEF Sleepers
<1>9. Sorted(r)
  <2> SUFFICES ASSUME NEW i \in DOMAIN r, NEW j \in DOMAIN r, i < j
               PROVE  r[i].left <= r[j].left
    BY DEF Sorted
  <2>1. link[i].left <= link[j].left /\ link[i].left \in Int /\ link[j].left \in Int
    BY <1>0, <1>1, <1>6 DEF Sorted
  <2>2. r[i].left = link[i].left - 1 /\ r[j].left = link[j].left - 1
    BY <1>4, <1>6
  <2> QED
    BY <2>1, <2>2
<1>10. \A i \in DOMAIN link : r[i].left = link[i].left - 1 /\ r[i].task = link[i].task
  BY <1>1, <1>4
<1> QED
  BY <1>0, <1>1, <1>6, <1>7, <1>8, <1>9, <1>10 DEF LinkHolds, r

\* OsGetSortLinkNextExpireTime looks at the soonest of the waits.
LEMMA NextExpireSoonest ==
  ASSUME NEW link, NEW ts, LinkHolds(link, ts)
  PROVE  /\ NextExpireTime(link) \in Nat
         /\ NextExpireTime(link) = FAR - 1 \/ link # <<>>
         /\ \A i \in DOMAIN link : /\ link[i].left \in Int
                                   /\ link[i].left >= 0 => NextExpireTime(link) <= link[i].left
                                   /\ link[i].left < 0 => NextExpireTime(link) = 0
<1>0. link \in Seq(Nodes) /\ Sorted(link)
  BY DEF LinkHolds
<1>1. /\ Len(link) \in Nat /\ DOMAIN link = 1..Len(link)
      /\ \A i \in DOMAIN link : link[i].left \in Int
  BY <1>0, SleepersType
<1>2. \A n \in Int : Max({0, n}) = IF n >= 0 THEN n ELSE 0
  BY DEF Max
<1>3. FAR - 1 \in Nat
  BY SchedulerAssumption DEF FAR
<1>4. CASE link = <<>>
  BY <1>3, <1>4 DEF NextExpireTime
<1>5. CASE link # <<>>
  <2>1. 1 \in DOMAIN link /\ Head(link) = link[1]
    BY <1>0, <1>1, <1>5
  <2>2. NextExpireTime(link) = Max({0, link[1].left})
    BY <1>5, <2>1 DEF NextExpireTime
  <2>3. NextExpireTime(link) = IF link[1].left >= 0 THEN link[1].left ELSE 0
    BY <1>1, <1>2, <2>1, <2>2
  <2>4. \A i \in DOMAIN link : link[1].left <= link[i].left
    BY <1>0, <1>1, <2>1 DEF Sorted
  <2> QED
    BY <1>1, <1>5, <2>1, <2>3, <2>4
<1> QED
  BY <1>4, <1>5

-----------------------------------------------------------------------------
(***************************************************************************)
(* The inductive invariant.                                                *)
(***************************************************************************)
Bits == {"SUSPEND", "READY", "PEND", "RUNNING", "DELAY", "TIMEOUT", "PEND_TIME"}

Typed ==
  /\ taskStatus \in [AllTasks -> SUBSET Bits]
  /\ priority \in [Tasks -> Priorities]
  /\ timeSlice \in [Tasks -> Nat]
  /\ waitTimes \in [Tasks -> Nat]
  /\ pc \in [Tasks -> {"code", "schedule"}]
  /\ runTask \in AllTasks
  /\ g_losTaskLock \in Nat
  /\ swPending \in BOOLEAN
  /\ g_schedResponseTime \in Nat \ {0}

ReadySet == {t \in Tasks : Has(t, "READY")}
Asleep == {t \in Tasks : Timed(t) /\ t # runTask}

\* Each list holds the tasks whose bits say so.
ListsInv ==
  /\ QueuesHold(g_priQueueList, ReadySet, priority)
  /\ LinkHolds(g_taskSortLink, Asleep)

(***************************************************************************)
(* Nothing holds a READY task back, and the task that runs and may not go  *)
(* on is about to be switched away: a switch is due, and not locked out.   *)
(* If it waits with a limit, the limit is still to be linked.  It is READY *)
(* only if a handler resumed it while the software interrupt was pending,  *)
(* and that interrupt then ends in the assertion of OsSchedTaskEnQueue.    *)
(***************************************************************************)
StatusInv ==
  /\ \A t \in Tasks : Has(t, "READY") => StillReady(t)
  /\ \A t \in AllTasks : Has(t, "RUNNING") <=> t = runTask
  /\ \A t \in Tasks : Has(t, "PEND_TIME") => Has(t, "PEND")
  /\ StillReady(Idle)
  /\ Has(runTask, "READY") => swPending
  /\ runTask # Idle /\ ~StillReady(runTask) => g_losTaskLock = 0 /\ SwitchDue
  /\ runTask # Idle /\ Timed(runTask) => waitTimes[runTask] > 0

(***************************************************************************)
(* The tick timer fires before a wait is over, or when it is.  If a tick   *)
(* at the end of a slice left a wait that is over, the next tick scans the *)
(* list.  While the timer is unset the software interrupt is pending, and  *)
(* the switch sets the timer.                                              *)
(***************************************************************************)
TimerInv ==
  \A i \in DOMAIN g_taskSortLink :
    \/ g_taskSortLink[i].left >= g_schedResponseTime
    \/ g_taskSortLink[i].left > 0 /\ g_schedResponseTime = FAR /\ swPending
    \/ /\ g_taskSortLink[i].left = 0
       /\ g_schedResponseTime = 1 /\ g_schedResponseID = OS_INVALID

SchedInv == Typed /\ ListsInv /\ StatusInv /\ TimerInv

-----------------------------------------------------------------------------
(***************************************************************************)
(* Steps that leave parts of the state alone.                              *)
(***************************************************************************)
LEMMA ListsKept ==
  ASSUME ListsInv, UNCHANGED <<taskStatus, priority, g_priQueueList, g_taskSortLink, runTask>>
  PROVE  ListsInv'
<1>1. ReadySet' = ReadySet /\ Asleep' = Asleep
  BY DEF ReadySet, Asleep, Has, Timed
<1> QED
  BY <1>1 DEF ListsInv

LEMMA TimerKept ==
  ASSUME TimerInv, swPending => swPending',
         UNCHANGED <<g_taskSortLink, g_schedResponseTime, g_schedResponseID>>
  PROVE  TimerInv'
  BY DEF TimerInv

\* The task that goes on with its code is held back by nothing, and in no queue.
LEMMA InTaskReady ==
  ASSUME Typed, StatusInv, InTask
  PROVE  /\ runTask \in Tasks /\ StillReady(runTask) /\ ~Has(runTask, "READY")
         /\ ~swPending /\ runTask # Idle /\ Idle \notin Tasks
  BY SchedulerAssumption DEF Typed, StatusInv, InTask, SwitchDue, AllTasks

LEMMA ScheduleKeeps ==
  ASSUME SchedInv, LOS_Schedule
  PROVE  SchedInv'
<1>1. Typed'
  BY DEF SchedInv, Typed, LOS_Schedule, queueVars, timerVars
<1>2. ListsInv'
  BY ListsKept DEF SchedInv, LOS_Schedule, queueVars, timerVars
<1>3. TimerInv'
  BY TimerKept DEF SchedInv, LOS_Schedule, timerVars
<1>4. StatusInv'
  BY DEF SchedInv, StatusInv, LOS_Schedule, queueVars, timerVars, SwitchDue,
         StillReady, Timed, Has, Typed
<1> QED
  BY <1>1, <1>2, <1>3, <1>4 DEF SchedInv

LEMMA YieldKeeps ==
  ASSUME SchedInv, LOS_TaskYield
  PROVE  SchedInv'
<1>0. Typed /\ StatusInv /\ runTask \in Tasks
  BY InTaskReady DEF SchedInv, LOS_TaskYield
<1>1. Typed'
  BY <1>0 DEF Typed, LOS_TaskYield, WillSchedule, timerVars
<1>2. ListsInv'
  BY ListsKept DEF SchedInv, LOS_TaskYield, timerVars
<1>3. TimerInv'
  BY TimerKept DEF SchedInv, LOS_TaskYield, WillSchedule, timerVars
<1>4. StatusInv'
  BY <1>0 DEF StatusInv, LOS_TaskYield, WillSchedule, timerVars, SwitchDue,
              StillReady, Timed, Has, Typed
<1> QED
  BY <1>1, <1>2, <1>3, <1>4 DEF SchedInv

LEMMA LockKeeps ==
  ASSUME SchedInv, LOS_TaskLock \/ LOS_TaskUnlock
  PROVE  SchedInv'
<1>0. Typed /\ StatusInv /\ InTask
  BY DEF SchedInv, LOS_TaskLock, LOS_TaskUnlock
<1>1. runTask \in Tasks /\ StillReady(runTask) /\ ~Has(runTask, "READY")
  BY <1>0, InTaskReady
<1>2. /\ UNCHANGED <<queueVars, timerVars, runTask>>
      /\ g_losTaskLock' \in Nat
      /\ pc' \in [Tasks -> {"code", "schedule"}] /\ swPending' = swPending
  BY <1>0 DEF LOS_TaskLock, LOS_TaskUnlock, WillSchedule, Typed
<1>3. Typed'
  BY <1>0, <1>2 DEF Typed, queueVars, timerVars
<1>4. ListsInv'
  BY <1>2, ListsKept DEF SchedInv, queueVars, timerVars
<1>5. TimerInv'
  BY <1>2, TimerKept DEF SchedInv, timerVars
<1>6. StatusInv'
  BY <1>0, <1>1, <1>2 DEF StatusInv, queueVars, timerVars, SwitchDue, StillReady, Timed, Has
<1> QED
  BY <1>3, <1>4, <1>5, <1>6 DEF SchedInv

LEMMA DelayKeeps ==
  ASSUME SchedInv, NEW ticks \in Delays, LOS_TaskDelay(ticks)
  PROVE  SchedInv'
<1>0. Typed /\ StatusInv /\ InTask /\ ticks \in Nat \ {0}
  BY SchedulerAssumption DEF SchedInv, LOS_TaskDelay
<1>1. /\ runTask \in Tasks /\ StillReady(runTask) /\ ~Has(runTask, "READY")
      /\ runTask # Idle /\ ~swPending
  BY <1>0, InTaskReady
<1>2. /\ taskStatus' = [taskStatus EXCEPT ![runTask] = @ \cup {"DELAY"}]
      /\ waitTimes' = [waitTimes EXCEPT ![runTask] = ticks]
      /\ pc' = [pc EXCEPT ![runTask] = "schedule"] /\ swPending' = swPending
      /\ g_losTaskLock = 0
      /\ UNCHANGED <<priority, timeSlice, g_priQueueList, g_taskSortLink, runTask,
                     g_losTaskLock, g_schedResponseTime, g_schedResponseID>>
  BY DEF LOS_TaskDelay, WillSchedule
<1>3. Typed'
  BY <1>0, <1>1, <1>2 DEF Typed, AllTasks, Bits
<1>4. /\ \A t \in AllTasks \ {runTask} : taskStatus'[t] = taskStatus[t]
      /\ taskStatus'[runTask] = taskStatus[runTask] \cup {"DELAY"}
  BY <1>0, <1>2 DEF Typed
<1>5. ReadySet' = ReadySet /\ Asleep' = Asleep
  BY <1>1, <1>2, <1>4 DEF ReadySet, Asleep, Has, Timed, AllTasks
<1>6. ListsInv'
  BY <1>2, <1>5 DEF SchedInv, ListsInv
<1>7. TimerInv'
  BY <1>2, TimerKept DEF SchedInv
<1>8. StatusInv'
  <2>1. \A t \in Tasks : Has(t, "READY")' => t # runTask /\ taskStatus'[t] = taskStatus[t]
    BY <1>1, <1>4 DEF Has, AllTasks
  <2>2. \A t \in Tasks : (Has(t, "READY") => StillReady(t))'
    BY <2>1, <1>0 DEF StatusInv, StillReady, Timed, Has
  <2>3. \A t \in AllTasks : (Has(t, "RUNNING") <=> t = runTask)'
    BY <1>0, <1>2, <1>4 DEF StatusInv, Has
  <2>4. \A t \in Tasks : (Has(t, "PEND_TIME") => Has(t, "PEND"))'
    BY <1>0, <1>2, <1>4 DEF StatusInv, Has, AllTasks
  <2>5. StillReady(Idle)'
    BY <1>0, <1>1, <1>4 DEF StatusInv, StillReady, Timed, Has, AllTasks
  <2>6. (Has(runTask, "READY") => swPending)'
    BY <1>1, <1>2, <1>4 DEF Has
  <2>7. g_losTaskLock' = 0 /\ SwitchDue' /\ waitTimes'[runTask'] > 0
    BY <1>0, <1>1, <1>2 DEF SwitchDue, Typed
  <2> QED
    BY <2>2, <2>3, <2>4, <2>5, <2>6, <2>7 DEF StatusInv
<1> QED
  BY <1>3, <1>6, <1>7, <1>8 DEF SchedInv

\* The end of a call: what is pending stays pending, and a switch that was due, or
\* that the call asks for while the scheduler is not locked, is due.
LEMMA ThenScheduleDue ==
  ASSUME Typed, NEW inHandler \in BOOLEAN, ~inHandler => InTask,
         ThenSchedule(inHandler), runTask' = runTask
  PROVE  /\ pc' \in [Tasks -> {"code", "schedule"}] /\ swPending' \in BOOLEAN
         /\ swPending => swPending'
         /\ g_losTaskLock = 0 => SwitchDue'
         /\ inHandler /\ g_losTaskLock = 0 => swPending'
<1>1. CASE inHandler
  BY <1>1 DEF ThenSchedule, Typed, SwitchDue
<1>2. CASE ~inHandler
  <2>1. runTask \in Tasks /\ runTask # Idle
    BY <1>2 DEF InTask, Typed, AllTasks
  <2>2. pc' = [pc EXCEPT ![runTask] = "schedule"] /\ swPending' = swPending
    BY <1>2 DEF ThenSchedule, WillSchedule
  <2> QED
    BY <1>2, <2>1, <2>2 DEF Typed, SwitchDue
<1> QED
  BY <1>1, <1>2

LEMMA SuspendKeeps ==
  ASSUME SchedInv, NEW t \in Tasks, NEW inHandler \in BOOLEAN, LOS_TaskSuspend(t, inHandler)
  PROVE  SchedInv'
<1>0. Typed /\ StatusInv /\ ListsInv /\ TimerInv /\ Idle \notin Tasks
  BY SchedulerAssumption DEF SchedInv
<1>1. /\ taskStatus' = [taskStatus EXCEPT ![t] = (@ \ {"READY"}) \cup {"SUSPEND"}]
      /\ g_priQueueList' = IF Has(t, "READY") THEN DeQueued(g_priQueueList, t)
                                              ELSE g_priQueueList
      /\ ~inHandler => InTask
      /\ ~(Has(t, "RUNNING") /\ g_losTaskLock # 0)
      /\ IF t = runTask THEN ThenSchedule(inHandler) ELSE UNCHANGED <<pc, swPending>>
      /\ UNCHANGED <<priority, timeSlice, waitTimes, g_taskSortLink, g_schedResponseTime,
                     g_schedResponseID, runTask, g_losTaskLock>>
  BY DEF LOS_TaskSuspend, timerVars
<1>2. /\ \A u \in AllTasks \ {t} : taskStatus'[u] = taskStatus[u]
      /\ taskStatus'[t] = (taskStatus[t] \ {"READY"}) \cup {"SUSPEND"}
      /\ t \in AllTasks /\ Idle \in AllTasks /\ Idle # t
  BY <1>0, <1>1 DEF Typed, AllTasks
<1>3. /\ pc' \in [Tasks -> {"code", "schedule"}] /\ swPending' \in BOOLEAN
      /\ swPending => swPending'
      /\ t = runTask => g_losTaskLock = 0 /\ SwitchDue'
      /\ t # runTask => UNCHANGED <<pc, swPending>>
  <2>1. CASE t = runTask
    <3>1. g_losTaskLock = 0
      BY <1>0, <1>1, <1>2, <2>1 DEF StatusInv
    <3> QED
      BY <1>0, <1>1, <2>1, <3>1, ThenScheduleDue
  <2>2. CASE t # runTask
    BY <1>0, <1>1, <2>2 DEF Typed
  <2> QED
    BY <2>1, <2>2
<1>4. Typed'
  BY <1>0, <1>1, <1>2, <1>3 DEF Typed, Bits
<1>5. ReadySet' = ReadySet \ {t} /\ Asleep' = Asleep
  BY <1>1, <1>2 DEF ReadySet, Asleep, Has, Timed, AllTasks
<1>6. ListsInv'
  <2>1. QueuesHold(g_priQueueList', ReadySet \ {t}, priority)
    <3>1. CASE Has(t, "READY")
      BY <1>0, <1>1, <3>1, DeQueuedHold DEF ListsInv
    <3>2. CASE ~Has(t, "READY")
      <4>1. ReadySet \ {t} = ReadySet
        BY <3>2 DEF ReadySet
      <4> QED
        BY <1>0, <1>1, <3>2, <4>1 DEF ListsInv
    <3> QED
      BY <3>1, <3>2
  <2> QED
    BY <1>0, <1>1, <1>5, <2>1 DEF ListsInv
<1>7. TimerInv'
  BY <1>0, <1>1, <1>3, TimerKept
<1>8. StatusInv'
  <2>1. \A u \in Tasks : Has(u, "READY")' => u # t /\ taskStatus'[u] = taskStatus[u]
    BY <1>2 DEF Has, AllTasks
  <2>2. \A u \in Tasks : (Has(u, "READY") => StillReady(u))'
    BY <2>1, <1>0 DEF StatusInv, StillReady, Timed, Has
  <2>3. \A u \in AllTasks : (Has(u, "RUNNING") <=> u = runTask)'
    BY <1>0, <1>1, <1>2 DEF StatusInv, Has
  <2>4. \A u \in Tasks : (Has(u, "PEND_TIME") => Has(u, "PEND"))'
    BY <1>0, <1>1, <1>2 DEF StatusInv, Has, AllTasks
  <2>5. StillReady(Idle)'
    BY <1>0, <1>2 DEF StatusInv, StillReady, Timed, Has
  <2>6. (Has(runTask, "READY") => swPending)'
    <3>1. runTask \in AllTasks
      BY <1>0 DEF Typed
    <3> QED
      BY <3>1, <1>0, <1>1, <1>2, <1>3 DEF Has, StatusInv
  <2>7. runTask # Idle /\ ~StillReady(runTask)' => g_losTaskLock = 0 /\ SwitchDue'
    <3>1. CASE t = runTask
      BY <1>3, <3>1
    <3>2. CASE t # runTask /\ runTask # Idle
      <4>1. taskStatus'[runTask] = taskStatus[runTask]
        BY <1>0, <1>2, <3>2 DEF Typed
      <4>2. StillReady(runTask)' <=> StillReady(runTask)
        BY <4>1, <1>1 DEF StillReady, Timed, Has
      <4> QED
        BY <4>2, <3>2, <1>0, <1>1, <1>3 DEF StatusInv, SwitchDue
    <3> QED
      BY <3>1, <3>2
  <2>8. runTask # Idle /\ Timed(runTask)' => waitTimes[runTask] > 0
    <3>1. Timed(runTask)' <=> Timed(runTask)
      <4>1. runTask \in AllTasks
        BY <1>0 DEF Typed
      <4> QED
        BY <4>1, <1>1, <1>2 DEF Timed, Has
    <3> QED
      BY <3>1, <1>0 DEF StatusInv
  <2> QED
    BY <1>1, <2>2, <2>3, <2>4, <2>5, <2>6, <2>7, <2>8 DEF StatusInv
<1> QED
  BY <1>4, <1>6, <1>7, <1>8 DEF SchedInv

LEMMA ResumeKeeps ==
  ASSUME SchedInv, NEW t \in Tasks, NEW inHandler \in BOOLEAN, LOS_TaskResume(t, inHandler)
  PROVE  SchedInv'
<1>0. Typed /\ StatusInv /\ ListsInv /\ TimerInv /\ Idle \notin Tasks
  BY SchedulerAssumption DEF SchedInv
<1>1. /\ Has(t, "SUSPEND") /\ (~inHandler => InTask)
      /\ UNCHANGED <<priority, waitTimes, g_taskSortLink, g_schedResponseTime,
                     g_schedResponseID, runTask, g_losTaskLock>>
  BY DEF LOS_TaskResume, timerVars
<1>2. ~StillReady(t) /\ t \in AllTasks /\ Idle \in AllTasks /\ Idle # t
  BY <1>0, <1>1 DEF StillReady, AllTasks
<1>3. ~Has(t, "READY") /\ t \notin ReadySet
  BY <1>0, <1>2 DEF StatusInv, ReadySet
<1>4. t = runTask => inHandler /\ g_losTaskLock = 0 /\ SwitchDue
  <2>1. InTask => t # runTask
    BY <1>0, <1>2, InTaskReady
  <2> QED
    BY <1>0, <1>1, <1>2, <2>1 DEF StatusInv
<1>5. CASE Has(t, "DELAY") \/ Has(t, "PEND")
  <2>1. /\ taskStatus' = [taskStatus EXCEPT ![t] = @ \ {"SUSPEND"}]
        /\ UNCHANGED <<g_priQueueList, timeSlice, pc, swPending>>
    BY <1>5 DEF LOS_TaskResume
  <2>2. /\ \A u \in AllTasks \ {t} : taskStatus'[u] = taskStatus[u]
        /\ taskStatus'[t] = taskStatus[t] \ {"SUSPEND"}
    BY <1>0, <1>2, <2>1 DEF Typed
  <2>3. Typed'
    BY <1>0, <1>1, <2>1 DEF Typed
  <2>4. ReadySet' = ReadySet /\ Asleep' = Asleep
    BY <1>1, <2>2 DEF ReadySet, Asleep, Has, Timed, AllTasks
  <2>5. ListsInv'
    BY <1>0, <1>1, <2>1, <2>4 DEF ListsInv
  <2>6. TimerInv'
    BY <1>0, <1>1, <2>1, TimerKept
  <2>7. StatusInv'
    <3>1. \A u \in AllTasks : StillReady(u)' <=> StillReady(u)
      BY <1>2, <1>5, <2>2 DEF StillReady, Timed, Has
    <3>2. \A u \in AllTasks : /\ Has(u, "READY")' <=> Has(u, "READY")
                              /\ Has(u, "RUNNING")' <=> Has(u, "RUNNING")
                              /\ Has(u, "PEND")' <=> Has(u, "PEND")
                              /\ Has(u, "PEND_TIME")' <=> Has(u, "PEND_TIME")
                              /\ Timed(u)' <=> Timed(u)
      BY <2>2 DEF Has, Timed
    <3>3. runTask \in AllTasks /\ Tasks \subseteq AllTasks
      BY <1>0 DEF Typed, AllTasks
    <3>4. \A u \in AllTasks : u = runTask =>
             /\ ~StillReady(u)' => ~StillReady(u)
             /\ Timed(u)' => Timed(u)
             /\ Has(u, "READY")' => Has(u, "READY")
      BY <3>1, <3>2
    <3>5. SwitchDue' <=> SwitchDue
      BY <1>1, <2>1 DEF SwitchDue
    <3> QED
      BY <1>0, <1>1, <1>2, <2>1, <3>1, <3>2, <3>3, <3>4, <3>5 DEF StatusInv
  <2> QED
    BY <2>3, <2>5, <2>6, <2>7 DEF SchedInv
<1>6. CASE ~(Has(t, "DELAY") \/ Has(t, "PEND"))
  <2>1. /\ taskStatus' = [taskStatus EXCEPT ![t] = MadeReady(@)]
        /\ g_priQueueList' = EnQueued(g_priQueueList, <<t>>, priority)
        /\ timeSlice' = SliceRenewed({t})
        /\ ThenSchedule(inHandler)
    BY <1>6 DEF LOS_TaskResume
  <2>2. /\ \A u \in AllTasks \ {t} : taskStatus'[u] = taskStatus[u]
        /\ taskStatus'[t] = MadeReady(taskStatus[t])
        /\ ~Has(t, "PEND_TIME")
    BY <1>0, <1>2, <1>6, <2>1 DEF Typed, StatusInv
  <2>3. /\ pc' \in [Tasks -> {"code", "schedule"}] /\ swPending' \in BOOLEAN
        /\ swPending => swPending'
        /\ g_losTaskLock = 0 => SwitchDue'
        /\ inHandler /\ g_losTaskLock = 0 => swPending'
    BY <1>0, <1>1, <2>1, ThenScheduleDue
  <2>4. Typed'
    <3>1. timeSlice' \in [Tasks -> Nat]
      BY <1>0, <2>1, SchedulerAssumption DEF Typed, SliceRenewed
    <3>2. taskStatus' \in [AllTasks -> SUBSET Bits]
      BY <1>0, <2>1 DEF Typed, MadeReady, Bits
    <3> QED
      BY <1>0, <1>1, <2>3, <3>1, <3>2 DEF Typed
  <2>5. ReadySet' = ReadySet \cup {t} /\ Asleep' = Asleep
    BY <1>1, <1>6, <2>2 DEF ReadySet, Asleep, Has, Timed, MadeReady, AllTasks
  <2>6. ListsInv'
    <3>1. <<t>> \in Seq(Tasks) /\ ToSet(<<t>>) = {t} /\ IsInjective(<<t>>)
      BY DEF ToSet, IsInjective
    <3>2. timeSlice \in [Tasks -> Int]
      BY <1>0 DEF Typed
    <3>3. QueuesHold(g_priQueueList', ReadySet \cup ToSet(<<t>>), priority)
      <4>1. ToSet(<<t>>) \cap ReadySet = {}
        BY <1>3, <3>1
      <4> QED
        BY <1>0, <2>1, <3>1, <3>2, <4>1, EnQueuedHold DEF ListsInv, Typed
    <3> QED
      BY <1>0, <1>1, <2>5, <3>1, <3>3 DEF ListsInv
  <2>7. TimerInv'
    BY <1>0, <1>1, <2>3, TimerKept
  <2>8. StatusInv'
    <3>1. \A u \in Tasks : (Has(u, "READY") => StillReady(u))'
      BY <1>0, <1>2, <2>2 DEF StatusInv, StillReady, Timed, Has, MadeReady, AllTasks
    <3>2. \A u \in AllTasks : (Has(u, "RUNNING") <=> u = runTask)'
      BY <1>0, <1>1, <2>2 DEF StatusInv, Has, MadeReady
    <3>3. \A u \in Tasks : (Has(u, "PEND_TIME") => Has(u, "PEND"))'
      BY <1>0, <1>1, <2>2 DEF StatusInv, Has, MadeReady, AllTasks
    <3>4. StillReady(Idle)'
      BY <1>0, <1>2, <2>2 DEF StatusInv, StillReady, Timed, Has
    <3>5. CASE t = runTask
      <4>1. swPending' /\ SwitchDue' /\ g_losTaskLock' = 0
        BY <1>1, <1>4, <2>3, <3>5
      <4>2. \A u : u = runTask => ~Timed(u)'
        BY <2>2, <3>5 DEF Timed, Has, MadeReady
      <4>3. \A u : u = runTask' => ~Timed(u)'
        BY <4>2, <1>1
      <4> QED
        BY <3>1, <3>2, <3>3, <3>4, <4>1, <4>3 DEF StatusInv
    <3>6. CASE t # runTask
      <4>1. \A u : u = runTask => /\ StillReady(u)' <=> StillReady(u)
                                  /\ Timed(u)' <=> Timed(u)
                                  /\ Has(u, "READY")' <=> Has(u, "READY")
        BY <1>0, <2>2, <3>6 DEF StillReady, Timed, Has, Typed
      <4>2. SwitchDue /\ g_losTaskLock = 0 => SwitchDue'
        BY <2>3
      <4> QED
        BY <1>0, <1>1, <2>3, <3>1, <3>2, <3>3, <3>4, <4>1, <4>2 DEF StatusInv
    <3> QED
      BY <3>5, <3>6
  <2> QED
    BY <2>4, <2>6, <2>7, <2>8 DEF SchedInv
<1> QED
  BY <1>5, <1>6

LEMMA PriSetKeeps ==
  ASSUME SchedInv, NEW t \in Tasks, NEW p \in Priorities, LOS_TaskPriSet(t, p)
  PROVE  SchedInv'
<1>0. Typed /\ StatusInv /\ ListsInv /\ TimerInv /\ Idle \notin Tasks /\ InTask
  BY SchedulerAssumption DEF SchedInv, LOS_TaskPriSet
<1>1. /\ runTask \in Tasks /\ StillReady(runTask) /\ ~Has(runTask, "READY")
  BY <1>0, InTaskReady
<1>2. /\ priority' = [priority EXCEPT ![t] = p]
      /\ UNCHANGED <<taskStatus, waitTimes, g_taskSortLink, g_schedResponseTime,
                     g_schedResponseID, runTask, g_losTaskLock, swPending>>
      /\ pc' = pc \/ pc' = [pc EXCEPT ![runTask] = "schedule"]
  BY DEF LOS_TaskPriSet, timerVars, WillSchedule
<1>3. timeSlice' \in [Tasks -> Nat]
  BY <1>0, SchedulerAssumption DEF LOS_TaskPriSet, SliceRenewed, Typed
<1>4. Typed'
  BY <1>0, <1>1, <1>2, <1>3 DEF Typed
<1>5. ReadySet' = ReadySet /\ Asleep' = Asleep /\ ReadySet \subseteq Tasks
  BY <1>2 DEF ReadySet, Asleep, Has, Timed
<1>6. QueuesHold(g_priQueueList', ReadySet, priority')
  <2>0. /\ QueuesHold(g_priQueueList, ReadySet, priority)
        /\ priority \in [Tasks -> Priorities] /\ priority' \in [Tasks -> Priorities]
        /\ timeSlice \in [Tasks -> Int]
    BY <1>0, <1>4 DEF ListsInv, Typed
  <2>1. CASE Has(t, "READY")
    <3>1. QueuesHold(DeQueued(g_priQueueList, t), ReadySet \ {t}, priority)
      BY <2>0, DeQueuedHold
    <3>2. QueuesHold(DeQueued(g_priQueueList, t), ReadySet \ {t}, priority')
      <4>1. t \in Tasks \ (ReadySet \ {t}) /\ ReadySet \ {t} \subseteq Tasks
        BY <1>5
      <4> QED
        BY <1>2, <2>0, <3>1, <4>1, RepriorHold
    <3>3. <<t>> \in Seq(Tasks) /\ ToSet(<<t>>) = {t} /\ IsInjective(<<t>>)
      BY DEF ToSet, IsInjective
    <3>4. ToSet(<<t>>) \cap (ReadySet \ {t}) = {} /\ (ReadySet \ {t}) \cup ToSet(<<t>>) = ReadySet
      BY <2>1, <3>3 DEF ReadySet
    <3>5. g_priQueueList' = EnQueued(DeQueued(g_priQueueList, t), <<t>>, priority')
      BY <2>1 DEF LOS_TaskPriSet
    <3>6. QueuesHold(g_priQueueList', (ReadySet \ {t}) \cup ToSet(<<t>>), priority')
      BY <2>0, <3>2, <3>3, <3>4, <3>5, EnQueuedHold
    <3> QED
      BY <3>4, <3>6
  <2>2. CASE ~Has(t, "READY")
    <3>1. t \in Tasks \ ReadySet
      BY <2>2 DEF ReadySet
    <3>2. g_priQueueList' = g_priQueueList
      BY <2>2 DEF LOS_TaskPriSet
    <3> QED
      BY <1>2, <1>5, <2>0, <3>1, <3>2, RepriorHold
  <2> QED
    BY <2>1, <2>2
<1>7. ListsInv'
  BY <1>0, <1>2, <1>5, <1>6 DEF ListsInv
<1>8. TimerInv'
  BY <1>0, <1>2, TimerKept
<1>9. StatusInv'
  BY <1>0, <1>1, <1>2 DEF StatusInv, StillReady, Timed, Has
<1> QED
  BY <1>4, <1>7, <1>8, <1>9 DEF SchedInv

-----------------------------------------------------------------------------
(***************************************************************************)
(* OsSchedSetNextExpireTime: the timer fires before the waits are over, or *)
(* when they are, or at once and for a scan.                               *)
(***************************************************************************)
LEMMA NextExpireSet ==
  ASSUME NEW link, NEW ts, LinkHolds(link, ts), NEW respTime \in Nat \ {0}, NEW t,
         NEW sliceEnd \in Nat,
         \A i \in DOMAIN link :
           \/ link[i].left > 0
           \/ link[i].left = 0 /\ respTime = FAR
           \/ link[i].left = 0 /\ respTime = 1 /\ g_schedResponseID = OS_INVALID,
         SetNextExpireTime(link, respTime, t, sliceEnd)
  PROVE  /\ g_schedResponseTime' \in Nat \ {0}
         /\ \A i \in DOMAIN link :
              \/ link[i].left >= g_schedResponseTime'
              \/ /\ link[i].left = 0
                 /\ g_schedResponseTime' = 1 /\ g_schedResponseID' = OS_INVALID
<1> DEFINE soon == NextExpireTime(link)
           expire == Min({sliceEnd, soon})
           next == Max({1, Min({expire, RESPONSE_MAX})})
<1>1. /\ soon \in Nat
      /\ \A i \in DOMAIN link : link[i].left \in Int /\ (link[i].left >= 0 => soon <= link[i].left)
  BY NextExpireSoonest
<1>2. RESPONSE_MAX \in Nat \ {0} /\ FAR = RESPONSE_MAX + 2
  BY SchedulerAssumption DEF FAR
<1> HIDE DEF soon
<1>3. \A a, b \in Nat : Min({a, b}) = IF a <= b THEN a ELSE b
  BY DEF Min
<1>4. \A a, b \in Nat : Max({a, b}) = IF a >= b THEN a ELSE b
  BY DEF Max
<1>5. expire \in Nat /\ expire = IF sliceEnd <= soon THEN sliceEnd ELSE soon
  BY <1>1, <1>3
<1> HIDE DEF expire
<1>6. Min({expire, RESPONSE_MAX}) = IF expire <= RESPONSE_MAX THEN expire ELSE RESPONSE_MAX
  BY <1>2, <1>3, <1>5
<1>8. /\ next \in Nat \ {0}
      /\ expire >= 1 => next <= expire
      /\ expire = 0 => next = 1
      /\ next < FAR
  <2> DEFINE m == Min({expire, RESPONSE_MAX})
  <2>1. m \in Nat /\ m <= expire /\ m <= RESPONSE_MAX /\ (m = expire \/ m = RESPONSE_MAX)
    <3> HIDE DEF m
    <3>1. m = IF expire <= RESPONSE_MAX THEN expire ELSE RESPONSE_MAX
      BY <1>6 DEF m
    <3>2. expire \in Nat /\ RESPONSE_MAX \in Nat
      BY <1>2, <1>5
    <3>3. CASE expire <= RESPONSE_MAX
      BY <3>1, <3>2, <3>3
    <3>4. CASE ~(expire <= RESPONSE_MAX)
      BY <3>1, <3>2, <3>4
    <3> QED
      BY <3>3, <3>4
  <2> HIDE DEF m
  <2>2. next = Max({1, m})
    BY DEF m
  <2>3. Max({1, m}) = IF 1 >= m THEN 1 ELSE m
    BY <1>4, <2>1
  <2> HIDE DEF next
  <2> QED
    BY <1>2, <1>5, <2>1, <2>2, <2>3
<1> HIDE DEF next
<1>9. IF expire >= respTime \/ next >= respTime
      THEN g_schedResponseTime' = respTime /\ g_schedResponseID' = g_schedResponseID
      ELSE /\ g_schedResponseTime' = next
           /\ g_schedResponseID' = IF sliceEnd < soon THEN t ELSE OS_INVALID
  BY DEF SetNextExpireTime, expire, next, soon
<1>10. g_schedResponseTime' \in Nat \ {0}
  BY <1>8, <1>9
<1>11. ASSUME NEW i \in DOMAIN link
       PROVE  \/ link[i].left >= g_schedResponseTime'
              \/ /\ link[i].left = 0
                 /\ g_schedResponseTime' = 1 /\ g_schedResponseID' = OS_INVALID
  <2> DEFINE left == link[i].left
  <2>1. left \in Int /\ left >= 0 /\ soon <= left
    BY <1>1
  <2>2. \/ left > 0
        \/ left = 0 /\ respTime = FAR
        \/ left = 0 /\ respTime = 1 /\ g_schedResponseID = OS_INVALID
    OBVIOUS
  <2> HIDE DEF left
  <2>3. CASE left > 0
    <3>1. expire <= left
      BY <1>1, <1>5, <2>1
    <3>2. next <= left
      BY <1>5, <1>8, <2>1, <2>3, <3>1
    <3>3. g_schedResponseTime' <= left
      BY <1>5, <1>8, <1>9, <2>1, <3>1, <3>2
    <3> QED
      BY <2>1, <3>3, <1>10 DEF left
  <2>4. CASE left = 0
    <3>1. soon = 0 /\ expire = 0 /\ next = 1 /\ ~(sliceEnd < soon)
      BY <1>1, <1>5, <1>8, <2>1, <2>4
    <3>2. CASE expire >= respTime \/ next >= respTime
      <4>1. respTime = 1
        BY <3>1, <3>2
      <4>2. respTime # FAR
        BY <4>1, <1>2
      <4> QED
        BY <4>1, <4>2, <2>2, <2>4, <1>9, <3>2 DEF left
    <3>3. CASE ~(expire >= respTime \/ next >= respTime)
      BY <1>9, <3>1, <3>3, <2>4 DEF left
    <3> QED
      BY <3>2, <3>3
  <2> QED
    BY <2>1, <2>3, <2>4
<1> QED
  BY <1>10, <1>11

LEMMA SwitchKeeps ==
  ASSUME SchedInv, OsSchedTaskSwitch
  PROVE  /\ SchedInv'
         /\ \A t \in ReadySet' : runTask' # Idle /\ priority'[runTask'] <= priority'[t]
         /\ \A t : t = runTask' => StillReady(t)'
<1> DEFINE ready == StillReady(runTask)
           again == IF ready /\ runTask # Idle THEN <<runTask>> ELSE <<>>
           queues == EnQueued(g_priQueueList, again, priority)
           stopped == IF ready THEN MadeReady(taskStatus[runTask]) ELSE taskStatus[runTask]
           node == [task |-> runTask, left |-> waitTimes[runTask]]
           all == ReadySet \cup ToSet(again)
<1>0. Typed /\ StatusInv /\ ListsInv /\ TimerInv /\ Idle \notin Tasks
  BY SchedulerAssumption DEF SchedInv
<1>1. PICK newTask \in AllTasks :
        /\ newTask = TopTask(queues)
        /\ taskStatus' = [[taskStatus EXCEPT ![runTask] = stopped \ {"RUNNING"}]
                            EXCEPT ![newTask] = (@ \ {"READY"}) \cup {"RUNNING"}]
        /\ g_priQueueList' = DeQueued(queues, newTask)
        /\ timeSlice' = SliceRenewed(ToSet(again))
        /\ g_taskSortLink' = IF Timed(runTask) THEN Linked(g_taskSortLink, node)
                                              ELSE g_taskSortLink
        /\ waitTimes' = [t \in Tasks |-> 0]
        /\ runTask' = newTask
        /\ SetNextExpireTime(g_taskSortLink', g_schedResponseTime, newTask,
                             SliceEnd(newTask, timeSlice'[newTask]))
  BY DEF OsSchedTaskSwitch
<1>2. /\ swPending /\ (ready => ~Has(runTask, "READY"))
      /\ swPending' = FALSE /\ UNCHANGED <<priority, pc, g_losTaskLock>>
  BY DEF OsSchedTaskSwitch
<1>3. /\ again \in Seq(Tasks) /\ IsInjective(again)
      /\ ToSet(again) = IF ready /\ runTask # Idle THEN {runTask} ELSE {}
      /\ runTask \in AllTasks
  <2>1. runTask # Idle => runTask \in Tasks
    BY <1>0 DEF Typed, AllTasks
  <2>2. CASE ready /\ runTask # Idle
    <3>1. again = <<runTask>> /\ runTask \in Tasks
      BY <2>1, <2>2
    <3>2. <<runTask>> \in Seq(Tasks) /\ ToSet(<<runTask>>) = {runTask} /\ IsInjective(<<runTask>>)
      BY <3>1 DEF ToSet, IsInjective
    <3> QED
      BY <3>1, <3>2, <2>2, <1>0 DEF Typed
  <2>3. CASE ~(ready /\ runTask # Idle)
    <3>1. again = <<>>
      BY <2>3
    <3>2. <<>> \in Seq(Tasks) /\ ToSet(<<>>) = {} /\ IsInjective(<<>>)
      BY DEF ToSet, IsInjective
    <3> QED
      BY <3>1, <3>2, <2>3, <1>0 DEF Typed
  <2> QED
    BY <2>2, <2>3
<1>4. timeSlice \in [Tasks -> Int] /\ priority \in [Tasks -> Priorities] /\ ReadySet \subseteq Tasks
  BY <1>0 DEF Typed, ReadySet
<1> HIDE DEF again
<1>5. QueuesHold(queues, all, priority)
  <2>1. ToSet(again) \cap ReadySet = {}
    BY <1>2, <1>3 DEF ReadySet
  <2>2. QueuesHold(g_priQueueList, ReadySet, priority)
    BY <1>0 DEF ListsInv
  <2> QED
    BY <2>1, <2>2, <1>3, <1>4, EnQueuedHold
<1>6. all \in SUBSET Tasks
  BY <1>3, <1>4 DEF AllTasks
<1> HIDE DEF queues, all
<1>7. /\ all = {} => newTask = Idle
      /\ all # {} => newTask \in all /\ \A u \in all : priority[newTask] <= priority[u]
  BY <1>1, <1>4, <1>5, <1>6, TopTaskStrongest
<1>8. QueuesHold(g_priQueueList', all \ {newTask}, priority)
  BY <1>1, <1>5, DeQueuedHold
<1>9. \A t \in Tasks : t \in all <=> Has(t, "READY") \/ (t = runTask /\ ready)
  BY <1>0, <1>3 DEF all, ReadySet
<1>10. /\ \A t \in AllTasks : t # runTask /\ t # newTask => taskStatus'[t] = taskStatus[t]
       /\ runTask # newTask => taskStatus'[runTask] = stopped \ {"RUNNING"}
       /\ taskStatus'[newTask] =
            IF newTask = runTask THEN ((stopped \ {"RUNNING"}) \ {"READY"}) \cup {"RUNNING"}
                                 ELSE (taskStatus[newTask] \ {"READY"}) \cup {"RUNNING"}
  BY <1>0, <1>1, <1>3 DEF Typed
<1>11. /\ ready => /\ "READY" \in stopped /\ stopped \cap {"PEND", "SUSPEND", "DELAY", "PEND_TIME"} = {}
                   /\ stopped \subseteq Bits
       /\ ~ready => stopped = taskStatus[runTask]
  BY <1>0, <1>3 DEF MadeReady, Typed, Bits
<1>12. \A t \in Tasks : Has(t, "READY") => StillReady(t)
  BY <1>0 DEF StatusInv
<1>13. newTask = runTask => ready
  <2>1. CASE runTask = Idle
    BY <2>1, <1>0 DEF StatusInv
  <2>2. CASE runTask # Idle
    <3>1. newTask = runTask => runTask \in all /\ runTask \in Tasks
      BY <1>3, <1>6, <1>7, <2>2
    <3> QED
      BY <1>9, <1>12, <3>1
  <2> QED
    BY <2>1, <2>2
<1>14. newTask # runTask => StillReady(newTask)
  <2>1. CASE newTask = Idle
    BY <2>1, <1>0 DEF StatusInv
  <2>2. CASE newTask # Idle
    <3>1. newTask \in all /\ newTask \in Tasks
      BY <1>6, <1>7, <2>2
    <3> QED
      BY <1>9, <1>12, <3>1
  <2> QED
    BY <2>1, <2>2
<1>15. taskStatus'[newTask] \cap {"PEND", "SUSPEND", "DELAY", "PEND_TIME", "READY"} = {}
  BY <1>10, <1>11, <1>13, <1>14 DEF StillReady, Timed, Has
<1> HIDE DEF stopped, ready
<1>16. ready <=> StillReady(runTask)
  BY DEF ready
<1>17. /\ taskStatus' \in [AllTasks -> SUBSET Bits]
       /\ timeSlice' \in [Tasks -> Nat] /\ waitTimes' \in [Tasks -> Nat]
  <2>1. stopped \subseteq Bits
    BY <1>0, <1>3, <1>11 DEF Typed
  <2>2. taskStatus' \in [AllTasks -> SUBSET Bits]
    BY <1>0, <1>1, <1>3, <2>1 DEF Typed, Bits
  <2>3. timeSlice' \in [Tasks -> Nat]
    BY <1>0, <1>1, SchedulerAssumption DEF Typed, SliceRenewed
  <2> QED
    BY <1>1, <2>2, <2>3
<1>18. ReadySet' = all \ {newTask}
  <2>1. ASSUME NEW t \in Tasks
        PROVE  "READY" \in taskStatus'[t] <=> t \in all /\ t # newTask
    <3>1. CASE t = newTask
      BY <3>1, <1>15
    <3>2. CASE t # newTask /\ t = runTask
      <4>1. taskStatus'[t] = stopped \ {"RUNNING"}
        BY <1>10, <3>2
      <4>2. CASE ready
        BY <4>1, <4>2, <1>9, <1>11, <3>2
      <4>3. CASE ~ready
        <5>1. ~Has(t, "READY")
          BY <4>3, <1>12, <1>16, <3>2
        <5> QED
          BY <4>1, <4>3, <5>1, <1>9, <1>11, <3>2 DEF Has
      <4> QED
        BY <4>2, <4>3
    <3>3. CASE t # newTask /\ t # runTask
      <4>1. taskStatus'[t] = taskStatus[t]
        BY <1>10, <3>3 DEF AllTasks
      <4> QED
        BY <4>1, <1>9, <3>3 DEF Has
    <3> QED
      BY <3>1, <3>2, <3>3
  <2> QED
    BY <2>1, <1>6 DEF ReadySet, Has
<1>19. /\ Timed(runTask) => runTask \in Tasks /\ runTask # Idle /\ ~ready /\ newTask # runTask
       /\ Timed(runTask) => waitTimes[runTask] \in Nat \ {0}
  <2>1. Timed(runTask) => ~ready /\ runTask # Idle
    BY <1>0, <1>16 DEF StatusInv, StillReady
  <2>2. runTask # Idle => runTask \in Tasks
    BY <1>3 DEF AllTasks
  <2>3. runTask # Idle /\ Timed(runTask) => waitTimes[runTask] > 0
    BY <1>0 DEF StatusInv
  <2> QED
    BY <2>1, <2>2, <2>3, <1>0, <1>13 DEF Typed
<1>20. Asleep' = IF Timed(runTask) THEN Asleep \cup {runTask} ELSE Asleep
  <2>1. ASSUME NEW t \in Tasks
        PROVE  (Timed(t)' /\ t # newTask) <=> (Timed(t) /\ (t # runTask \/ Timed(runTask)))
    <3>1. CASE t = newTask /\ t # runTask
      <4>1. ~Timed(t)
        BY <1>14, <3>1 DEF StillReady
      <4> QED
        BY <3>1, <4>1
    <3>2. CASE t = newTask /\ t = runTask
      <4>1. ~Timed(t)
        BY <1>13, <1>16, <3>2 DEF StillReady
      <4> QED
        BY <3>2, <4>1
    <3>3. CASE t # newTask /\ t = runTask
      <4>1. taskStatus'[t] = stopped \ {"RUNNING"}
        BY <1>10, <3>3
      <4>2. CASE ready
        <5>1. ~Timed(t)
          BY <4>2, <1>16, <3>3 DEF StillReady
        <5>2. ~Timed(t)'
          BY <4>1, <4>2, <1>11 DEF Timed, Has
        <5> QED
          BY <5>1, <5>2
      <4>3. CASE ~ready
        <5>1. Timed(t)' <=> Timed(t)
          BY <4>1, <4>3, <1>11, <3>3 DEF Timed, Has
        <5> QED
          BY <5>1, <3>3
      <4> QED
        BY <4>2, <4>3
    <3>4. CASE t # newTask /\ t # runTask
      <4>1. taskStatus'[t] = taskStatus[t]
        BY <1>10, <3>4 DEF AllTasks
      <4> QED
        BY <4>1, <3>4 DEF Timed, Has
    <3> QED
      BY <3>1, <3>2, <3>3, <3>4
  <2>2. Asleep' = {t \in Tasks : Timed(t)' /\ t # newTask}
    BY <1>1 DEF Asleep
  <2>3. Asleep' = {t \in Tasks : Timed(t) /\ (t # runTask \/ Timed(runTask))}
    BY <2>1, <2>2
  <2> QED
    BY <2>3, <1>19 DEF Asleep
<1>21. LinkHolds(g_taskSortLink, Asleep)
  BY <1>0 DEF ListsInv
<1>22. /\ LinkHolds(g_taskSortLink', Asleep')
       /\ \A i \in DOMAIN g_taskSortLink' :
            \/ g_taskSortLink'[i].left > 0
            \/ \E j \in DOMAIN g_taskSortLink : g_taskSortLink'[i] = g_taskSortLink[j]
  <2>1. CASE Timed(runTask)
    <3>1. node \in Nodes /\ node.task = runTask /\ node.left > 0
      BY <1>19, <2>1 DEF Nodes
    <3>2. node.task \notin Asleep
      BY <3>1 DEF Asleep
    <3> HIDE DEF node
    <3>3. /\ LinkHolds(Linked(g_taskSortLink, node), Asleep \cup {node.task})
          /\ \A i \in DOMAIN Linked(g_taskSortLink, node) :
               \/ Linked(g_taskSortLink, node)[i] = node
               \/ \E j \in DOMAIN g_taskSortLink :
                    Linked(g_taskSortLink, node)[i] = g_taskSortLink[j]
      BY <1>21, <3>1, <3>2, LinkedHold
    <3>4. g_taskSortLink' = Linked(g_taskSortLink, node) /\ Asleep' = Asleep \cup {node.task}
      BY <1>1, <1>20, <2>1, <3>1
    <3> QED
      BY <3>1, <3>3, <3>4
  <2>2. CASE ~Timed(runTask)
    <3>1. g_taskSortLink' = g_taskSortLink /\ Asleep' = Asleep
      BY <1>1, <1>20, <2>2
    <3> QED
      BY <1>21, <3>1
  <2> QED
    BY <2>1, <2>2
<1>23. /\ g_schedResponseTime' \in Nat \ {0}
       /\ \A i \in DOMAIN g_taskSortLink' :
            \/ g_taskSortLink'[i].left >= g_schedResponseTime'
            \/ /\ g_taskSortLink'[i].left = 0
               /\ g_schedResponseTime' = 1 /\ g_schedResponseID' = OS_INVALID
  <2> DEFINE link == g_taskSortLink'
             sliceEnd == SliceEnd(newTask, timeSlice'[newTask])
  <2>1. sliceEnd \in Nat
    <3>1. newTask # Idle => timeSlice'[newTask] \in Nat
      BY <1>17 DEF AllTasks
    <3>2. FAR - 1 \in Nat
      BY SchedulerAssumption DEF FAR
    <3> QED
      BY <3>1, <3>2 DEF SliceEnd
  <2>2. g_schedResponseTime \in Nat \ {0}
    BY <1>0 DEF Typed
  <2>3. ASSUME NEW j \in DOMAIN g_taskSortLink
        PROVE  \/ g_taskSortLink[j].left > 0
               \/ /\ g_taskSortLink[j].left = 0
                  /\ g_schedResponseTime = 1 /\ g_schedResponseID = OS_INVALID
    <3>1. g_taskSortLink[j].left \in Int
      BY <1>21, SleepersType DEF LinkHolds
    <3> QED
      BY <1>0, <2>2, <3>1 DEF TimerInv
  <2>4. \A i \in DOMAIN link :
          \/ link[i].left > 0
          \/ link[i].left = 0 /\ g_schedResponseTime = FAR
          \/ link[i].left = 0 /\ g_schedResponseTime = 1 /\ g_schedResponseID = OS_INVALID
    BY <1>22, <2>3
  <2>5. LinkHolds(link, Asleep')
    BY <1>22
  <2>6. SetNextExpireTime(link, g_schedResponseTime, newTask, sliceEnd)
    BY <1>1
  <2> HIDE DEF link, sliceEnd
  <2>7. /\ g_schedResponseTime' \in Nat \ {0}
        /\ \A i \in DOMAIN link :
             \/ link[i].left >= g_schedResponseTime'
             \/ /\ link[i].left = 0
                /\ g_schedResponseTime' = 1 /\ g_schedResponseID' = OS_INVALID
    BY <2>1, <2>2, <2>4, <2>5, <2>6, NextExpireSet
  <2> QED
    BY <2>7 DEF link
<1>24. Typed'
  BY <1>0, <1>1, <1>2, <1>17, <1>23 DEF Typed
<1>25. ListsInv'
  BY <1>2, <1>8, <1>18, <1>22 DEF ListsInv
<1>26. TimerInv'
  BY <1>23 DEF TimerInv
<1>27. StatusInv'
  <2>1. ASSUME NEW t \in Tasks
        PROVE  /\ "READY" \in taskStatus'[t] =>
                    taskStatus'[t] \cap {"PEND", "SUSPEND", "DELAY", "PEND_TIME"} = {}
               /\ "PEND_TIME" \in taskStatus'[t] => "PEND" \in taskStatus'[t]
    <3>1. CASE t = newTask
      BY <3>1, <1>15
    <3>2. CASE t # newTask /\ t = runTask
      <4>1. taskStatus'[t] = stopped \ {"RUNNING"}
        BY <1>10, <3>2
      <4>2. CASE ready
        BY <4>1, <4>2, <1>11
      <4>3. CASE ~ready
        <5>1. ~Has(t, "READY") /\ (Has(t, "PEND_TIME") => Has(t, "PEND"))
          BY <4>3, <1>0, <1>16, <3>2 DEF StatusInv
        <5> QED
          BY <4>1, <4>3, <5>1, <1>11, <3>2 DEF Has
      <4> QED
        BY <4>2, <4>3
    <3>3. CASE t # newTask /\ t # runTask
      <4>1. taskStatus'[t] = taskStatus[t]
        BY <1>10, <3>3 DEF AllTasks
      <4>2. (Has(t, "READY") => StillReady(t)) /\ (Has(t, "PEND_TIME") => Has(t, "PEND"))
        BY <1>0 DEF StatusInv
      <4> QED
        BY <4>1, <4>2 DEF StillReady, Timed, Has
    <3> QED
      BY <3>1, <3>2, <3>3
  <2>2. \A t \in AllTasks : "RUNNING" \in taskStatus'[t] <=> t = newTask
    BY <1>0, <1>10 DEF StatusInv, Has
  <2>3. taskStatus'[Idle] \cap {"PEND", "SUSPEND", "DELAY", "PEND_TIME"} = {}
    <3>1. Idle \in AllTasks /\ StillReady(Idle)
      BY <1>0 DEF AllTasks, StatusInv
    <3>2. CASE Idle = newTask
      BY <3>2, <1>15
    <3>3. CASE Idle # newTask /\ Idle = runTask
      BY <3>1, <3>3, <1>10, <1>11, <1>16
    <3>4. CASE Idle # newTask /\ Idle # runTask
      BY <3>1, <3>4, <1>10 DEF StillReady, Timed, Has
    <3> QED
      BY <3>2, <3>3, <3>4
  <2>4. /\ \A t \in Tasks : (Has(t, "READY") => StillReady(t))'
        /\ \A t \in Tasks : (Has(t, "PEND_TIME") => Has(t, "PEND"))'
        /\ StillReady(Idle)'
    BY <2>1, <2>3 DEF StillReady, Timed, Has
  <2>5. \A t \in AllTasks : (Has(t, "RUNNING") <=> t = runTask)'
    BY <1>1, <2>2 DEF Has
  <2>6. \A t : t = runTask' => ~Has(t, "READY")' /\ StillReady(t)' /\ ~Timed(t)'
    BY <1>1, <1>15 DEF StillReady, Timed, Has
  <2> QED
    BY <2>4, <2>5, <2>6 DEF StatusInv
<1>28. \A t \in ReadySet' : runTask' # Idle /\ priority'[runTask'] <= priority'[t]
  <2>1. all # {} => newTask # Idle
    BY <1>0, <1>6, <1>7
  <2> QED
    BY <1>1, <1>2, <1>7, <1>18, <2>1
<1>29. \A t : t = runTask' => StillReady(t)'
  BY <1>1, <1>15 DEF StillReady, Timed, Has
<1> QED
  BY <1>24, <1>25, <1>26, <1>27, <1>28, <1>29 DEF SchedInv

LEMMA RunSliceType ==
  ASSUME Typed
  PROVE  RunSlice \in [Tasks -> Nat]
<1>1. \A n \in Nat : Max({0, n - 1}) \in Nat
  <2> TAKE n \in Nat
  <2>1. Max({0, n - 1}) = IF n - 1 <= 0 THEN 0 ELSE n - 1
    BY DEF Max
  <2> QED
    BY <2>1
<1> QED
  BY <1>1 DEF RunSlice, Typed

LEMMA NoResponseKeeps ==
  ASSUME SchedInv, Tick, NoResponse
  PROVE  SchedInv'
<1>0. Typed /\ StatusInv /\ ListsInv /\ TimerInv /\ ~swPending
  BY DEF SchedInv, Tick
<1>1. /\ g_schedResponseTime > 1 /\ g_schedResponseTime' = g_schedResponseTime - 1
      /\ timeSlice' = RunSlice
      /\ g_taskSortLink' = TickLeft(g_taskSortLink)
      /\ UNCHANGED <<taskStatus, g_priQueueList, swPending, g_schedResponseID,
                     priority, waitTimes, pc, runTask, g_losTaskLock>>
  BY DEF Tick, NoResponse
<1>2. Typed'
  BY <1>0, <1>1, RunSliceType DEF Typed
<1>3. ReadySet' = ReadySet /\ Asleep' = Asleep
  BY <1>1 DEF ReadySet, Asleep, Has, Timed
<1>4. /\ LinkHolds(g_taskSortLink', Asleep)
      /\ DOMAIN g_taskSortLink' = DOMAIN g_taskSortLink
      /\ \A i \in DOMAIN g_taskSortLink : g_taskSortLink'[i].left = g_taskSortLink[i].left - 1
  BY <1>0, <1>1, TickLeftHold DEF ListsInv
<1>5. ListsInv'
  BY <1>0, <1>1, <1>3, <1>4 DEF ListsInv
<1>6. TimerInv'
  <2> SUFFICES ASSUME NEW i \in DOMAIN g_taskSortLink
               PROVE  g_taskSortLink'[i].left >= g_schedResponseTime'
    BY <1>4 DEF TimerInv
  <2>1. g_taskSortLink[i].left \in Int /\ g_schedResponseTime \in Nat
    BY <1>0, SleepersType DEF ListsInv, LinkHolds, Typed
  <2>2. g_taskSortLink[i].left >= g_schedResponseTime
    BY <1>0, <1>1, <2>1 DEF TimerInv
  <2> QED
    BY <1>1, <1>4, <2>1, <2>2
<1>7. StatusInv'
  BY <1>0, <1>1 DEF StatusInv, StillReady, Timed, Has, SwitchDue
<1> QED
  BY <1>2, <1>5, <1>6, <1>7 DEF SchedInv

LEMMA TickHandlerKeeps ==
  ASSUME SchedInv, Tick, LOS_SchedTickHandler
  PROVE  SchedInv' /\ (~swPending' /\ g_losTaskLock = 0 => ReadySet' = ReadySet)
<1> DEFINE passed == TickLeft(g_taskSortLink)
<1>0. Typed /\ StatusInv /\ ListsInv /\ TimerInv /\ ~swPending /\ Idle \notin Tasks
  BY SchedulerAssumption DEF SchedInv, Tick
<1>1. PICK woken \in SUBSET Tasks :
        LET ready == {t \in woken : ~Has(t, "SUSPEND")}
            slice == RunSlice
        IN  /\ woken = IF g_schedResponseID = OS_INVALID THEN Expired(passed) ELSE {}
            /\ taskStatus' = [t \in AllTasks |-> IF t \in woken THEN TimedOut(taskStatus[t])
                                                                ELSE taskStatus[t]]
            /\ g_priQueueList' = EnQueued(g_priQueueList, Only(Sleepers(passed), ready), priority)
            /\ timeSlice' = [t \in Tasks |-> IF t \in ready THEN SliceRenewed(ready)[t]
                                                           ELSE slice[t]]
            /\ g_taskSortLink' = Unlinked(passed, woken)
            /\ IF NeedSched(ready)
               THEN /\ swPending' = TRUE
                    /\ g_schedResponseTime' = FAR
                    /\ UNCHANGED g_schedResponseID
               ELSE /\ UNCHANGED swPending
                    /\ SetNextExpireTime(g_taskSortLink', FAR, runTask,
                         SliceEnd(runTask, IF runTask = Idle \/ slice[runTask] > 0
                                           THEN slice[runTask] ELSE SLICE))
  BY DEF LOS_SchedTickHandler
<1> DEFINE ready == {t \in woken : ~Has(t, "SUSPEND")}
           line == Only(Sleepers(passed), ready)
<1>2. /\ g_schedResponseTime = 1
      /\ UNCHANGED <<priority, waitTimes, pc, runTask, g_losTaskLock>>
  BY DEF Tick, LOS_SchedTickHandler
<1>3. /\ LinkHolds(passed, Asleep) /\ DOMAIN passed = DOMAIN g_taskSortLink
      /\ \A i \in DOMAIN g_taskSortLink : /\ passed[i].left = g_taskSortLink[i].left - 1
                                          /\ passed[i].task = g_taskSortLink[i].task
  BY <1>0, TickLeftHold DEF ListsInv
<1>4. /\ g_taskSortLink \in Seq(Nodes)
      /\ \A i \in DOMAIN g_taskSortLink : g_taskSortLink[i].left \in Int
  BY <1>0, SleepersType DEF ListsInv, LinkHolds
<1>5. /\ Sleepers(passed) \in Seq(Tasks) /\ IsInjective(Sleepers(passed))
      /\ ToSet(Sleepers(passed)) = Asleep
      /\ DOMAIN Sleepers(passed) = DOMAIN passed
      /\ \A i \in DOMAIN passed : Sleepers(passed)[i] = passed[i].task
  BY <1>3, SleepersType DEF LinkHolds
<1> HIDE DEF passed
<1>6. woken \subseteq Asleep
  <2>1. \A i \in DOMAIN passed : passed[i].task \in Asleep
    BY <1>5 DEF ToSet
  <2>2. Expired(passed) \subseteq Asleep
    BY <2>1 DEF Expired
  <2> QED
    BY <1>1, <2>2
<1>7. \A t \in woken : t \in Tasks /\ t # runTask /\ Timed(t) /\ ~Has(t, "READY")
  <2>1. \A t \in woken : t \in Tasks /\ t # runTask /\ Timed(t) /\ ~StillReady(t)
    BY <1>6 DEF Asleep, StillReady
  <2> QED
    BY <2>1, <1>0 DEF StatusInv
<1>8. \A t \in AllTasks : taskStatus'[t] = IF t \in woken THEN TimedOut(taskStatus[t])
                                                          ELSE taskStatus[t]
  BY <1>1
<1>9. ASSUME NEW t \in woken
      PROVE  /\ "READY" \in TimedOut(taskStatus[t]) <=> t \in ready
             /\ TimedOut(taskStatus[t]) \cap {"PEND", "DELAY", "PEND_TIME"} = {}
             /\ "READY" \in TimedOut(taskStatus[t]) => "SUSPEND" \notin TimedOut(taskStatus[t])
             /\ "RUNNING" \in TimedOut(taskStatus[t]) <=> Has(t, "RUNNING")
             /\ TimedOut(taskStatus[t]) \subseteq Bits
  <2>1. "READY" \notin taskStatus[t] /\ taskStatus[t] \subseteq Bits
    BY <1>0, <1>7 DEF Has, Typed, AllTasks
  <2>2. CASE "SUSPEND" \in taskStatus[t]
    <3>1. t \notin ready
      BY <2>2 DEF Has
    <3> QED
      BY <2>1, <2>2, <3>1 DEF TimedOut, Bits, Has
  <2>3. CASE "SUSPEND" \notin taskStatus[t]
    <3>1. t \in ready
      BY <2>3 DEF Has
    <3> QED
      BY <2>1, <2>3, <3>1 DEF TimedOut, MadeReady, Bits, Has
  <2> QED
    BY <2>2, <2>3
<1>10. /\ line \in Seq(Tasks) /\ IsInjective(line) /\ ToSet(line) = ready
  <2> HIDE DEF ready
  <2>1. /\ line \in Seq(Tasks) /\ IsInjective(line)
        /\ ToSet(line) = ToSet(Sleepers(passed)) \cap ready
    BY <1>5, OnlyMembers
  <2>2. ready \subseteq Asleep
    BY <1>6 DEF ready
  <2> QED
    BY <2>1, <2>2, <1>5
<1>11. /\ g_priQueueList' = EnQueued(g_priQueueList, line, priority)
       /\ g_taskSortLink' = Unlinked(passed, woken)
       /\ timeSlice' = [t \in Tasks |-> IF t \in ready THEN SliceRenewed(ready)[t]
                                                       ELSE RunSlice[t]]
  BY <1>1
<1> HIDE DEF line
<1>12. QueuesHold(g_priQueueList', ReadySet \cup ready, priority)
  <2>1. ToSet(line) \cap ReadySet = {}
    BY <1>7, <1>10 DEF ReadySet
  <2>2. /\ timeSlice \in [Tasks -> Int] /\ priority \in [Tasks -> Priorities]
        /\ QueuesHold(g_priQueueList, ReadySet, priority)
    BY <1>0 DEF Typed, ListsInv
  <2>3. QueuesHold(g_priQueueList', ReadySet \cup ToSet(line), priority)
    BY <1>10, <1>11, <2>1, <2>2, EnQueuedHold
  <2> QED
    BY <1>10, <2>3
<1>13. ReadySet' = ReadySet \cup ready
  <2>1. ASSUME NEW t \in Tasks
        PROVE  "READY" \in taskStatus'[t] <=> Has(t, "READY") \/ t \in ready
    <3>1. CASE t \in woken
      BY <3>1, <1>7, <1>8, <1>9 DEF AllTasks
    <3>2. CASE t \notin woken
      BY <3>2, <1>8 DEF Has, AllTasks
    <3> QED
      BY <3>1, <3>2
  <2>2. ready \subseteq Tasks
    BY <1>7
  <2> HIDE DEF ready
  <2> QED
    BY <2>1, <2>2 DEF ReadySet, Has
<1>14. Asleep' = Asleep \ woken
  <2>1. ASSUME NEW t \in Tasks
        PROVE  Timed(t)' <=> Timed(t) /\ t \notin woken
    <3>1. CASE t \in woken
      BY <3>1, <1>8, <1>9 DEF AllTasks, Timed, Has
    <3>2. CASE t \notin woken
      BY <3>2, <1>8 DEF Timed, Has, AllTasks
    <3> QED
      BY <3>1, <3>2
  <2> QED
    BY <2>1, <1>2 DEF Asleep
<1>15. /\ LinkHolds(g_taskSortLink', Asleep')
       /\ \A i \in DOMAIN g_taskSortLink' :
            \E j \in DOMAIN g_taskSortLink :
              /\ g_taskSortLink'[i].left = g_taskSortLink[j].left - 1
              /\ passed[j].left = g_taskSortLink[j].left - 1
              /\ passed[j].task \notin woken
  <2>1. /\ LinkHolds(g_taskSortLink', Asleep \ woken)
        /\ \A i \in DOMAIN g_taskSortLink' :
             \E j \in DOMAIN passed : /\ g_taskSortLink'[i] = passed[j]
                                      /\ passed[j].task \notin woken
    BY <1>3, <1>11, UnlinkedHold
  <2> QED
    BY <2>1, <1>3, <1>14
<1>16. ASSUME NEW i \in DOMAIN g_taskSortLink'
       PROVE  /\ g_taskSortLink'[i].left \in Int /\ g_taskSortLink'[i].left >= 0
              /\ g_schedResponseID = OS_INVALID => g_taskSortLink'[i].left > 0
  <2>1. PICK j \in DOMAIN g_taskSortLink :
              /\ g_taskSortLink'[i].left = g_taskSortLink[j].left - 1
              /\ passed[j].left = g_taskSortLink[j].left - 1
              /\ passed[j].task \notin woken
    BY <1>15
  <2>2. g_taskSortLink[j].left \in Int
    BY <1>4
  <2>3. g_schedResponseID = OS_INVALID => ~(passed[j].left <= 0)
    <3>1. j \in DOMAIN passed
      BY <1>3
    <3> QED
      BY <1>1, <2>1, <3>1 DEF Expired
  <2>4. \/ g_taskSortLink[j].left >= 1
        \/ g_taskSortLink[j].left = 0 /\ g_schedResponseID = OS_INVALID
    BY <1>0, <1>2 DEF TimerInv
  <2> QED
    BY <2>1, <2>2, <2>3, <2>4
<1>17. /\ swPending' \in BOOLEAN /\ g_schedResponseTime' \in Nat \ {0}
       /\ TimerInv'
  <2>0. FAR \in Nat \ {0} /\ FAR - 1 \in Nat /\ SLICE \in Nat
    BY SchedulerAssumption DEF FAR
  <2>1. CASE NeedSched(ready)
    <3>1. swPending' = TRUE /\ g_schedResponseTime' = FAR /\ g_schedResponseID = OS_INVALID
      BY <1>1, <2>1 DEF NeedSched
    <3> QED
      BY <1>16, <2>0, <3>1 DEF TimerInv
  <2>2. CASE ~NeedSched(ready)
    <3> DEFINE link == g_taskSortLink'
               sliceEnd == SliceEnd(runTask, IF runTask = Idle \/ RunSlice[runTask] > 0
                                             THEN RunSlice[runTask] ELSE SLICE)
    <3>1. swPending' = swPending /\ SetNextExpireTime(link, FAR, runTask, sliceEnd)
      BY <1>1, <2>2
    <3>2. sliceEnd \in Nat
      <4>1. CASE runTask = Idle
        BY <4>1, <2>0 DEF SliceEnd
      <4>2. CASE runTask # Idle
        <5>1. RunSlice[runTask] \in Nat
          BY <4>2, <1>0, RunSliceType DEF Typed, AllTasks
        <5> QED
          BY <4>2, <5>1, <2>0 DEF SliceEnd
      <4> QED
        BY <4>1, <4>2
    <3>3. LinkHolds(link, Asleep')
      BY <1>15
    <3>4. \A i \in DOMAIN link :
            \/ link[i].left > 0
            \/ link[i].left = 0 /\ FAR = FAR
            \/ link[i].left = 0 /\ FAR = 1 /\ g_schedResponseID = OS_INVALID
      BY <1>16
    <3> HIDE DEF link, sliceEnd
    <3>5. /\ g_schedResponseTime' \in Nat \ {0}
          /\ \A i \in DOMAIN link :
               \/ link[i].left >= g_schedResponseTime'
               \/ /\ link[i].left = 0
                  /\ g_schedResponseTime' = 1 /\ g_schedResponseID' = OS_INVALID
      BY <2>0, <3>1, <3>2, <3>3, <3>4, NextExpireSet
    <3> QED
      BY <1>0, <3>1, <3>5 DEF TimerInv, link, Typed
  <2> QED
    BY <2>1, <2>2
<1>18. Typed'
  <2>1. taskStatus' \in [AllTasks -> SUBSET Bits]
    <3>1. \A t \in AllTasks : (IF t \in woken THEN TimedOut(taskStatus[t]) ELSE taskStatus[t])
                                \in SUBSET Bits
      BY <1>0, <1>9 DEF Typed
    <3> QED
      BY <1>1, <3>1
  <2>2. timeSlice' \in [Tasks -> Nat]
    <3>1. SliceRenewed(ready) \in [Tasks -> Nat]
      BY <1>0, SchedulerAssumption DEF SliceRenewed, Typed
    <3>2. RunSlice \in [Tasks -> Nat]
      BY <1>0, RunSliceType
    <3> HIDE DEF ready
    <3> QED
      BY <1>11, <3>1, <3>2
  <2> QED
    BY <1>0, <1>2, <1>17, <2>1, <2>2 DEF Typed
<1>19. ListsInv'
  BY <1>2, <1>12, <1>13, <1>15 DEF ListsInv
<1>20. StatusInv'
  <2> HIDE DEF ready
  <2>1. ASSUME NEW t \in Tasks
        PROVE  /\ "READY" \in taskStatus'[t] =>
                    taskStatus'[t] \cap {"PEND", "SUSPEND", "DELAY", "PEND_TIME"} = {}
               /\ "PEND_TIME" \in taskStatus'[t] => "PEND" \in taskStatus'[t]
    <3>1. CASE t \in woken
      BY <3>1, <1>8, <1>9 DEF AllTasks
    <3>2. CASE t \notin woken
      <4>1. taskStatus'[t] = taskStatus[t]
        BY <1>8, <3>2 DEF AllTasks
      <4>2. (Has(t, "READY") => StillReady(t)) /\ (Has(t, "PEND_TIME") => Has(t, "PEND"))
        BY <1>0 DEF StatusInv
      <4> QED
        BY <4>1, <4>2 DEF StillReady, Timed, Has
    <3> QED
      BY <3>1, <3>2
  <2>2. \A t \in AllTasks : "RUNNING" \in taskStatus'[t] <=> t = runTask
    BY <1>0, <1>8, <1>9 DEF StatusInv, Has
  <2>3. \A t : t = runTask \/ t = Idle => taskStatus'[t] = taskStatus[t]
    BY <1>0, <1>7, <1>8 DEF AllTasks, Typed
  <2>4. /\ \A t \in Tasks : (Has(t, "READY") => StillReady(t))'
        /\ \A t \in Tasks : (Has(t, "PEND_TIME") => Has(t, "PEND"))'
    BY <2>1 DEF StillReady, Timed, Has
  <2>5. \A t \in AllTasks : (Has(t, "RUNNING") <=> t = runTask)'
    BY <1>2, <2>2 DEF Has
  <2>6. StillReady(Idle)'
    BY <1>0, <2>3 DEF StatusInv, StillReady, Timed, Has
  <2>7. \A t : t = runTask' => /\ Has(t, "READY")' <=> Has(runTask, "READY")
                               /\ StillReady(t)' <=> StillReady(runTask)
                               /\ Timed(t)' <=> Timed(runTask)
    BY <1>2, <2>3 DEF StillReady, Timed, Has
  <2>8. SwitchDue => SwitchDue'
    BY <1>0, <1>2 DEF SwitchDue
  <2> QED
    BY <1>0, <1>2, <2>4, <2>5, <2>6, <2>7, <2>8 DEF StatusInv
<1>21. ~swPending' /\ g_losTaskLock = 0 => ReadySet' = ReadySet
  BY <1>1, <1>13 DEF NeedSched
<1> QED
  BY <1>17, <1>18, <1>19, <1>20, <1>21 DEF SchedInv

-----------------------------------------------------------------------------
(***************************************************************************)
(* The initial states: the order in which the tasks were created is a list *)
(* of all of them.                                                         *)
(***************************************************************************)
LEMMA CreationOrder ==
  ASSUME NEW order \in SetToSeqs(Tasks)
  PROVE  order \in Seq(Tasks) /\ IsInjective(order) /\ ToSet(order) = Tasks
<1> DEFINE n == Cardinality(Tasks)
<1>1. IsFiniteSet(Tasks) /\ n \in Nat
  BY SchedulerAssumption, FS_CardinalityType
<1>2. order \in [1..n -> Tasks] /\ \A i, j \in 1..n : i # j => order[i] # order[j]
  BY DEF SetToSeqs
<1>3. IsFiniteSet(1..n) /\ Cardinality(1..n) = n
  <2> HIDE DEF n
  <2>1. 1 \in Int /\ n \in Int
    BY <1>1
  <2>2. IsFiniteSet(1..n) /\ Cardinality(1..n) = IF 1 > n THEN 0 ELSE n - 1 + 1
    BY <2>1, FS_Interval
  <2>3. (1 > n => n = 0) /\ n - 1 + 1 = n
    BY <1>1
  <2> QED
    BY <2>2, <2>3
<1> HIDE DEF n
<1>4. order \in Injection(1..n, Tasks)
  BY <1>2 DEF Injection, IsInjective
<1>5. order \in Surjection(1..n, Tasks)
  BY <1>1, <1>3, <1>4, FS_Injection DEF n
<1>6. DOMAIN order = 1..n /\ \A t \in Tasks : \E i \in 1..n : order[i] = t
  BY <1>2, <1>5 DEF Surjection
<1> QED
  BY <1>1, <1>2, <1>6 DEF ToSet, IsInjective

LEMMA InitInv == Init => SchedInv /\ StrongestRuns
<1> SUFFICES ASSUME Init PROVE SchedInv /\ StrongestRuns
  OBVIOUS
<1>0. /\ Idle \notin Tasks /\ InitPriority \in [Tasks -> Priorities]
      /\ SLICE \in Nat \ {0} /\ RESPONSE_MAX \in Nat \ {0}
  BY SchedulerAssumption
<1>1. PICK order \in SetToSeqs(Tasks) :
        LET first == TopTask(Created(order))
        IN  /\ taskStatus = [t \in AllTasks |-> IF t = first THEN {"RUNNING"} ELSE {"READY"}]
            /\ priority = InitPriority
            /\ timeSlice = [t \in Tasks |-> SLICE]
            /\ waitTimes = [t \in Tasks |-> 0]
            /\ pc = [t \in Tasks |-> "code"]
            /\ g_priQueueList = DeQueued(Created(order), first)
            /\ g_taskSortLink = <<>>
            /\ runTask = first
            /\ g_losTaskLock = 0
            /\ swPending = FALSE
            /\ g_schedResponseTime = Min({SLICE, RESPONSE_MAX})
            /\ g_schedResponseID = first
  BY DEF Init
<1> DEFINE queues == Created(order)
           first == TopTask(queues)
<1>2. QueuesHold(queues, Tasks, InitPriority)
  <2>1. order \in Seq(Tasks) /\ IsInjective(order) /\ ToSet(order) = Tasks
    BY CreationOrder
  <2>2. ASSUME NEW p \in Priorities
        PROVE  /\ Only(order, {t \in Tasks : InitPriority[t] = p}) \in Seq(Tasks)
               /\ IsInjective(Only(order, {t \in Tasks : InitPriority[t] = p}))
               /\ ToSet(Only(order, {t \in Tasks : InitPriority[t] = p})) =
                    {t \in Tasks : InitPriority[t] = p}
    <3> DEFINE ts == {t \in Tasks : InitPriority[t] = p}
    <3>1. ToSet(order) \cap ts = ts
      BY <2>1
    <3> HIDE DEF ts
    <3>2. /\ Only(order, ts) \in Seq(Tasks) /\ IsInjective(Only(order, ts))
          /\ ToSet(Only(order, ts)) = ts
      BY <2>1, <3>1, OnlyMembers
    <3> QED
      BY <3>2 DEF ts
  <2> QED
    BY <2>2 DEF QueuesHold, Created
<1> HIDE DEF queues
<1>3. /\ Tasks = {} => first = Idle
      /\ Tasks # {} => first \in Tasks /\ \A u \in Tasks : InitPriority[first] <= InitPriority[u]
  BY <1>0, <1>2, TopTaskStrongest
<1>4. /\ taskStatus = [t \in AllTasks |-> IF t = first THEN {"RUNNING"} ELSE {"READY"}]
      /\ priority = InitPriority /\ runTask = first /\ g_taskSortLink = <<>>
      /\ g_priQueueList = DeQueued(queues, first) /\ swPending = FALSE
      /\ g_schedResponseTime = Min({SLICE, RESPONSE_MAX})
  BY <1>1 DEF queues
<1>5. QueuesHold(g_priQueueList, Tasks \ {first}, priority)
  BY <1>2, <1>4, DeQueuedHold
<1> HIDE DEF first
<1>6. ReadySet = Tasks \ {first} /\ Asleep = {}
  BY <1>4 DEF ReadySet, Asleep, Has, Timed, AllTasks
<1>7. LinkHolds(<<>>, {})
  <2>1. <<>> \in Seq(Nodes) /\ DOMAIN <<>> = {} /\ Sleepers(<<>>) = <<>>
    BY DEF Sleepers
  <2> QED
    BY <2>1, EmptyMembers DEF LinkHolds, Sorted, ToSet, IsInjective
<1>8. ListsInv
  BY <1>4, <1>5, <1>6, <1>7 DEF ListsInv
<1>9. Typed
  <2>1. Min({SLICE, RESPONSE_MAX}) \in Nat \ {0}
    BY <1>0 DEF Min
  <2>2. first \in AllTasks
    BY <1>3 DEF AllTasks
  <2>3. taskStatus \in [AllTasks -> SUBSET Bits]
    BY <1>4 DEF Bits
  <2> QED
    BY <1>0, <1>1, <1>4, <2>1, <2>2, <2>3 DEF Typed, first, queues
<1>10. TimerInv
  BY <1>4 DEF TimerInv
<1>11. StatusInv
  <2>1. first \in AllTasks /\ Idle \in AllTasks /\ Tasks \subseteq AllTasks
    BY <1>3 DEF AllTasks
  <2> QED
    BY <1>4, <2>1 DEF StatusInv, StillReady, Timed, Has
<1>12. StrongestRuns
  BY <1>0, <1>3, <1>4 DEF StrongestRuns
<1> QED
  BY <1>8, <1>9, <1>10, <1>11, <1>12 DEF SchedInv

LEMMA NextInv == SchedInv /\ [Next]_schedVars => SchedInv'
<1> SUFFICES ASSUME SchedInv, [Next]_schedVars PROVE SchedInv'
  OBVIOUS
<1>1. CASE UNCHANGED schedVars
  <2>1. /\ UNCHANGED <<taskStatus, priority, timeSlice, g_priQueueList>>
        /\ UNCHANGED <<waitTimes, g_taskSortLink, g_schedResponseTime, g_schedResponseID>>
        /\ UNCHANGED <<pc, runTask, g_losTaskLock, swPending>>
    BY <1>1 DEF schedVars, queueVars, timerVars, cpuVars
  <2>2. ListsInv' /\ TimerInv' /\ Typed'
    BY <2>1, ListsKept, TimerKept DEF SchedInv, Typed
  <2>3. StatusInv'
    BY <2>1 DEF SchedInv, StatusInv, StillReady, Timed, Has, SwitchDue
  <2> QED
    BY <2>2, <2>3 DEF SchedInv
<1>2. CASE TaskCall
  <2>1. CASE \E ticks \in Delays : LOS_TaskDelay(ticks)
    BY <2>1, DelayKeeps
  <2>2. CASE LOS_TaskYield
    BY <2>2, YieldKeeps
  <2>3. CASE LOS_TaskLock \/ LOS_TaskUnlock
    BY <2>3, LockKeeps
  <2>4. CASE \E t \in Tasks : LOS_TaskSuspend(t, FALSE)
    BY <2>4, SuspendKeeps
  <2>5. CASE \E t \in Tasks : LOS_TaskResume(t, FALSE)
    BY <2>5, ResumeKeeps
  <2>6. CASE \E t \in Tasks, p \in Priorities : LOS_TaskPriSet(t, p)
    BY <2>6, PriSetKeeps
  <2> QED
    BY <1>2, <2>1, <2>2, <2>3, <2>4, <2>5, <2>6 DEF TaskCall
<1>3. CASE HandlerCall
  <2>1. CASE \E t \in Tasks : LOS_TaskSuspend(t, TRUE)
    BY <2>1, SuspendKeeps
  <2>2. CASE \E t \in Tasks : LOS_TaskResume(t, TRUE)
    BY <2>2, ResumeKeeps
  <2> QED
    BY <1>3, <2>1, <2>2 DEF HandlerCall
<1>4. CASE LOS_Schedule
  BY <1>4, ScheduleKeeps
<1>5. CASE OsSchedTaskSwitch
  BY <1>5, SwitchKeeps
<1>6. CASE Tick
  <2>1. NoResponse \/ LOS_SchedTickHandler
    BY <1>6 DEF Tick
  <2> QED
    BY <1>6, <2>1, NoResponseKeeps, TickHandlerKeeps
<1> QED
  BY <1>1, <1>2, <1>3, <1>4, <1>5, <1>6 DEF Next

LEMMA SchedInvariance == Spec => []SchedInv
  BY InitInv, NextInv, PTL DEF Spec

-----------------------------------------------------------------------------
(***************************************************************************)
(* ListsAgree, for any number of tasks and priorities and any mix of the   *)
(* calls, task switches and ticks: the ready queues and the timer list     *)
(* hold exactly the tasks their status bits say, each once.                *)
(***************************************************************************)
THEOREM ListsAlwaysAgree == Spec => []ListsAgree
<1>1. SchedInv => ListsAgree
  <2> SUFFICES ASSUME SchedInv PROVE ListsAgree
    OBVIOUS
  <2>1. /\ g_priQueueList \in [Priorities -> Seq(Tasks)]
        /\ \A p \in Priorities : /\ IsInjective(g_priQueueList[p])
                                 /\ ToSet(g_priQueueList[p]) = {t \in ReadySet : priority[t] = p}
        /\ priority \in [Tasks -> Priorities]
    BY DEF SchedInv, ListsInv, QueuesHold, Typed
  <2>2. LinkHolds(g_taskSortLink, Asleep)
    BY DEF SchedInv, ListsInv
  <2>3. ASSUME NEW t \in Tasks
        PROVE  Queued(t) = IF Has(t, "READY") THEN {priority[t]} ELSE {}
    <3>1. \A p \in Priorities : Contains(g_priQueueList[p], t) <=> t \in ReadySet /\ priority[t] = p
      BY <2>1, ContainsToSet
    <3> QED
      BY <2>1, <3>1 DEF Queued, ReadySet
  <2>4. ASSUME NEW t \in Tasks
        PROVE  Cardinality(InLink(t)) = IF Timed(t) /\ t # runTask THEN 1 ELSE 0
    <3> DEFINE link == g_taskSortLink
    <3>1. /\ DOMAIN Sleepers(link) = DOMAIN link
          /\ \A i \in DOMAIN link : Sleepers(link)[i] = link[i].task
          /\ \A i, j \in DOMAIN Sleepers(link) : Sleepers(link)[i] = Sleepers(link)[j] => i = j
          /\ \A u : u \in Asleep <=> \E i \in DOMAIN Sleepers(link) : Sleepers(link)[i] = u
      BY <2>2, SleepersType DEF LinkHolds, IsInjective, ToSet
    <3>2. t \in Asleep <=> Timed(t) /\ t # runTask
      BY DEF Asleep
    <3>3. CASE t \in Asleep
      <4>1. PICK i \in DOMAIN link : link[i].task = t
        BY <3>1, <3>3
      <4>2. InLink(t) = {i}
        BY <3>1, <4>1 DEF InLink
      <4> QED
        BY <3>2, <3>3, <4>2, FS_Singleton
    <3>4. CASE t \notin Asleep
      <4>1. InLink(t) = {}
        BY <3>1, <3>4 DEF InLink
      <4> QED
        BY <3>2, <3>4, <4>1, FS_EmptySet
    <3> QED
      BY <3>3, <3>4
  <2> QED
    BY <2>1, <2>3, <2>4 DEF ListsAgree, SchedInv, StatusInv
<1> QED
  BY <1>1, SchedInvariance, PTL

(***************************************************************************)
(* TimersOnTime, for any number of tasks and delays of any length: the     *)
(* list OsSchedScanTimerList walks is sorted, and no wait is overdue by    *)
(* more than the one tick that ended a slice instead.                      *)
(***************************************************************************)
THEOREM TimersAlwaysOnTime == Spec => []TimersOnTime
<1>1. SchedInv => TimersOnTime
  <2> SUFFICES ASSUME SchedInv PROVE TimersOnTime
    OBVIOUS
  <2>1. /\ \A i \in DOMAIN g_taskSortLink : g_taskSortLink[i].left \in Int
        /\ Sorted(g_taskSortLink)
    BY SleepersType DEF SchedInv, ListsInv, LinkHolds
  <2>2. g_schedResponseTime \in Nat \ {0} /\ TimerInv
    BY DEF SchedInv, Typed
  <2>3. \A i \in DOMAIN g_taskSortLink : g_taskSortLink[i].left >= 0
    BY <2>1, <2>2 DEF TimerInv
  <2> QED
    BY <2>1, <2>3 DEF TimersOnTime, Sorted
<1> QED
  BY <1>1, SchedInvariance, PTL

-----------------------------------------------------------------------------
(***************************************************************************)
(* The priority rule.  An action either leaves a switch due, or the        *)
(* scheduler locked, or readies nobody and changes no priority that counts.*)
(***************************************************************************)
LEMMA DueNotYet ==
  ASSUME SwitchDue' \/ g_losTaskLock' # 0
  PROVE  StrongestRuns'
  BY DEF StrongestRuns, SwitchDue

LEMMA StrongestKept ==
  ASSUME Typed, StrongestRuns, ReadySet' \subseteq ReadySet,
         UNCHANGED <<runTask, priority, pc, swPending, g_losTaskLock>>
  PROVE  StrongestRuns'
  BY DEF StrongestRuns, ReadySet

LEMMA WillScheduleDue ==
  ASSUME Typed, runTask \in Tasks, Idle \notin Tasks, WillSchedule, runTask' = runTask
  PROVE  SwitchDue'
  BY DEF WillSchedule, SwitchDue, Typed

LEMMA SuspendStrongest ==
  ASSUME SchedInv, StrongestRuns, NEW t \in Tasks, NEW inHandler \in BOOLEAN,
         LOS_TaskSuspend(t, inHandler)
  PROVE  StrongestRuns'
<1>0. Typed /\ StatusInv /\ Tasks \subseteq AllTasks /\ taskStatus \in [AllTasks -> SUBSET Bits]
  BY DEF SchedInv, AllTasks, Typed
<1>1. /\ ~inHandler => InTask
      /\ ~(Has(t, "RUNNING") /\ g_losTaskLock # 0)
      /\ taskStatus' = [taskStatus EXCEPT ![t] = (@ \ {"READY"}) \cup {"SUSPEND"}]
      /\ IF t = runTask THEN ThenSchedule(inHandler) ELSE UNCHANGED <<pc, swPending>>
      /\ UNCHANGED <<priority, runTask, g_losTaskLock>>
  BY DEF LOS_TaskSuspend
<1>2. CASE t = runTask
  <2>1. g_losTaskLock = 0
    BY <1>0, <1>1, <1>2 DEF StatusInv
  <2>2. SwitchDue'
    BY <1>0, <1>1, <1>2, <2>1, ThenScheduleDue
  <2> QED
    BY <2>2, DueNotYet
<1>3. CASE t # runTask
  <2>1. ReadySet' \subseteq ReadySet
    BY <1>0, <1>1 DEF ReadySet, Has
  <2> QED
    BY <1>0, <1>1, <1>3, <2>1, StrongestKept
<1> QED
  BY <1>2, <1>3

LEMMA ResumeStrongest ==
  ASSUME SchedInv, StrongestRuns, NEW t \in Tasks, NEW inHandler \in BOOLEAN,
         LOS_TaskResume(t, inHandler)
  PROVE  StrongestRuns'
<1>0. Typed /\ StatusInv /\ Tasks \subseteq AllTasks /\ taskStatus \in [AllTasks -> SUBSET Bits]
  BY DEF SchedInv, AllTasks, Typed
<1>1. /\ ~inHandler => InTask
      /\ UNCHANGED <<priority, runTask, g_losTaskLock>>
  BY DEF LOS_TaskResume
<1>2. CASE Has(t, "DELAY") \/ Has(t, "PEND")
  <2>1. /\ taskStatus' = [taskStatus EXCEPT ![t] = @ \ {"SUSPEND"}]
        /\ UNCHANGED <<pc, swPending>>
    BY <1>2 DEF LOS_TaskResume
  <2>2. ReadySet' \subseteq ReadySet
    BY <1>0, <2>1 DEF ReadySet, Has
  <2> QED
    BY <1>0, <1>1, <2>1, <2>2, StrongestKept
<1>3. CASE ~(Has(t, "DELAY") \/ Has(t, "PEND"))
  <2>1. ThenSchedule(inHandler)
    BY <1>3 DEF LOS_TaskResume
  <2>2. SwitchDue' \/ g_losTaskLock' # 0
    BY <1>0, <1>1, <2>1, ThenScheduleDue
  <2> QED
    BY <2>2, DueNotYet
<1> QED
  BY <1>2, <1>3

LEMMA TaskCallStrongest ==
  ASSUME SchedInv, StrongestRuns, TaskCall
  PROVE  StrongestRuns'
<1>0. Typed /\ StatusInv /\ Idle \notin Tasks
  BY SchedulerAssumption DEF SchedInv
<1>1. ASSUME InTask, WillSchedule, runTask' = runTask
      PROVE  StrongestRuns'
  BY <1>0, <1>1, InTaskReady, WillScheduleDue, DueNotYet
<1>2. CASE \E ticks \in Delays : LOS_TaskDelay(ticks)
  BY <1>1, <1>2 DEF LOS_TaskDelay
<1>3. CASE LOS_TaskYield
  BY <1>1, <1>3 DEF LOS_TaskYield
<1>4. CASE LOS_TaskLock
  <2>1. g_losTaskLock' # 0
    BY <1>0, <1>4 DEF LOS_TaskLock, Typed
  <2> QED
    BY <2>1, DueNotYet
<1>5. CASE LOS_TaskUnlock
  <2>1. CASE g_losTaskLock' = 0
    BY <1>1, <1>5, <2>1 DEF LOS_TaskUnlock
  <2>2. CASE g_losTaskLock' # 0
    BY <2>2, DueNotYet
  <2> QED
    BY <2>1, <2>2
<1>6. CASE \E t \in Tasks, p \in Priorities : LOS_TaskPriSet(t, p)
  <2>1. PICK t \in Tasks, p \in Priorities : LOS_TaskPriSet(t, p)
    BY <1>6
  <2>2. /\ InTask /\ UNCHANGED <<taskStatus, runTask, g_losTaskLock>>
        /\ priority' = [priority EXCEPT ![t] = p]
        /\ IF Has(t, "READY") \/ Has(t, "RUNNING") THEN WillSchedule
                                                   ELSE UNCHANGED <<pc, swPending>>
    BY <2>1 DEF LOS_TaskPriSet
  <2>3. CASE Has(t, "READY") \/ Has(t, "RUNNING")
    BY <1>1, <2>2, <2>3
  <2>4. CASE ~Has(t, "READY") /\ ~Has(t, "RUNNING")
    <3>1. runTask \in Tasks /\ runTask # t
      BY <1>0, <2>2, <2>4, InTaskReady DEF StatusInv, AllTasks
    <3>2. priority'[runTask] = priority[runTask] /\ \A u \in Tasks \ {t} : priority'[u] = priority[u]
      BY <1>0, <2>2, <3>1 DEF Typed
    <3> QED
      BY <2>2, <2>4, <3>1, <3>2 DEF StrongestRuns, Has
  <2> QED
    BY <2>3, <2>4
<1> QED
  <2>1. (\E t \in Tasks : LOS_TaskSuspend(t, FALSE)) => StrongestRuns'
    BY <1>0, SuspendStrongest
  <2>2. (\E t \in Tasks : LOS_TaskResume(t, FALSE)) => StrongestRuns'
    BY <1>0, ResumeStrongest
  <2> QED
    BY <1>2, <1>3, <1>4, <1>5, <1>6, <2>1, <2>2 DEF TaskCall

LEMMA NextStrongest == SchedInv /\ StrongestRuns /\ [Next]_schedVars => StrongestRuns'
<1> SUFFICES ASSUME SchedInv, StrongestRuns, [Next]_schedVars PROVE StrongestRuns'
  OBVIOUS
<1>0. Typed /\ StatusInv
  BY DEF SchedInv
<1>1. CASE UNCHANGED schedVars
  <2>1. UNCHANGED <<taskStatus, runTask, priority, pc, swPending, g_losTaskLock>>
    BY <1>1 DEF schedVars, queueVars, cpuVars
  <2>2. ReadySet' = ReadySet
    BY <2>1 DEF ReadySet, Has
  <2> QED
    BY <1>0, <2>1, <2>2, StrongestKept
<1>2. CASE TaskCall
  BY <1>2, TaskCallStrongest
<1>3. CASE HandlerCall
  BY <1>0, <1>3, SuspendStrongest, ResumeStrongest DEF HandlerCall
<1>4. CASE LOS_Schedule
  <2>1. SwitchDue' \/ g_losTaskLock' # 0
    BY <1>4 DEF LOS_Schedule, SwitchDue
  <2> QED
    BY <2>1, DueNotYet
<1>5. CASE OsSchedTaskSwitch
  BY <1>5, SwitchKeeps DEF StrongestRuns, ReadySet
<1>6. CASE Tick
  <2>1. UNCHANGED <<runTask, priority, pc, g_losTaskLock>> /\ ~swPending
    BY <1>6 DEF Tick
  <2>2. CASE NoResponse
    <3>1. UNCHANGED <<taskStatus, swPending>>
      BY <2>2 DEF NoResponse
    <3>2. ReadySet' = ReadySet
      BY <3>1 DEF ReadySet, Has
    <3> QED
      BY <1>0, <2>1, <3>1, <3>2, StrongestKept
  <2>3. CASE LOS_SchedTickHandler
    <3>1. ~swPending' /\ g_losTaskLock = 0 => ReadySet' = ReadySet
      BY <1>6, <2>3, TickHandlerKeeps
    <3>2. CASE swPending' \/ g_losTaskLock # 0
      BY <2>1, <3>2, DueNotYet DEF SwitchDue
    <3>3. CASE ~swPending' /\ g_losTaskLock = 0
      <4>1. swPending' = swPending
        BY <2>1, <2>3, <3>3 DEF LOS_SchedTickHandler
      <4> QED
        BY <1>0, <2>1, <3>1, <3>3, <4>1, StrongestKept
    <3> QED
      BY <3>2, <3>3
  <2> QED
    BY <1>6, <2>2, <2>3 DEF Tick
<1> QED
  BY <1>1, <1>2, <1>3, <1>4, <1>5, <1>6 DEF Next

(***************************************************************************)
(* StrongestRuns, for any number of tasks and priorities: whichever calls, *)
(* handlers and ticks came in between, a task that goes on with no switch  *)
(* due is at least as strong as every READY one.                           *)
(***************************************************************************)
THEOREM StrongestAlwaysRuns == Spec => []StrongestRuns
<1>1. SchedInv /\ StrongestRuns /\ [Next]_schedVars => (SchedInv /\ StrongestRuns)'
  BY NextInv, NextStrongest
<1>2. Init => SchedInv /\ StrongestRuns
  BY InitInv
<1> QED
  BY <1>1, <1>2, PTL DEF Spec

-----------------------------------------------------------------------------
(***************************************************************************)
(* Scheduler implements Processor.  Beyond SchedInv the argument needs     *)
(* that a task nothing holds back is READY or runs, so that the strongest  *)
(* of the ready queues is the strongest of the runnable tasks, and that    *)
(* the software interrupt is never pending under the scheduler lock.       *)
(***************************************************************************)
ReadyInv ==
  /\ swPending => g_losTaskLock = 0
  /\ \A t \in Tasks : StillReady(t) => Has(t, "READY") \/ t = runTask

\* What Processor sees of the status bits.
Waiters == {t \in Tasks : Timed(t) \/ Has(t, "PEND")}
Timers == {t \in Tasks : Timed(t)}
Suspended == {t \in Tasks : Has(t, "SUSPEND")}

LEMMA RunnableStillReady ==
  ASSUME NEW t \in Tasks
  PROVE  t \in Tasks \ (Waiters \cup Suspended) <=> StillReady(t)
  BY DEF Waiters, Suspended, StillReady

LEMMA SameBits ==
  ASSUME UNCHANGED taskStatus
  PROVE  UNCHANGED <<Waiters, Timers, Suspended>>
  BY DEF Waiters, Timers, Suspended, Timed, Has

\* The steps of Processor that Scheduler's steps are, or that are none.
Stutter ==
  UNCHANGED <<Waiters, Timers, Suspended, priority, runTask, g_losTaskLock, SwitchDue>>

LEMMA StutterMaps ==
  ASSUME Stutter
  PROVE  UNCHANGED P!procVars
  BY DEF Stutter, P!procVars, Waiters, Timers, Suspended

LEMMA DueBoolean == SwitchDue \in BOOLEAN /\ SwitchDue' \in BOOLEAN
  BY DEF SwitchDue

LEMMA InTaskMaps ==
  ASSUME InTask
  PROVE  P!InTask /\ ~SwitchDue
  BY DEF InTask, P!InTask, SwitchDue

LEMMA ThenScheduleMaps ==
  ASSUME Typed, NEW inHandler \in BOOLEAN, ~inHandler => InTask,
         ThenSchedule(inHandler), runTask' = runTask
  PROVE  SwitchDue' <=> (~inHandler \/ SwitchDue \/ g_losTaskLock = 0)
<1>1. CASE inHandler
  BY <1>1 DEF ThenSchedule, SwitchDue, Typed
<1>2. CASE ~inHandler
  <2>1. runTask \in Tasks /\ runTask # Idle
    BY <1>2 DEF InTask, Typed, AllTasks
  <2> QED
    BY <1>2, <2>1 DEF ThenSchedule, WillSchedule, SwitchDue, Typed
<1> QED
  BY <1>1, <1>2

LEMMA DelayMaps ==
  ASSUME SchedInv, NEW ticks \in Delays, LOS_TaskDelay(ticks)
  PROVE  P!TaskDelay
<1>0. Typed /\ StatusInv /\ InTask /\ Tasks \subseteq AllTasks
  BY DEF SchedInv, LOS_TaskDelay, AllTasks
<1>1. runTask \in Tasks /\ StillReady(runTask) /\ Idle \notin Tasks
  BY <1>0, InTaskReady
<1>2. /\ taskStatus' = [taskStatus EXCEPT ![runTask] = @ \cup {"DELAY"}] /\ WillSchedule
      /\ g_losTaskLock = 0 /\ "delay" \in Calls /\ UNCHANGED <<priority, runTask, g_losTaskLock>>
  BY DEF LOS_TaskDelay
<1>3. \A t \in Tasks, bit \in {"PEND", "PEND_TIME", "SUSPEND", "DELAY"} :
        bit \in taskStatus'[t] <=> bit \in taskStatus[t] \/ (t = runTask /\ bit = "DELAY")
  BY <1>0, <1>1, <1>2 DEF Typed
<1>4. /\ Waiters' = Waiters \cup {runTask} /\ Timers' = Timers \cup {runTask}
      /\ Suspended' = Suspended
  BY <1>1, <1>3 DEF Waiters, Timers, Suspended, Timed, Has
<1>5. SwitchDue'
  BY <1>0, <1>1, <1>2, WillScheduleDue
<1> QED
  BY <1>0, <1>2, <1>4, <1>5, InTaskMaps
  DEF P!TaskDelay, P!Wait, Waiters, Timers, Suspended

LEMMA YieldMaps ==
  ASSUME SchedInv, LOS_TaskYield
  PROVE  P!TaskYield
<1>0. Typed /\ StatusInv /\ InTask
  BY DEF SchedInv, LOS_TaskYield
<1>1. SwitchDue'
  BY <1>0, InTaskReady, WillScheduleDue DEF LOS_TaskYield
<1>2. UNCHANGED <<Waiters, Timers, Suspended, priority, runTask, g_losTaskLock>>
  BY SameBits DEF LOS_TaskYield
<1> QED
  BY <1>0, <1>1, <1>2, InTaskMaps DEF LOS_TaskYield, P!TaskYield, Waiters, Timers, Suspended

LEMMA LockMaps ==
  ASSUME SchedInv, LOS_TaskLock
  PROVE  P!TaskLock
<1>1. UNCHANGED <<Waiters, Timers, Suspended, priority, runTask, SwitchDue>>
  BY SameBits DEF LOS_TaskLock, queueVars, SwitchDue
<1> QED
  BY <1>1, InTaskMaps DEF LOS_TaskLock, P!TaskLock, Waiters, Timers, Suspended

LEMMA UnlockMaps ==
  ASSUME SchedInv, LOS_TaskUnlock
  PROVE  P!TaskUnlock
<1>0. Typed /\ StatusInv /\ InTask
  BY DEF SchedInv, LOS_TaskUnlock
<1>1. UNCHANGED <<Waiters, Timers, Suspended, priority, runTask>>
  BY SameBits DEF LOS_TaskUnlock, queueVars
<1>2. SwitchDue' <=> g_losTaskLock' = 0
  <2>1. CASE g_losTaskLock' = 0
    BY <1>0, <1>1, <2>1, InTaskReady, WillScheduleDue DEF LOS_TaskUnlock
  <2>2. CASE g_losTaskLock' # 0
    BY <1>0, <1>1, <2>2, InTaskMaps DEF LOS_TaskUnlock, SwitchDue
  <2> QED
    BY <2>1, <2>2
<1> QED
  BY <1>0, <1>1, <1>2, InTaskMaps DEF LOS_TaskUnlock, P!TaskUnlock, Waiters, Timers, Suspended

LEMMA SuspendMaps ==
  ASSUME SchedInv, NEW t \in Tasks, NEW inHandler \in BOOLEAN, LOS_TaskSuspend(t, inHandler)
  PROVE  P!TaskSuspend(t, inHandler)
<1>0. /\ Typed /\ StatusInv /\ Tasks \subseteq AllTasks
      /\ IF inHandler THEN "isr_suspend" \in Calls ELSE InTask /\ "suspend" \in Calls
  BY DEF SchedInv, LOS_TaskSuspend, AllTasks
<1>1. /\ ~Has(t, "SUSPEND") /\ ~(Has(t, "RUNNING") /\ g_losTaskLock # 0)
      /\ taskStatus' = [taskStatus EXCEPT ![t] = (@ \ {"READY"}) \cup {"SUSPEND"}]
      /\ IF t = runTask THEN ThenSchedule(inHandler) ELSE UNCHANGED <<pc, swPending>>
      /\ UNCHANGED <<priority, runTask, g_losTaskLock>>
  BY DEF LOS_TaskSuspend
<1>2. \A u \in Tasks, bit \in {"PEND", "PEND_TIME", "SUSPEND", "DELAY"} :
        bit \in taskStatus'[u] <=> bit \in taskStatus[u] \/ (u = t /\ bit = "SUSPEND")
  BY <1>0, <1>1 DEF Typed
<1>3. Waiters' = Waiters /\ Timers' = Timers /\ Suspended' = Suspended \cup {t}
  BY <1>2 DEF Waiters, Timers, Suspended, Timed, Has
<1>4. t \notin Suspended /\ (t = runTask => g_losTaskLock = 0)
  BY <1>0, <1>1 DEF Suspended, StatusInv
<1>5. IF t = runTask THEN SwitchDue' <=> (~inHandler \/ SwitchDue \/ g_losTaskLock = 0)
                     ELSE SwitchDue' <=> SwitchDue
  <2>1. CASE t = runTask
    BY <1>0, <1>1, <2>1, ThenScheduleMaps
  <2>2. CASE t # runTask
    BY <1>1, <2>2 DEF SwitchDue
  <2> QED
    BY <2>1, <2>2
<1>6. IF t = runTask THEN P!Reschedule(inHandler) ELSE UNCHANGED SwitchDue
  BY <1>5, DueBoolean DEF P!Reschedule
<1>7. IF inHandler THEN "isr_suspend" \in Calls ELSE P!InTask /\ "suspend" \in Calls
  BY <1>0, InTaskMaps
<1> QED
  BY <1>1, <1>3, <1>4, <1>6, <1>7 DEF P!TaskSuspend, Waiters, Timers, Suspended

LEMMA ResumeMaps ==
  ASSUME SchedInv, "isr_resume_running" \in Calls => "isr_resume" \in Calls,
         NEW t \in Tasks, NEW inHandler \in BOOLEAN, LOS_TaskResume(t, inHandler)
  PROVE  P!TaskResume(t, inHandler)
<1>0. /\ Typed /\ StatusInv /\ Tasks \subseteq AllTasks
      /\ IF inHandler THEN "isr_resume" \in Calls ELSE InTask /\ "resume" \in Calls
  BY DEF SchedInv, LOS_TaskResume, AllTasks
<1>1. /\ Has(t, "SUSPEND") /\ UNCHANGED <<priority, runTask, g_losTaskLock>>
      /\ IF Has(t, "DELAY") \/ Has(t, "PEND")
         THEN taskStatus' = [taskStatus EXCEPT ![t] = @ \ {"SUSPEND"}] /\ UNCHANGED <<pc, swPending>>
         ELSE taskStatus' = [taskStatus EXCEPT ![t] = MadeReady(@)] /\ ThenSchedule(inHandler)
  BY DEF LOS_TaskResume
<1>2. t \in Waiters <=> Has(t, "DELAY") \/ Has(t, "PEND")
  BY <1>0 DEF Waiters, Timed, StatusInv
<1>3. \A u \in Tasks, bit \in {"PEND", "PEND_TIME", "SUSPEND", "DELAY"} :
        bit \in taskStatus'[u] <=> bit \in taskStatus[u] /\ ~(u = t /\ bit = "SUSPEND")
  <2>0. taskStatus \in [AllTasks -> SUBSET Bits]
    BY <1>0 DEF Typed
  <2>1. CASE t \in Waiters
    BY <1>0, <1>1, <1>2, <2>0, <2>1
  <2>2. CASE t \notin Waiters
    <3>1. taskStatus[t] \cap {"PEND", "PEND_TIME", "DELAY"} = {}
      BY <2>2 DEF Waiters, Timed, Has
    <3> QED
      BY <1>0, <1>1, <1>2, <2>0, <2>2, <3>1 DEF MadeReady
  <2> QED
    BY <2>1, <2>2
<1>4. Waiters' = Waiters /\ Timers' = Timers /\ Suspended' = Suspended \ {t}
  BY <1>3 DEF Waiters, Timers, Suspended, Timed, Has
<1>5. t \in Suspended
  BY <1>1 DEF Suspended
<1>6. IF t \in Waiters THEN UNCHANGED SwitchDue ELSE P!Reschedule(inHandler)
  <2>1. CASE t \in Waiters
    BY <1>1, <1>2, <2>1 DEF SwitchDue
  <2>2. CASE t \notin Waiters
    <3>1. SwitchDue' <=> (~inHandler \/ SwitchDue \/ g_losTaskLock = 0)
      BY <1>0, <1>1, <1>2, <2>2, ThenScheduleMaps
    <3> QED
      BY <2>2, <3>1, DueBoolean DEF P!Reschedule
  <2> QED
    BY <2>1, <2>2
<1>7. IF inHandler THEN "isr_resume" \in Calls ELSE P!InTask /\ "resume" \in Calls
  BY <1>0, InTaskMaps
<1> QED
  BY <1>1, <1>4, <1>5, <1>6, <1>7 DEF P!TaskResume, Waiters, Timers, Suspended

LEMMA PriSetMaps ==
  ASSUME SchedInv, ReadyInv, NEW t \in Tasks, NEW p \in Priorities, LOS_TaskPriSet(t, p)
  PROVE  P!TaskPriSet(t, p)
<1>0. Typed /\ StatusInv /\ InTask /\ Tasks \subseteq AllTasks
  BY DEF SchedInv, LOS_TaskPriSet, AllTasks
<1>1. runTask \in Tasks /\ StillReady(runTask) /\ Idle \notin Tasks
  BY <1>0, InTaskReady
<1>2. /\ "priority" \in Calls /\ priority' = [priority EXCEPT ![t] = p]
      /\ IF Has(t, "READY") \/ Has(t, "RUNNING") THEN WillSchedule ELSE UNCHANGED <<pc, swPending>>
      /\ UNCHANGED <<taskStatus, runTask, g_losTaskLock>>
  BY DEF LOS_TaskPriSet
<1>3. t \in Tasks \ (Waiters \cup Suspended) <=> Has(t, "READY") \/ Has(t, "RUNNING")
  <2>1. Has(t, "RUNNING") <=> t = runTask
    BY <1>0 DEF StatusInv
  <2>2. StillReady(t) => Has(t, "READY") \/ t = runTask
    BY DEF ReadyInv
  <2>3. Has(t, "READY") => StillReady(t)
    BY <1>0 DEF StatusInv
  <2>4. t \in Tasks \ (Waiters \cup Suspended) <=> StillReady(t)
    BY RunnableStillReady
  <2> QED
    BY <1>1, <2>1, <2>2, <2>3, <2>4
<1>4. IF t \in Tasks \ (Waiters \cup Suspended) THEN P!Reschedule(FALSE) ELSE UNCHANGED SwitchDue
  <2>1. CASE Has(t, "READY") \/ Has(t, "RUNNING")
    <3>1. SwitchDue'
      BY <1>0, <1>1, <1>2, <2>1, WillScheduleDue
    <3> QED
      BY <1>3, <2>1, <3>1, DueBoolean DEF P!Reschedule
  <2>2. CASE ~(Has(t, "READY") \/ Has(t, "RUNNING"))
    <3>1. UNCHANGED <<pc, swPending, runTask>>
      BY <1>2, <2>2
    <3>2. UNCHANGED SwitchDue
      BY <3>1 DEF SwitchDue
    <3> QED
      BY <1>3, <2>2, <3>2
  <2> QED
    BY <2>1, <2>2
<1>5. UNCHANGED <<Waiters, Timers, Suspended>>
  BY <1>2, SameBits
<1> QED
  BY <1>0, <1>2, <1>4, <1>5, InTaskMaps
  DEF P!TaskPriSet, P!Runnable, Waiters, Timers, Suspended

LEMMA ScheduleMaps ==
  ASSUME SchedInv, LOS_Schedule
  PROVE  P!NoSwitch \/ UNCHANGED P!procVars
<1>0. /\ Typed /\ ~swPending /\ runTask \in Tasks /\ runTask # Idle /\ SwitchDue
      /\ pc' = [pc EXCEPT ![runTask] = "code"] /\ (swPending' <=> g_losTaskLock = 0)
      /\ UNCHANGED <<taskStatus, priority, runTask, g_losTaskLock>>
  BY DEF SchedInv, LOS_Schedule, queueVars, SwitchDue, Typed, AllTasks
<1>1. UNCHANGED <<Waiters, Timers, Suspended>>
  BY <1>0, SameBits
<1>2. CASE g_losTaskLock = 0
  <2>1. SwitchDue'
    BY <1>0, <1>2 DEF SwitchDue
  <2>2. Stutter
    BY <1>0, <1>1, <2>1, DueBoolean DEF Stutter
  <2> QED
    BY <2>2, StutterMaps
<1>3. CASE g_losTaskLock # 0
  <2>1. g_losTaskLock > 0
    BY <1>0, <1>3 DEF Typed
  <2>2. ~SwitchDue'
    BY <1>0, <1>3 DEF SwitchDue, Typed
  <2> QED
    BY <1>0, <1>1, <2>1, <2>2, DueBoolean DEF P!NoSwitch, Waiters, Timers, Suspended
<1> QED
  BY <1>2, <1>3

\* A switch changes none of the bits that hold a task back.
LEMMA SwitchBits ==
  ASSUME SchedInv, OsSchedTaskSwitch
  PROVE  \A t \in AllTasks, bit \in Bits \ {"READY", "RUNNING"} : Has(t, bit)' <=> Has(t, bit)
<1>0. runTask \in AllTasks /\ taskStatus \in [AllTasks -> SUBSET Bits]
  BY DEF SchedInv, Typed
<1> DEFINE stopped == IF StillReady(runTask) THEN MadeReady(taskStatus[runTask])
                                             ELSE taskStatus[runTask]
<1>1. PICK newTask \in AllTasks :
        taskStatus' = [[taskStatus EXCEPT ![runTask] = stopped \ {"RUNNING"}]
                        EXCEPT ![newTask] = (@ \ {"READY"}) \cup {"RUNNING"}]
  BY DEF OsSchedTaskSwitch
<1>2. \A bit \in Bits \ {"READY", "RUNNING"} : bit \in stopped <=> bit \in taskStatus[runTask]
  BY DEF StillReady, Timed, Has, MadeReady
<1> HIDE DEF stopped
<1>3. \A t \in AllTasks, bit \in Bits \ {"READY", "RUNNING"} :
        bit \in taskStatus'[t] <=> bit \in taskStatus[t]
  BY <1>0, <1>1, <1>2
<1> QED
  BY <1>3 DEF Has

LEMMA SwitchMaps ==
  ASSUME SchedInv, ReadyInv, OsSchedTaskSwitch
  PROVE  P!Switch /\ ReadyInv'
<1>0. /\ Typed /\ StatusInv /\ Idle \notin Tasks /\ Tasks \subseteq AllTasks
      /\ swPending /\ ~swPending' /\ g_losTaskLock = 0
      /\ UNCHANGED <<priority, pc, g_losTaskLock>>
  BY SchedulerAssumption DEF SchedInv, OsSchedTaskSwitch, ReadyInv, AllTasks
<1>1. \A t \in AllTasks, bit \in Bits \ {"READY", "RUNNING"} : Has(t, bit)' <=> Has(t, bit)
  BY SwitchBits
<1>2. /\ Typed' /\ StatusInv'
      /\ \A t \in ReadySet' : runTask' # Idle /\ priority'[runTask'] <= priority'[t]
      /\ \A t : t = runTask' => StillReady(t)'
  BY SwitchKeeps DEF SchedInv
<1>3. \A t \in Tasks : /\ Timed(t)' <=> Timed(t)
                       /\ Has(t, "PEND")' <=> Has(t, "PEND")
                       /\ Has(t, "SUSPEND")' <=> Has(t, "SUSPEND")
                       /\ StillReady(t)' <=> StillReady(t)
  <2>1. {"PEND", "SUSPEND", "DELAY", "PEND_TIME"} \subseteq Bits \ {"READY", "RUNNING"}
    BY DEF Bits
  <2> QED
    BY <1>0, <1>1, <2>1 DEF Timed, StillReady
<1>4. UNCHANGED <<Waiters, Timers, Suspended>>
  BY <1>3 DEF Waiters, Timers, Suspended
<1>5. ASSUME NEW t \in Tasks, StillReady(t)', t # runTask'
      PROVE  Has(t, "READY")'
  <2>1. PICK newTask \in AllTasks :
          /\ taskStatus' =
               [[taskStatus EXCEPT ![runTask] = (IF StillReady(runTask) THEN MadeReady(taskStatus[runTask])
                                                 ELSE taskStatus[runTask]) \ {"RUNNING"}]
                    EXCEPT ![newTask] = (@ \ {"READY"}) \cup {"RUNNING"}]
          /\ runTask' = newTask
    BY DEF OsSchedTaskSwitch
  <2>2. StillReady(t) /\ t # newTask /\ t \in AllTasks
    BY <1>0, <1>3, <1>5, <2>1
  <2>3. taskStatus \in [AllTasks -> SUBSET Bits] /\ runTask \in AllTasks
    BY <1>0 DEF Typed
  <2>4. CASE t = runTask
    <3>1. taskStatus'[t] = MadeReady(taskStatus[t]) \ {"RUNNING"}
      BY <2>1, <2>2, <2>3, <2>4
    <3> QED
      BY <3>1 DEF Has, MadeReady
  <2>5. CASE t # runTask
    <3>1. taskStatus'[t] = taskStatus[t]
      BY <2>1, <2>2, <2>3, <2>5
    <3> QED
      BY <2>2, <2>5, <3>1 DEF Has, ReadyInv
  <2> QED
    BY <2>4, <2>5
<1>6. ReadyInv'
  BY <1>0, <1>5 DEF ReadyInv
<1>7. \A t \in Tasks : StillReady(t) => t \in ReadySet' \/ t = runTask'
  BY <1>3, <1>5 DEF ReadySet
<1>8. runTask' \in P!Candidates
  <2> DEFINE runnable == Tasks \ (Waiters \cup Suspended)
  <2>1. \A t \in runnable : t \in Tasks /\ StillReady(t)
    BY RunnableStillReady
  <2>2. CASE runTask' = Idle
    <3>1. runnable = {}
      BY <1>0, <1>2, <1>7, <2>1, <2>2
    <3> QED
      BY <2>2, <3>1 DEF P!Candidates, P!Runnable, Waiters, Suspended
  <2>3. CASE runTask' # Idle
    <3>1. runTask' \in Tasks
      BY <1>2, <2>3 DEF Typed, AllTasks
    <3>2. runTask' \in runnable
      <4>1. \A t \in Tasks : t = runTask' => StillReady(t)
        BY <1>2, <1>3
      <4>2. StillReady(runTask')
        BY <3>1, <4>1
      <4> QED
        BY <3>1, <4>2, RunnableStillReady
    <3>3. \A t \in runnable : priority[runTask'] <= priority[t]
      <4>1. priority[runTask'] \in Nat
        BY <1>0, <3>1, SchedulerAssumption DEF Typed
      <4> QED
        BY <1>0, <1>2, <1>7, <2>1, <4>1
    <3> QED
      BY <3>1, <3>2, <3>3 DEF P!Candidates, P!Strongest, P!Runnable, Waiters, Suspended
  <2> QED
    BY <2>2, <2>3
<1>9. SwitchDue /\ SwitchDue' \in {FALSE, runTask' # Idle}
  BY <1>0 DEF SwitchDue
<1> QED
  BY <1>0, <1>4, <1>6, <1>8, <1>9, DueBoolean DEF P!Switch, Waiters, Timers, Suspended

LEMMA TickMaps ==
  ASSUME SchedInv, ReadyInv, Tick
  PROVE  /\ (\E ts \in SUBSET Tasks : P!Elapse(ts)) \/ UNCHANGED P!procVars
         /\ ReadyInv'
<1>0. /\ Typed /\ StatusInv /\ ListsInv /\ ~swPending /\ Tasks \subseteq AllTasks
      /\ UNCHANGED <<priority, pc, runTask, g_losTaskLock>>
  BY DEF SchedInv, Tick, AllTasks
<1>1. CASE NoResponse
  <2>1. UNCHANGED <<taskStatus, swPending>>
    BY <1>1 DEF NoResponse
  <2>2. Stutter /\ ReadyInv'
    BY <1>0, <2>1, SameBits DEF Stutter, SwitchDue, ReadyInv, StillReady, Timed, Has
  <2> QED
    BY <2>2, StutterMaps
<1>2. CASE LOS_SchedTickHandler
  <2> DEFINE passed == TickLeft(g_taskSortLink)
  <2>1. PICK woken \in SUBSET Tasks :
          /\ woken = IF g_schedResponseID = OS_INVALID THEN Expired(passed) ELSE {}
          /\ taskStatus' = [t \in AllTasks |-> IF t \in woken THEN TimedOut(taskStatus[t])
                                                              ELSE taskStatus[t]]
          /\ IF NeedSched({t \in woken : ~Has(t, "SUSPEND")}) THEN swPending' = TRUE
                                                              ELSE UNCHANGED swPending
    BY <1>2 DEF LOS_SchedTickHandler
  <2>2. \A t \in woken : t \in Tasks /\ Timed(t)
    <3>1. LinkHolds(passed, Asleep)
      BY <1>0, TickLeftHold DEF ListsInv
    <3>2. \A i \in DOMAIN passed : passed[i].task \in Asleep
      BY <3>1, SleepersType DEF LinkHolds, ToSet
    <3> QED
      BY <2>1, <3>2 DEF Expired, Asleep
  <2>3. ASSUME NEW t \in Tasks
        PROVE  /\ Has(t, "PEND")' <=> Has(t, "PEND") /\ t \notin woken
               /\ Timed(t)' <=> Timed(t) /\ t \notin woken
               /\ Has(t, "SUSPEND")' <=> Has(t, "SUSPEND")
               /\ Has(t, "READY")' <=> Has(t, "READY") \/ (t \in woken /\ ~Has(t, "SUSPEND"))
    <3>1. CASE t \in woken
      <4>1. taskStatus'[t] = TimedOut(taskStatus[t]) /\ "READY" \notin taskStatus[t]
        BY <1>0, <2>1, <2>2, <3>1 DEF StatusInv, StillReady, Has
      <4>2. CASE "SUSPEND" \in taskStatus[t]
        BY <3>1, <4>1, <4>2 DEF TimedOut, Has, Timed
      <4>3. CASE "SUSPEND" \notin taskStatus[t]
        BY <3>1, <4>1, <4>3 DEF TimedOut, MadeReady, Has, Timed
      <4> QED
        BY <4>2, <4>3
    <3>2. CASE t \notin woken
      <4>1. taskStatus'[t] = taskStatus[t]
        BY <1>0, <2>1, <3>2
      <4> QED
        BY <3>2, <4>1 DEF Has, Timed
    <3> QED
      BY <3>1, <3>2
  <2>4. Waiters' = Waiters \ woken /\ Timers' = Timers \ woken /\ Suspended' = Suspended
    BY <2>3 DEF Waiters, Timers, Suspended
  <2>5. woken \subseteq Timers
    BY <2>2 DEF Timers
  <2>6. SwitchDue' <=> SwitchDue \/ (g_losTaskLock = 0 /\ ~(woken \subseteq Suspended))
    <3>1. NeedSched({t \in woken : ~Has(t, "SUSPEND")})
            <=> g_losTaskLock = 0 /\ ~(woken \subseteq Suspended)
      BY <2>2 DEF NeedSched, Suspended
    <3> QED
      BY <1>0, <2>1, <3>1 DEF SwitchDue
  <2>7. ReadyInv'
    <3>1. \A t \in Tasks : (StillReady(t) => Has(t, "READY") \/ t = runTask)'
      BY <1>0, <2>3 DEF ReadyInv, StillReady
    <3>2. swPending' => g_losTaskLock = 0
      BY <1>0, <2>1 DEF NeedSched
    <3> QED
      BY <1>0, <3>1, <3>2 DEF ReadyInv
  <2>8. CASE woken = {}
    <3>1. Stutter
      BY <1>0, <2>4, <2>6, <2>8, DueBoolean DEF Stutter
    <3> QED
      BY <2>7, <3>1, StutterMaps
  <2>9. CASE woken # {}
    <3>1. P!Wake(woken)
      BY <2>4 DEF P!Wake, Waiters, Timers
    <3>2. SwitchDue' = (SwitchDue \/ (g_losTaskLock = 0 /\ ~(woken \subseteq Suspended)))
      BY <2>6, DueBoolean
    <3>3. P!Elapse(woken)
      BY <1>0, <2>4, <2>5, <2>9, <3>1, <3>2 DEF P!Elapse, Timers, Suspended
    <3> QED
      BY <2>7, <3>3
  <2> QED
    BY <2>8, <2>9
<1> QED
  BY <1>1, <1>2 DEF Tick

LEMMA TaskCallReady ==
  ASSUME SchedInv, ReadyInv, TaskCall \/ HandlerCall \/ LOS_Schedule
  PROVE  ReadyInv'
<1>0. /\ Typed /\ StatusInv /\ Tasks \subseteq AllTasks
      /\ taskStatus \in [AllTasks -> SUBSET Bits]
  BY DEF SchedInv, AllTasks, Typed
<1>1. ASSUME UNCHANGED <<taskStatus, runTask>>, swPending' => g_losTaskLock' = 0
      PROVE  ReadyInv'
  BY <1>1 DEF ReadyInv, StillReady, Timed, Has
<1>2. CASE \E ticks \in Delays : LOS_TaskDelay(ticks)
  <2>1. /\ InTask /\ taskStatus' = [taskStatus EXCEPT ![runTask] = @ \cup {"DELAY"}]
        /\ UNCHANGED <<runTask, swPending>>
    BY <1>2 DEF LOS_TaskDelay, WillSchedule
  <2>2. \A t \in Tasks : t # runTask => taskStatus'[t] = taskStatus[t]
    BY <1>0, <2>1
  <2> QED
    BY <2>1, <2>2 DEF ReadyInv, InTask, StillReady, Timed, Has
<1>3. CASE LOS_TaskYield \/ LOS_TaskLock \/ LOS_TaskUnlock
  <2>1. UNCHANGED <<taskStatus, runTask, swPending>> /\ ~swPending
    BY <1>3 DEF LOS_TaskYield, LOS_TaskLock, LOS_TaskUnlock, WillSchedule, InTask, queueVars
  <2> QED
    BY <1>1, <2>1
<1>4. CASE \E t \in Tasks, inHandler \in BOOLEAN : LOS_TaskSuspend(t, inHandler)
  <2>1. PICK t \in Tasks, inHandler \in BOOLEAN : LOS_TaskSuspend(t, inHandler)
    BY <1>4
  <2>2. /\ taskStatus' = [taskStatus EXCEPT ![t] = (@ \ {"READY"}) \cup {"SUSPEND"}]
        /\ UNCHANGED <<runTask, g_losTaskLock>>
        /\ swPending' = swPending \/ ThenSchedule(inHandler)
    BY <2>1 DEF LOS_TaskSuspend
  <2>3. swPending' => swPending \/ g_losTaskLock = 0
    BY <1>0, <2>2 DEF ThenSchedule, WillSchedule, Typed
  <2>4. /\ \A u \in Tasks : u # t => taskStatus'[u] = taskStatus[u]
        /\ "SUSPEND" \in taskStatus'[t]
    BY <1>0, <2>2
  <2> QED
    BY <2>2, <2>3, <2>4 DEF ReadyInv, StillReady, Timed, Has
<1>5. CASE \E t \in Tasks, inHandler \in BOOLEAN : LOS_TaskResume(t, inHandler)
  <2>1. PICK t \in Tasks, inHandler \in BOOLEAN : LOS_TaskResume(t, inHandler)
    BY <1>5
  <2>2. /\ IF Has(t, "DELAY") \/ Has(t, "PEND")
           THEN taskStatus' = [taskStatus EXCEPT ![t] = @ \ {"SUSPEND"}]
           ELSE taskStatus' = [taskStatus EXCEPT ![t] = MadeReady(@)]
        /\ UNCHANGED <<runTask, g_losTaskLock>>
        /\ swPending' = swPending \/ ThenSchedule(inHandler)
    BY <2>1 DEF LOS_TaskResume
  <2>3. swPending' => swPending \/ g_losTaskLock = 0
    BY <1>0, <2>2 DEF ThenSchedule, WillSchedule, Typed
  <2>4. /\ \A u \in Tasks : u # t => taskStatus'[u] = taskStatus[u]
        /\ {"PEND", "DELAY", "READY"} \cap taskStatus'[t] # {}
    BY <1>0, <2>2 DEF Has, MadeReady
  <2> QED
    BY <2>2, <2>3, <2>4 DEF ReadyInv, StillReady, Timed, Has
<1>6. CASE \E t \in Tasks, p \in Priorities : LOS_TaskPriSet(t, p)
  <2>1. UNCHANGED <<taskStatus, runTask, swPending>> /\ ~swPending
    BY <1>6 DEF LOS_TaskPriSet, WillSchedule, InTask
  <2> QED
    BY <1>1, <2>1
<1>7. CASE LOS_Schedule
  BY <1>1, <1>7 DEF LOS_Schedule, queueVars
<1> QED
  BY <1>2, <1>3, <1>4, <1>5, <1>6, <1>7 DEF TaskCall, HandlerCall

LEMMA NextMaps ==
  ASSUME "isr_resume_running" \in Calls => "isr_resume" \in Calls,
         SchedInv, ReadyInv, [Next]_schedVars
  PROVE  [P!ProcNext]_(P!procVars) /\ ReadyInv'
<1>1. CASE UNCHANGED schedVars
  <2>1. UNCHANGED <<taskStatus, priority, pc, runTask, g_losTaskLock, swPending>>
    BY <1>1 DEF schedVars, queueVars, cpuVars
  <2>2. Stutter /\ ReadyInv'
    BY <2>1, SameBits DEF Stutter, SwitchDue, ReadyInv, StillReady, Timed, Has
  <2> QED
    BY <2>2, StutterMaps
<1>2. CASE TaskCall
  <2>1. \/ P!TaskDelay \/ P!TaskYield \/ P!TaskLock \/ P!TaskUnlock
        \/ \E t \in Tasks : P!TaskSuspend(t, FALSE) \/ P!TaskResume(t, FALSE)
        \/ \E t \in Tasks, p \in Priorities : P!TaskPriSet(t, p)
    <3>1. CASE \E ticks \in Delays : LOS_TaskDelay(ticks)
      BY <3>1, DelayMaps
    <3>2. CASE LOS_TaskYield \/ LOS_TaskLock \/ LOS_TaskUnlock
      BY <3>2, YieldMaps, LockMaps, UnlockMaps
    <3>3. CASE \E t \in Tasks : LOS_TaskSuspend(t, FALSE)
      BY <3>3, SuspendMaps
    <3>4. CASE \E t \in Tasks : LOS_TaskResume(t, FALSE)
      BY <3>4, ResumeMaps
    <3>5. CASE \E t \in Tasks, p \in Priorities : LOS_TaskPriSet(t, p)
      BY <3>5, PriSetMaps
    <3> QED
      BY <1>2, <3>1, <3>2, <3>3, <3>4, <3>5 DEF TaskCall
  <2> QED
    BY <1>2, <2>1, TaskCallReady DEF P!ProcNext, P!ProcTaskCall
<1>3. CASE HandlerCall
  <2>1. \E t \in Tasks : P!TaskSuspend(t, TRUE) \/ P!TaskResume(t, TRUE)
    BY <1>3, SuspendMaps, ResumeMaps DEF HandlerCall
  <2> QED
    BY <1>3, <2>1, TaskCallReady DEF P!ProcNext, P!ProcHandlerCall
<1>4. CASE LOS_Schedule
  BY <1>4, ScheduleMaps, TaskCallReady DEF P!ProcNext
<1>5. CASE OsSchedTaskSwitch
  BY <1>5, SwitchMaps DEF P!ProcNext
<1>6. CASE Tick
  BY <1>6, TickMaps DEF P!ProcNext
<1> QED
  BY <1>1, <1>2, <1>3, <1>4, <1>5, <1>6 DEF Next

(***************************************************************************)
(* The scheduler implements Processor, for any number of tasks and         *)
(* priorities and every interleaving of calls, handlers, ticks and task    *)
(* switches.  Processor lets handlers resume the running task under        *)
(* "isr_resume", which the hypothesis on Calls accounts for.               *)
(***************************************************************************)
THEOREM ProcessorRefinement ==
  ASSUME "isr_resume_running" \in Calls => "isr_resume" \in Calls
  PROVE  Spec => ImplementsProcessor
<1>1. Init => P!ProcInit /\ ReadyInv
  <2> SUFFICES ASSUME Init PROVE P!ProcInit /\ ReadyInv
    OBVIOUS
  <2>0. SchedInv /\ StrongestRuns
    BY InitInv
  <2>1. /\ taskStatus = [t \in AllTasks |-> IF t = runTask THEN {"RUNNING"} ELSE {"READY"}]
        /\ priority = InitPriority /\ pc = [t \in Tasks |-> "code"]
        /\ g_losTaskLock = 0 /\ ~swPending
        /\ runTask \in AllTasks /\ Idle \notin Tasks /\ Tasks \subseteq AllTasks
    BY <2>0, SchedulerAssumption DEF Init, SchedInv, Typed, AllTasks
  <2>2. \A t \in Tasks : taskStatus[t] = IF t = runTask THEN {"RUNNING"} ELSE {"READY"}
    BY <2>1
  <2>3. Waiters = {} /\ Timers = {} /\ Suspended = {} /\ ReadyInv
    BY <2>1, <2>2 DEF Waiters, Timers, Suspended, ReadyInv, StillReady, Timed, Has
  <2>4. ~SwitchDue
    BY <2>1 DEF SwitchDue, AllTasks
  <2>5. \A t \in Tasks : t # runTask => runTask # Idle /\ priority[runTask] <= priority[t]
    <3>1. \A t \in Tasks : t # runTask => Has(t, "READY")
      BY <2>2 DEF Has
    <3>2. runTask # Idle => pc[runTask] = "code"
      BY <2>1 DEF AllTasks
    <3> QED
      BY <2>0, <2>1, <3>1, <3>2 DEF StrongestRuns
  <2>6. runTask \in P!Candidates
    <3> DEFINE runnable == Tasks \ (Waiters \cup Suspended)
    <3>1. runnable = Tasks
      BY <2>3
    <3>2. CASE runTask = Idle
      <4>1. runnable = {}
        BY <2>1, <2>5, <3>1, <3>2
      <4> QED
        BY <3>2, <4>1 DEF P!Candidates, P!Runnable, Waiters, Suspended
    <3>3. CASE runTask # Idle
      <4>1. runTask \in runnable
        BY <2>1, <3>1, <3>3 DEF AllTasks
      <4>2. \A t \in Tasks : priority[t] \in Nat
        BY <2>1, SchedulerAssumption
      <4>3. \A t \in runnable : priority[runTask] <= priority[t]
        BY <2>5, <3>1, <4>1, <4>2
      <4> QED
        BY <4>1, <4>3 DEF P!Candidates, P!Strongest, P!Runnable, Waiters, Suspended
    <3> QED
      BY <3>2, <3>3
  <2> QED
    BY <2>1, <2>3, <2>4, <2>6, DueBoolean DEF P!ProcInit, Waiters, Timers, Suspended
<1>2. SchedInv /\ ReadyInv /\ [Next]_schedVars => [P!ProcNext]_(P!procVars) /\ ReadyInv'
  BY NextMaps
<1> QED
  BY <1>1, <1>2, SchedInvariance, PTL DEF Spec, ImplementsProcessor, P!ProcSpec

-----------------------------------------------------------------------------
(* The event control block. *)

(***************************************************************************)
(* The invariant.  The pend list holds PEND tasks, each once, and all of   *)
(* them as long as no section has used links that were NULL.  A task that  *)
(* is PEND or was timed out is inside a read, whose mask and mode are      *)
(* those of its caller; it cannot be delayed as well, or OsSchedTaskWake   *)
(* would take it off the timer list and leave it DELAY.                    *)
(***************************************************************************)
PendInv ==
  /\ stEventList \in Seq(Tasks)
  /\ IsInjective(stEventList)
  /\ ToSet(stEventList) \subseteq {t \in Tasks : Has(t, "PEND")}
  /\ ~stray => {t \in Tasks : Has(t, "PEND")} \subseteq ToSet(stEventList)
  /\ \A t \in Tasks : Has(t, "PEND") \/ Has(t, "TIMEOUT") => reading[t]
  /\ \A t \in Tasks : Has(t, "PEND") => ~Has(t, "TIMEOUT") /\ ~Has(t, "DELAY")

ReadInv ==
  /\ reading \in [Tasks -> BOOLEAN]
  /\ DOMAIN eventMask = Tasks /\ DOMAIN eventMode = Tasks
  /\ \A t \in Tasks : reading[t] => /\ t \in Readers
                                    /\ eventMode[t] \in Modes /\ eventMask[t] # {}

\* A task that passed the check of a read is one of the readers, and not yet waiting.
CheckInv ==
  /\ toRead \in [Tasks -> SUBSET Reads]
  /\ \A t \in Tasks : toRead[t] # {} => t \in Readers /\ ~reading[t]

(***************************************************************************)
(* What a reader on the list waits for is not there; what it was woken for *)
(* still is, unless it was robbed of it.                                   *)
(***************************************************************************)
Satisfied(t) == Polled(uwEventID, eventMask[t], eventMode[t]) # {}

WakeInv ==
  /\ \A t \in ToSet(stEventList) : ~Satisfied(t)
  /\ \A t \in Tasks : reading[t] /\ ~Has(t, "PEND") /\ ~Has(t, "TIMEOUT") /\ t \notin robbed
                        => Satisfied(t)

EventInv == PendInv /\ ReadInv /\ CheckInv /\ WakeInv

-----------------------------------------------------------------------------
(***************************************************************************)
(* What the steps of the scheduler do to the bits the event relies on.     *)
(***************************************************************************)
BitsKept ==
  \A t \in Tasks : /\ Has(t, "PEND")' <=> Has(t, "PEND")
                   /\ Has(t, "TIMEOUT")' <=> Has(t, "TIMEOUT")
                   /\ Has(t, "PEND") /\ Has(t, "DELAY")' => Has(t, "DELAY")

LEMMA BitsUnchanged ==
  ASSUME UNCHANGED taskStatus
  PROVE  BitsKept
  BY DEF BitsKept, Has

LEMMA TaskCallBits ==
  ASSUME SchedInv, TaskCall \/ HandlerCall
  PROVE  BitsKept
<1>0. Typed /\ StatusInv /\ Tasks \subseteq AllTasks /\ taskStatus \in [AllTasks -> SUBSET Bits]
  BY DEF SchedInv, AllTasks, Typed
<1>1. CASE \E ticks \in Delays : LOS_TaskDelay(ticks)
  <2>1. InTask /\ taskStatus' = [taskStatus EXCEPT ![runTask] = @ \cup {"DELAY"}]
    BY <1>1 DEF LOS_TaskDelay
  <2>2. runTask \in Tasks /\ ~Has(runTask, "PEND")
    BY <1>0, <2>1, InTaskReady DEF StillReady
  <2> QED
    BY <1>0, <2>1, <2>2 DEF BitsKept, Has
<1>2. CASE LOS_TaskYield \/ LOS_TaskLock \/ LOS_TaskUnlock
  BY <1>2, BitsUnchanged DEF LOS_TaskYield, LOS_TaskLock, LOS_TaskUnlock, queueVars
<1>3. CASE \E t \in Tasks, inHandler \in BOOLEAN : LOS_TaskSuspend(t, inHandler)
  <2>1. PICK t \in Tasks : taskStatus' = [taskStatus EXCEPT ![t] = (@ \ {"READY"}) \cup {"SUSPEND"}]
    BY <1>3 DEF LOS_TaskSuspend
  <2> QED
    BY <1>0, <2>1 DEF BitsKept, Has
<1>4. CASE \E t \in Tasks, inHandler \in BOOLEAN : LOS_TaskResume(t, inHandler)
  <2>1. PICK t \in Tasks : IF Has(t, "DELAY") \/ Has(t, "PEND")
                           THEN taskStatus' = [taskStatus EXCEPT ![t] = @ \ {"SUSPEND"}]
                           ELSE taskStatus' = [taskStatus EXCEPT ![t] = MadeReady(@)]
    BY <1>4 DEF LOS_TaskResume
  <2>2. CASE Has(t, "DELAY") \/ Has(t, "PEND")
    BY <1>0, <2>1, <2>2 DEF BitsKept, Has
  <2>3. CASE ~(Has(t, "DELAY") \/ Has(t, "PEND"))
    BY <1>0, <2>1, <2>3 DEF BitsKept, Has, MadeReady
  <2> QED
    BY <2>2, <2>3
<1>5. CASE \E t \in Tasks, p \in Priorities : LOS_TaskPriSet(t, p)
  BY <1>5, BitsUnchanged DEF LOS_TaskPriSet
<1> QED
  BY <1>1, <1>2, <1>3, <1>4, <1>5 DEF TaskCall, HandlerCall

\* A tick turns PEND into TIMEOUT for the tasks it wakes.
TickBits ==
  \A t \in Tasks : /\ Has(t, "PEND")' => Has(t, "PEND")
                   /\ Has(t, "TIMEOUT")' <=> \/ Has(t, "TIMEOUT")
                                             \/ Has(t, "PEND") /\ ~Has(t, "PEND")'
                   /\ Has(t, "DELAY")' => Has(t, "DELAY")

LEMMA TickBitsHold ==
  ASSUME SchedInv, Tick
  PROVE  TickBits
<1>0. Tasks \subseteq AllTasks
  BY DEF AllTasks
<1>1. CASE NoResponse
  BY <1>1 DEF NoResponse, TickBits, Has
<1>2. CASE LOS_SchedTickHandler
  <2>1. PICK woken \in SUBSET Tasks :
          taskStatus' = [t \in AllTasks |-> IF t \in woken THEN TimedOut(taskStatus[t])
                                                           ELSE taskStatus[t]]
    BY <1>2 DEF LOS_SchedTickHandler
  <2>2. ASSUME NEW t \in Tasks
        PROVE  /\ "PEND" \in taskStatus'[t] => "PEND" \in taskStatus[t]
               /\ "TIMEOUT" \in taskStatus'[t] <=>
                    \/ "TIMEOUT" \in taskStatus[t]
                    \/ "PEND" \in taskStatus[t] /\ "PEND" \notin taskStatus'[t]
               /\ "DELAY" \in taskStatus'[t] => "DELAY" \in taskStatus[t]
    <3>1. CASE t \in woken
      <4>1. taskStatus'[t] = TimedOut(taskStatus[t])
        BY <1>0, <2>1, <3>1
      <4> QED
        BY <4>1 DEF TimedOut, MadeReady
    <3>2. CASE t \notin woken
      <4>1. taskStatus'[t] = taskStatus[t]
        BY <1>0, <2>1, <3>2
      <4> QED
        BY <4>1
    <3> QED
      BY <3>1, <3>2
  <2> QED
    BY <2>2 DEF TickBits, Has
<1> QED
  BY <1>1, <1>2 DEF Tick

-----------------------------------------------------------------------------
(***************************************************************************)
(* The steps of the event keep the invariant of the scheduler.             *)
(***************************************************************************)
LEMMA ReadWaitsSched ==
  ASSUME SchedInv, NEW r \in Reads, ReadWaits(r)
  PROVE  SchedInv'
<1> DEFINE bits == IF r.timeOut = FOREVER THEN {"PEND"} ELSE {"PEND", "PEND_TIME"}
<1>0. Typed /\ StatusInv /\ InTask
  BY DEF SchedInv, ReadWaits, EnterRead
<1>1. /\ runTask \in Tasks /\ StillReady(runTask) /\ ~Has(runTask, "READY")
      /\ runTask # Idle /\ ~swPending
  BY <1>0, InTaskReady
<1>2. /\ taskStatus' = [taskStatus EXCEPT ![runTask] = @ \cup bits]
      /\ pc' = [pc EXCEPT ![runTask] = "schedule"] /\ swPending' = swPending
      /\ g_losTaskLock = 0
      /\ UNCHANGED <<priority, timeSlice, g_priQueueList, g_taskSortLink, runTask,
                     g_losTaskLock, g_schedResponseTime, g_schedResponseID>>
  BY DEF ReadWaits, WillSchedule
<1>3. /\ waitTimes' \in [Tasks -> Nat]
      /\ "PEND_TIME" \in bits => waitTimes'[runTask] > 0
  <2>1. CASE r.timeOut = FOREVER
    BY <1>0, <2>1 DEF ReadWaits, Typed
  <2>2. CASE r.timeOut # FOREVER
    <3>1. r.timeOut \in Nat \ {0}
      BY <2>2, EventAssumption, SchedulerAssumption DEF ReadWaits
    <3>2. waitTimes' = [waitTimes EXCEPT ![runTask] = r.timeOut]
      BY <2>2 DEF ReadWaits
    <3> QED
      BY <1>0, <1>1, <3>1, <3>2 DEF Typed
  <2> QED
    BY <2>1, <2>2
<1>4. bits \subseteq Bits /\ "PEND" \in bits /\ bits \subseteq {"PEND", "PEND_TIME"}
  BY DEF Bits
<1> HIDE DEF bits
<1>5. Typed'
  BY <1>0, <1>1, <1>2, <1>3, <1>4 DEF Typed, AllTasks
<1>6. /\ \A t \in AllTasks \ {runTask} : taskStatus'[t] = taskStatus[t]
      /\ taskStatus'[runTask] = taskStatus[runTask] \cup bits
  BY <1>0, <1>2 DEF Typed
<1>7. ReadySet' = ReadySet /\ Asleep' = Asleep
  BY <1>1, <1>2, <1>4, <1>6 DEF ReadySet, Asleep, Has, Timed, AllTasks
<1>8. ListsInv'
  BY <1>2, <1>7 DEF SchedInv, ListsInv
<1>9. TimerInv'
  BY <1>2, TimerKept DEF SchedInv
<1>10. StatusInv'
  <2>1. \A t \in Tasks : Has(t, "READY")' => t # runTask /\ taskStatus'[t] = taskStatus[t]
    BY <1>1, <1>4, <1>6 DEF Has, AllTasks
  <2>2. \A t \in Tasks : (Has(t, "READY") => StillReady(t))'
    BY <2>1, <1>0 DEF StatusInv, StillReady, Timed, Has
  <2>3. \A t \in AllTasks : (Has(t, "RUNNING") <=> t = runTask)'
    BY <1>0, <1>2, <1>4, <1>6 DEF StatusInv, Has
  <2>4. \A t \in Tasks : (Has(t, "PEND_TIME") => Has(t, "PEND"))'
    BY <1>0, <1>2, <1>4, <1>6 DEF StatusInv, Has, AllTasks
  <2>5. StillReady(Idle)'
    BY <1>0, <1>1, <1>6 DEF StatusInv, StillReady, Timed, Has, AllTasks
  <2>6. (Has(runTask, "READY") => swPending)'
    BY <1>1, <1>2, <1>4, <1>6 DEF Has
  <2>7. g_losTaskLock' = 0 /\ SwitchDue'
    BY <1>0, <1>1, <1>2 DEF SwitchDue, Typed
  <2>8. \A t : t = runTask' /\ Timed(t)' => waitTimes'[t] > 0
    BY <1>1, <1>2, <1>3, <1>4, <1>6 DEF StillReady, Timed, Has
  <2> QED
    BY <2>2, <2>3, <2>4, <2>5, <2>6, <2>7, <2>8 DEF StatusInv
<1> QED
  BY <1>5, <1>8, <1>9, <1>10 DEF SchedInv

LEMMA ReadReturnsSched ==
  ASSUME SchedInv, ReadReturns
  PROVE  SchedInv'
<1>0. Typed /\ StatusInv /\ InTask
  BY DEF SchedInv, ReadReturns
<1>1. runTask \in Tasks
  BY <1>0, InTaskReady
<1>2. UNCHANGED <<priority, timeSlice, g_priQueueList, waitTimes, g_taskSortLink,
                  g_schedResponseTime, g_schedResponseID, pc, runTask, g_losTaskLock, swPending>>
  BY DEF ReadReturns, timerVars, cpuVars
<1>3. /\ taskStatus' \in [AllTasks -> SUBSET Bits]
      /\ \A t \in AllTasks : taskStatus'[t] = taskStatus[t] \/ taskStatus'[t] = taskStatus[t] \ {"TIMEOUT"}
  BY <1>0 DEF ReadReturns, Typed
<1>4. \A t \in AllTasks, bit \in Bits \ {"TIMEOUT"} : bit \in taskStatus'[t] <=> bit \in taskStatus[t]
  BY <1>3
<1>5. \A t \in AllTasks : /\ \A bit \in Bits \ {"TIMEOUT"} : Has(t, bit)' <=> Has(t, bit)
                          /\ Timed(t)' <=> Timed(t)
                          /\ StillReady(t)' <=> StillReady(t)
  BY <1>4 DEF Has, Timed, StillReady, Bits
<1>6. ReadySet' = ReadySet /\ Asleep' = Asleep
  BY <1>2, <1>5 DEF ReadySet, Asleep, AllTasks, Bits
<1>7. ListsInv'
  BY <1>2, <1>6 DEF SchedInv, ListsInv
<1>8. TimerInv' /\ Typed'
  BY <1>0, <1>2, <1>3, TimerKept DEF SchedInv, Typed
<1>9. StatusInv'
  <2>1. runTask' = runTask /\ runTask \in AllTasks /\ Idle \in AllTasks /\ Tasks \subseteq AllTasks
    BY <1>1, <1>2 DEF AllTasks
  <2>2. SwitchDue' <=> SwitchDue
    BY <1>2 DEF SwitchDue
  <2>3. {"READY", "PEND", "RUNNING", "PEND_TIME"} \subseteq Bits \ {"TIMEOUT"}
    BY DEF Bits
  <2>4. \A t \in AllTasks : /\ Has(t, "READY")' <=> Has(t, "READY")
                            /\ Has(t, "PEND")' <=> Has(t, "PEND")
                            /\ Has(t, "RUNNING")' <=> Has(t, "RUNNING")
                            /\ Has(t, "PEND_TIME")' <=> Has(t, "PEND_TIME")
    BY <1>5, <2>3
  <2>5. \A t : t = runTask' => /\ Has(t, "READY")' <=> Has(runTask, "READY")
                               /\ StillReady(t)' <=> StillReady(runTask)
                               /\ Timed(t)' <=> Timed(runTask)
    BY <1>5, <2>1, <2>4
  <2> QED
    BY <1>0, <1>2, <1>5, <2>1, <2>2, <2>4, <2>5 DEF StatusInv
<1> QED
  BY <1>7, <1>8, <1>9 DEF SchedInv

LEMMA WriteSched ==
  ASSUME SchedInv, PendInv, NEW events \in Writes, NEW inHandler \in BOOLEAN,
         LOS_EventWrite(events, inHandler)
  PROVE  SchedInv'
<1> DEFINE woken == {t \in ToSet(stEventList) : Concerned(t, events, uwEventID')}
           ready == {t \in woken : ~Has(t, "SUSPEND") /\ ~Has(t, "RUNNING")}
           line == Only(stEventList, ready)
<1>0. Typed /\ StatusInv /\ ListsInv /\ TimerInv /\ Idle \notin Tasks
  BY SchedulerAssumption DEF SchedInv
<1>1. /\ ~inHandler => InTask
      /\ taskStatus' = [t \in AllTasks |-> IF t \in woken THEN Woken(taskStatus[t])
                                                          ELSE taskStatus[t]]
      /\ g_taskSortLink' = Unlinked(g_taskSortLink, woken)
      /\ g_priQueueList' = EnQueued(g_priQueueList, line, priority)
      /\ timeSlice' = SliceRenewed(ready)
      /\ IF woken = {} THEN UNCHANGED <<pc, swPending>> ELSE ThenSchedule(inHandler)
      /\ UNCHANGED <<priority, waitTimes, runTask, g_losTaskLock, g_schedResponseTime,
                     g_schedResponseID>>
  BY DEF LOS_EventWrite
<1>2. /\ stEventList \in Seq(Tasks) /\ IsInjective(stEventList)
      /\ ToSet(stEventList) \subseteq {t \in Tasks : Has(t, "PEND")}
  BY DEF PendInv
<1>3. \A t \in woken : /\ t \in Tasks /\ Has(t, "PEND") /\ ~Has(t, "DELAY") /\ ~Has(t, "READY")
                       /\ Has(t, "RUNNING") <=> t = runTask
  <2>1. \A t \in woken : t \in Tasks /\ Has(t, "PEND")
    BY <1>2
  <2> HIDE DEF woken
  <2> QED
    BY <2>1, <1>0 DEF StatusInv, StillReady, PendInv, AllTasks
<1>4. line \in Seq(Tasks) /\ IsInjective(line) /\ ToSet(line) = ready
  <2>1. ready \subseteq ToSet(stEventList)
    OBVIOUS
  <2> HIDE DEF ready
  <2>2. /\ line \in Seq(Tasks) /\ IsInjective(line)
        /\ ToSet(line) = ToSet(stEventList) \cap ready
    BY <1>2, OnlyMembers
  <2> QED
    BY <2>1, <2>2
<1> HIDE DEF line
<1>5. \A t \in AllTasks : taskStatus'[t] = IF t \in woken THEN Woken(taskStatus[t])
                                                          ELSE taskStatus[t]
  BY <1>1
<1>6. ready \subseteq woken /\ \A t \in woken : t \in ready <=> ~Has(t, "SUSPEND") /\ ~Has(t, "RUNNING")
  OBVIOUS
<1> HIDE DEF woken, ready
<1>7. ASSUME NEW t \in woken
      PROVE  /\ "READY" \in Woken(taskStatus[t]) <=> t \in ready
             /\ Woken(taskStatus[t]) \cap {"PEND", "DELAY", "PEND_TIME"} = {}
             /\ "READY" \in Woken(taskStatus[t]) => "SUSPEND" \notin Woken(taskStatus[t])
             /\ "SUSPEND" \in Woken(taskStatus[t]) => Has(t, "SUSPEND")
             /\ "RUNNING" \in Woken(taskStatus[t]) <=> Has(t, "RUNNING")
             /\ Woken(taskStatus[t]) \subseteq Bits
  <2>1. /\ "READY" \notin taskStatus[t] /\ "DELAY" \notin taskStatus[t]
        /\ taskStatus[t] \subseteq Bits
    BY <1>0, <1>3 DEF Has, Typed, AllTasks
  <2>2. CASE {"SUSPEND", "RUNNING"} \cap taskStatus[t] = {}
    <3>1. t \in ready
      BY <1>6, <2>2 DEF Has
    <3> QED
      BY <2>1, <2>2, <3>1 DEF Woken, MadeReady, Bits, Has
  <2>3. CASE {"SUSPEND", "RUNNING"} \cap taskStatus[t] # {}
    <3>1. t \notin ready
      BY <1>6, <2>3 DEF Has
    <3> QED
      BY <2>1, <2>3, <3>1 DEF Woken, Bits, Has
  <2> QED
    BY <2>2, <2>3
<1>8. QueuesHold(g_priQueueList', ReadySet \cup ready, priority)
  <2>1. ToSet(line) \cap ReadySet = {}
    BY <1>3, <1>4, <1>6 DEF ReadySet
  <2>2. /\ timeSlice \in [Tasks -> Int] /\ priority \in [Tasks -> Priorities]
        /\ QueuesHold(g_priQueueList, ReadySet, priority)
    BY <1>0 DEF Typed, ListsInv
  <2>3. QueuesHold(g_priQueueList', ReadySet \cup ToSet(line), priority)
    BY <1>1, <1>4, <2>1, <2>2, EnQueuedHold
  <2> QED
    BY <1>4, <2>3
<1>9. ReadySet' = ReadySet \cup ready
  <2>1. ASSUME NEW t \in Tasks
        PROVE  "READY" \in taskStatus'[t] <=> Has(t, "READY") \/ t \in ready
    <3>1. CASE t \in woken
      BY <3>1, <1>3, <1>5, <1>7 DEF AllTasks
    <3>2. CASE t \notin woken
      BY <3>2, <1>5, <1>6 DEF Has, AllTasks
    <3> QED
      BY <3>1, <3>2
  <2> QED
    BY <2>1, <1>3, <1>6 DEF ReadySet, Has
<1>10. Asleep' = Asleep \ woken
  <2>1. ASSUME NEW t \in Tasks
        PROVE  Timed(t)' <=> Timed(t) /\ t \notin woken
    <3>1. CASE t \in woken
      BY <3>1, <1>5, <1>7 DEF AllTasks, Timed, Has
    <3>2. CASE t \notin woken
      BY <3>2, <1>5 DEF Timed, Has, AllTasks
    <3> QED
      BY <3>1, <3>2
  <2> QED
    BY <2>1, <1>1 DEF Asleep
<1>11. /\ LinkHolds(g_taskSortLink', Asleep')
       /\ \A i \in DOMAIN g_taskSortLink' :
            \E j \in DOMAIN g_taskSortLink : g_taskSortLink'[i] = g_taskSortLink[j]
  BY <1>0, <1>1, <1>10, UnlinkedHold DEF ListsInv
<1>12. ListsInv'
  BY <1>1, <1>8, <1>9, <1>11 DEF ListsInv
<1>13. /\ pc' \in [Tasks -> {"code", "schedule"}] /\ swPending' \in BOOLEAN
       /\ swPending => swPending'
       /\ g_losTaskLock = 0 /\ SwitchDue => SwitchDue'
  <2>1. CASE woken = {}
    BY <1>0, <1>1, <2>1 DEF Typed, SwitchDue
  <2>2. CASE woken # {}
    BY <1>0, <1>1, <2>2, ThenScheduleDue
  <2> QED
    BY <2>1, <2>2
<1>14. TimerInv'
  BY <1>0, <1>1, <1>11, <1>13 DEF TimerInv
<1>15. Typed'
  <2>1. taskStatus' \in [AllTasks -> SUBSET Bits]
    <3>1. \A t \in AllTasks : (IF t \in woken THEN Woken(taskStatus[t]) ELSE taskStatus[t])
                                \in SUBSET Bits
      BY <1>0, <1>7 DEF Typed
    <3> QED
      BY <1>1, <3>1
  <2>2. timeSlice' \in [Tasks -> Nat]
    BY <1>0, <1>1, SchedulerAssumption DEF SliceRenewed, Typed
  <2> QED
    BY <1>0, <1>1, <1>13, <2>1, <2>2 DEF Typed
<1>16. StatusInv'
  <2>1. ASSUME NEW t \in Tasks
        PROVE  /\ "READY" \in taskStatus'[t] =>
                    taskStatus'[t] \cap {"PEND", "SUSPEND", "DELAY", "PEND_TIME"} = {}
               /\ "PEND_TIME" \in taskStatus'[t] => "PEND" \in taskStatus'[t]
    <3>1. CASE t \in woken
      BY <3>1, <1>5, <1>7 DEF AllTasks
    <3>2. CASE t \notin woken
      <4>1. taskStatus'[t] = taskStatus[t]
        BY <1>5, <3>2 DEF AllTasks
      <4>2. (Has(t, "READY") => StillReady(t)) /\ (Has(t, "PEND_TIME") => Has(t, "PEND"))
        BY <1>0 DEF StatusInv
      <4> QED
        BY <4>1, <4>2 DEF StillReady, Timed, Has
    <3> QED
      BY <3>1, <3>2
  <2>2. \A t \in AllTasks : (Has(t, "RUNNING") <=> t = runTask)'
    BY <1>0, <1>1, <1>5, <1>7 DEF StatusInv, Has
  <2>3. /\ \A t \in Tasks : (Has(t, "READY") => StillReady(t))'
        /\ \A t \in Tasks : (Has(t, "PEND_TIME") => Has(t, "PEND"))'
    BY <2>1 DEF StillReady, Timed, Has
  <2>4. StillReady(Idle)'
    BY <1>0, <1>3, <1>5 DEF StatusInv, StillReady, Timed, Has, AllTasks
  <2>5. \A t : t = runTask' => /\ Has(t, "READY")' <=> Has(runTask, "READY")
                               /\ StillReady(runTask) => StillReady(t)'
                               /\ Timed(t)' => Timed(runTask)
    <3>1. CASE runTask \in woken
      <4>1. runTask \notin ready
        BY <1>3, <1>6, <3>1
      <4> QED
        BY <1>1, <1>3, <1>5, <1>7, <3>1, <4>1 DEF StillReady, Timed, Has, AllTasks
    <3>2. CASE runTask \notin woken
      BY <1>0, <1>1, <1>5, <3>2 DEF StillReady, Timed, Has, Typed
    <3> QED
      BY <3>1, <3>2
  <2> QED
    BY <1>0, <1>1, <1>13, <2>2, <2>3, <2>4, <2>5 DEF StatusInv
<1> QED
  BY <1>12, <1>14, <1>15, <1>16 DEF SchedInv

-----------------------------------------------------------------------------
(***************************************************************************)
(* Bits that are set and taken off, and what the readers wait for.         *)
(***************************************************************************)
LEMMA StaysUnsatisfied ==
  ASSUME NEW t, ~Satisfied(t), eventMask'[t] = eventMask[t], eventMode'[t] = eventMode[t],
         uwEventID' \subseteq uwEventID
  PROVE  ~Satisfied(t)'
  BY DEF Satisfied, Polled

LEMMA StaysSatisfied ==
  ASSUME NEW t, Satisfied(t), eventMask'[t] = eventMask[t], eventMode'[t] = eventMode[t],
         eventMask[t] \cap (uwEventID \ uwEventID') = {}
  PROVE  Satisfied(t)'
  BY DEF Satisfied, Polled

\* A reader that still reads and was not robbed has lost none of its bits.
LEMMA NotRobbed ==
  ASSUME PendInv, Record, NEW t \in Readers, reading'[t], t \notin robbed'
  PROVE  /\ t \notin robbed
         /\ ~Has(t, "PEND") => eventMask[t] \cap (uwEventID \ uwEventID') = {}
<1>1. t \in Tasks /\ (Contains(stEventList, t) => Has(t, "PEND"))
  BY EventAssumption, ContainsToSet DEF PendInv
<1> QED
  BY <1>1 DEF Record, Robbed

\* Links that were NULL are used once and for all.
LEMMA StrayStays ==
  ASSUME Record
  PROVE  ~stray' => ~stray
  BY DEF Record

\* The part of WakeInv about task t.
WakeOf(t) ==
  /\ t \in ToSet(stEventList) => ~Satisfied(t)
  /\ reading[t] /\ ~Has(t, "PEND") /\ ~Has(t, "TIMEOUT") /\ t \notin robbed => Satisfied(t)

LEMMA WakeByTask ==
  ASSUME PendInv
  PROVE  WakeInv <=> \A t \in Tasks : WakeOf(t)
<1>1. ToSet(stEventList) \subseteq Tasks
  BY DEF PendInv
<1> QED
  BY <1>1 DEF WakeInv, WakeOf

LEMMA BystanderKept ==
  ASSUME PendInv, ReadInv, Record, uwEventID' \subseteq uwEventID,
         NEW t \in Tasks, WakeOf(t), UNCHANGED <<eventMask[t], eventMode[t], reading[t]>>,
         t \in ToSet(stEventList)' => t \in ToSet(stEventList),
         ~Has(t, "PEND")' /\ ~Has(t, "TIMEOUT")' => ~Has(t, "PEND") /\ ~Has(t, "TIMEOUT")
  PROVE  WakeOf(t)'
<1>1. t \in ToSet(stEventList)' => ~Satisfied(t)'
  BY StaysUnsatisfied DEF WakeOf
<1>2. ASSUME reading'[t], ~Has(t, "PEND")', ~Has(t, "TIMEOUT")', t \notin robbed'
      PROVE  Satisfied(t)'
  <2>1. t \in Readers
    BY <1>2 DEF ReadInv
  <2>2. t \notin robbed /\ eventMask[t] \cap (uwEventID \ uwEventID') = {}
    BY <1>2, <2>1, NotRobbed
  <2>3. Satisfied(t)
    BY <1>2, <2>2 DEF WakeOf
  <2> QED
    BY <2>2, <2>3, StaysSatisfied
<1> QED
  BY <1>1, <1>2 DEF WakeOf

\* A step of the scheduler, or one that only takes bits off.
LEMMA OtherStep ==
  ASSUME EventInv, Record, BitsKept, uwEventID' \subseteq uwEventID,
         UNCHANGED <<stEventList, eventMask, eventMode, reading>>, CheckInv'
  PROVE  EventInv'
<1>0. PendInv /\ ReadInv /\ CheckInv /\ WakeInv
  BY DEF EventInv
<1>1. PendInv'
  <2>1. {t \in Tasks : Has(t, "PEND")}' = {t \in Tasks : Has(t, "PEND")}
    BY DEF BitsKept
  <2> QED
    BY <1>0, <2>1, StrayStays DEF PendInv, BitsKept
<1>2. ReadInv'
  BY <1>0 DEF ReadInv
<1>3. WakeInv'
  <2>1. \A t \in Tasks : WakeOf(t)
    BY <1>0, WakeByTask
  <2>2. \A t \in Tasks : WakeOf(t)'
    BY <1>0, <2>1, BystanderKept DEF BitsKept
  <2> QED
    BY <1>1, <2>2 DEF WakeInv, WakeOf, PendInv
<1> QED
  BY <1>1, <1>2, <1>3 DEF EventInv

LEMMA TickStep ==
  ASSUME SchedInv, EventInv, EventTick, Record
  PROVE  EventInv'
<1>0. PendInv /\ ReadInv /\ CheckInv /\ WakeInv /\ TickBits
  BY TickBitsHold DEF EventInv, EventTick
<1>1. /\ stEventList' = Leave(stEventList, {t \in Tasks : "PEND" \notin taskStatus'[t]})
      /\ UNCHANGED <<uwEventID, eventMask, eventMode, reading, toRead>>
  BY DEF EventTick, callVars, checkVars
<1>2. PendInv'
  <2> DEFINE gone == {t \in Tasks : "PEND" \notin taskStatus'[t]}
  <2>1. /\ stEventList \in Seq(Tasks) /\ IsInjective(stEventList)
        /\ ToSet(stEventList) \subseteq {t \in Tasks : Has(t, "PEND")}
        /\ ~stray' => {t \in Tasks : Has(t, "PEND")} \subseteq ToSet(stEventList)
    BY <1>0, StrayStays DEF PendInv
  <2>2. \A t \in Tasks : /\ Has(t, "PEND")' <=> t \notin gone
                         /\ Has(t, "PEND")' => Has(t, "PEND")
    BY <1>0 DEF TickBits, Has
  <2> HIDE DEF gone
  <2>3. /\ stEventList' \in Seq(Tasks) /\ IsInjective(stEventList')
        /\ ToSet(stEventList') = ToSet(stEventList) \ gone
    BY <1>1, <2>1, LeaveMembers DEF gone
  <2>4. \A t \in Tasks : /\ Has(t, "PEND")' \/ Has(t, "TIMEOUT")' => reading'[t]
                         /\ Has(t, "PEND")' => ~Has(t, "TIMEOUT")' /\ ~Has(t, "DELAY")'
    BY <1>0, <1>1 DEF PendInv, TickBits
  <2>5. /\ ToSet(stEventList') \subseteq {t \in Tasks : Has(t, "PEND")'}
        /\ ~stray' => {t \in Tasks : Has(t, "PEND")'} \subseteq ToSet(stEventList')
    BY <2>1, <2>2, <2>3
  <2> QED
    BY <2>3, <2>4, <2>5 DEF PendInv
<1>3. ReadInv' /\ CheckInv'
  BY <1>0, <1>1 DEF ReadInv, CheckInv
<1>4. WakeInv'
  <2>1. \A t \in Tasks : WakeOf(t)
    BY <1>0, WakeByTask
  <2>2. \A t \in ToSet(stEventList)' : t \in ToSet(stEventList)
    BY <1>0, <1>1, LeaveMembers DEF PendInv
  <2>3. \A t \in Tasks : WakeOf(t)'
    BY <1>0, <1>1, <2>1, <2>2, BystanderKept DEF TickBits
  <2> QED
    BY <1>2, <2>3 DEF WakeInv, WakeOf, PendInv
<1> QED
  BY <1>2, <1>3, <1>4 DEF EventInv

LEMMA ReadWaitsStep ==
  ASSUME SchedInv, EventInv, NEW r \in Reads, ReadWaits(r), Record
  PROVE  EventInv'
<1>0. /\ PendInv /\ ReadInv /\ CheckInv /\ WakeInv
      /\ InTask /\ Typed /\ StatusInv
  BY DEF EventInv, ReadWaits, EnterRead, SchedInv
<1>1. /\ runTask \in Tasks /\ Tasks \subseteq AllTasks
      /\ StillReady(runTask) /\ ~reading[runTask] /\ runTask \in Readers
  BY <1>0, InTaskReady DEF ReadWaits, EnterRead, CheckInv, AllTasks
<1>2. /\ Polled(uwEventID, r.mask, r.mode) = {}
      /\ eventMask' = [eventMask EXCEPT ![runTask] = r.mask]
      /\ eventMode' = [eventMode EXCEPT ![runTask] = r.mode]
      /\ stEventList' = IF initialized THEN Append(stEventList, runTask) ELSE stEventList
      /\ reading' = [reading EXCEPT ![runTask] = TRUE]
      /\ toRead' = [toRead EXCEPT ![runTask] = {}]
      /\ uwEventID' = uwEventID
  BY DEF ReadWaits, EnterRead
<1>3. /\ \A t \in Tasks \ {runTask} : taskStatus'[t] = taskStatus[t]
      /\ "PEND" \in taskStatus'[runTask]
      /\ \A bit \in {"TIMEOUT", "DELAY"} : bit \in taskStatus'[runTask] => bit \in taskStatus[runTask]
  <2>1. \/ taskStatus' = [taskStatus EXCEPT ![runTask] = @ \cup {"PEND"}]
        \/ taskStatus' = [taskStatus EXCEPT ![runTask] = @ \cup {"PEND", "PEND_TIME"}]
    BY DEF ReadWaits
  <2>2. taskStatus \in [AllTasks -> SUBSET Bits]
    BY <1>0 DEF Typed
  <2> QED
    BY <1>1, <2>1, <2>2
<1>4. /\ \A t \in Tasks \ {runTask} : \A bit : Has(t, bit)' <=> Has(t, bit)
      /\ \A t : t = runTask => Has(t, "PEND")' /\ ~Has(t, "TIMEOUT")' /\ ~Has(t, "DELAY")'
  <2>1. ~Has(runTask, "TIMEOUT") /\ ~Has(runTask, "DELAY")
    BY <1>0, <1>1 DEF PendInv, StillReady, Timed
  <2> QED
    BY <1>3, <2>1 DEF Has
<1>5. PendInv' /\ ToSet(stEventList') \subseteq ToSet(stEventList) \cup {runTask}
  <2>1. /\ stEventList \in Seq(Tasks) /\ IsInjective(stEventList)
        /\ ToSet(stEventList) \subseteq {t \in Tasks : Has(t, "PEND")}
        /\ ~stray' => {t \in Tasks : Has(t, "PEND")} \subseteq ToSet(stEventList)
    BY <1>0, StrayStays DEF PendInv
  <2>2. runTask \notin ToSet(stEventList)
    BY <1>1, <2>1 DEF StillReady
  <2>3. /\ stEventList' \in Seq(Tasks) /\ IsInjective(stEventList')
        /\ ToSet(stEventList') = IF initialized THEN ToSet(stEventList) \cup {runTask}
                                                ELSE ToSet(stEventList)
    <3>1. CASE initialized
      BY <1>1, <1>2, <2>1, <2>2, <3>1, AppendMembers
    <3>2. CASE ~initialized
      BY <1>2, <2>1, <3>2
    <3> QED
      BY <3>1, <3>2
  <2>4. ~stray' => initialized
    <3>1. reading'[runTask] /\ ~reading[runTask]
      BY <1>0, <1>1, <1>2 DEF ReadInv
    <3> QED
      BY <1>1, <3>1 DEF Record, UsesLinks
  <2>5. /\ ToSet(stEventList') \subseteq {t \in Tasks : Has(t, "PEND")'}
        /\ ~stray' => {t \in Tasks : Has(t, "PEND")'} \subseteq ToSet(stEventList')
    BY <1>1, <1>4, <2>1, <2>3, <2>4
  <2>6. \A t \in Tasks : /\ Has(t, "PEND")' \/ Has(t, "TIMEOUT")' => reading'[t]
                         /\ Has(t, "PEND")' => ~Has(t, "TIMEOUT")' /\ ~Has(t, "DELAY")'
    BY <1>0, <1>1, <1>2, <1>4 DEF PendInv, ReadInv
  <2> QED
    BY <2>3, <2>5, <2>6 DEF PendInv
<1>6. ReadInv' /\ CheckInv'
  <2>1. r.mask # {} /\ r.mode \in Modes
    BY EventAssumption
  <2>2. \A t \in Tasks : reading'[t] => /\ t \in Readers
                                        /\ eventMode'[t] \in Modes /\ eventMask'[t] # {}
    BY <1>0, <1>1, <1>2, <2>1 DEF ReadInv
  <2>3. reading' \in [Tasks -> BOOLEAN] /\ DOMAIN eventMask' = Tasks /\ DOMAIN eventMode' = Tasks
    BY <1>0, <1>1, <1>2 DEF ReadInv
  <2>4. CheckInv'
    BY <1>0, <1>1, <1>2 DEF CheckInv, ReadInv
  <2> QED
    BY <2>2, <2>3, <2>4 DEF ReadInv
<1>7. ASSUME NEW t \in Tasks
      PROVE  WakeOf(t)'
  <2>1. WakeOf(t)
    BY <1>0, WakeByTask
  <2>2. CASE t = runTask
    <3>1. eventMask'[t] = r.mask /\ eventMode'[t] = r.mode
      BY <1>0, <1>2, <2>2 DEF ReadInv
    <3> QED
      BY <1>2, <1>4, <2>2, <3>1 DEF WakeOf, Satisfied
  <2>3. CASE t # runTask
    <3>1. UNCHANGED <<eventMask[t], eventMode[t], reading[t]>>
      BY <1>0, <1>2, <2>3 DEF ReadInv
    <3> QED
      BY <1>0, <1>2, <1>4, <1>5, <2>1, <2>3, <3>1, BystanderKept
  <2> QED
    BY <2>2, <2>3
<1>8. WakeInv'
  BY <1>5, <1>7 DEF WakeInv, WakeOf, PendInv
<1> QED
  BY <1>5, <1>6, <1>8 DEF EventInv

LEMMA LeftSetSmaller ==
  ASSUME NEW id, NEW mask, NEW mode
  PROVE  LeftSet(id, mask, mode) \subseteq id
  BY DEF LeftSet

LEMMA ReadReturnsStep ==
  ASSUME SchedInv, EventInv, ReadReturns, Record
  PROVE  EventInv'
<1>0. /\ PendInv /\ ReadInv /\ CheckInv /\ WakeInv
      /\ InTask /\ Typed /\ StatusInv
  BY DEF EventInv, ReadReturns, SchedInv
<1>1. /\ runTask \in Tasks /\ Tasks \subseteq AllTasks
      /\ StillReady(runTask) /\ reading[runTask]
  BY <1>0, InTaskReady DEF ReadReturns, AllTasks
<1>2. /\ reading' = [reading EXCEPT ![runTask] = FALSE]
      /\ eventMask' = [eventMask EXCEPT ![runTask] = {}]
      /\ eventMode' = [eventMode EXCEPT ![runTask] = {}]
      /\ stEventList' = stEventList /\ toRead' = toRead
      /\ uwEventID' \subseteq uwEventID
  BY LeftSetSmaller DEF ReadReturns, checkVars
<1>3. /\ \A t \in Tasks \ {runTask} : taskStatus'[t] = taskStatus[t]
      /\ taskStatus'[runTask] = taskStatus[runTask] \ {"TIMEOUT"}
  <2>1. CASE Has(runTask, "TIMEOUT")
    BY <1>0, <1>1, <2>1 DEF ReadReturns, Typed
  <2>2. CASE ~Has(runTask, "TIMEOUT")
    BY <1>0, <1>1, <2>2 DEF ReadReturns, Has
  <2> QED
    BY <2>1, <2>2
<1>4. /\ \A t \in Tasks \ {runTask} : \A bit : Has(t, bit)' <=> Has(t, bit)
      /\ \A t : t = runTask => ~Has(t, "PEND")' /\ ~Has(t, "TIMEOUT")'
      /\ ~Has(runTask, "PEND")
  BY <1>1, <1>3 DEF Has, StillReady
<1>5. PendInv'
  <2>1. {t \in Tasks : Has(t, "PEND")}' = {t \in Tasks : Has(t, "PEND")}
    BY <1>4
  <2>2. \A t \in Tasks : /\ Has(t, "PEND")' \/ Has(t, "TIMEOUT")' => reading'[t]
                         /\ Has(t, "PEND")' => ~Has(t, "TIMEOUT")' /\ ~Has(t, "DELAY")'
    BY <1>0, <1>2, <1>4 DEF PendInv, ReadInv
  <2> QED
    BY <1>0, <1>2, <2>1, <2>2, StrayStays DEF PendInv
<1>6. ReadInv' /\ CheckInv'
  <2>1. \A t \in Tasks : reading'[t] => /\ t \in Readers
                                        /\ eventMode'[t] \in Modes /\ eventMask'[t] # {}
    BY <1>0, <1>1, <1>2 DEF ReadInv
  <2>2. reading' \in [Tasks -> BOOLEAN] /\ DOMAIN eventMask' = Tasks /\ DOMAIN eventMode' = Tasks
    BY <1>0, <1>1, <1>2 DEF ReadInv
  <2>3. CheckInv'
    BY <1>0, <1>1, <1>2 DEF CheckInv, ReadInv
  <2> QED
    BY <2>1, <2>2, <2>3 DEF ReadInv
<1>7. ASSUME NEW t \in Tasks
      PROVE  WakeOf(t)'
  <2>1. WakeOf(t)
    BY <1>0, WakeByTask
  <2>2. CASE t = runTask
    BY <1>0, <1>2, <1>4, <2>2 DEF WakeOf, ReadInv, PendInv
  <2>3. CASE t # runTask
    <3>1. UNCHANGED <<eventMask[t], eventMode[t], reading[t]>>
      BY <1>0, <1>2, <2>3 DEF ReadInv
    <3> QED
      BY <1>0, <1>2, <1>4, <2>1, <2>3, <3>1, BystanderKept
  <2> QED
    BY <2>2, <2>3
<1>8. WakeInv'
  BY <1>5, <1>7 DEF WakeInv, WakeOf, PendInv
<1> QED
  BY <1>5, <1>6, <1>8 DEF EventInv

LEMMA WriteStep ==
  ASSUME SchedInv, EventInv, NEW events \in Writes, NEW inHandler \in BOOLEAN,
         LOS_EventWrite(events, inHandler), Record
  PROVE  EventInv'
<1> DEFINE woken == {t \in ToSet(stEventList) : Concerned(t, events, uwEventID')}
<1>0. PendInv /\ ReadInv /\ CheckInv /\ WakeInv /\ Tasks \subseteq AllTasks
  BY DEF EventInv, AllTasks
<1>1. /\ uwEventID' = uwEventID \cup events
      /\ stEventList' = Leave(stEventList, woken)
      /\ taskStatus' = [t \in AllTasks |-> IF t \in woken THEN Woken(taskStatus[t])
                                                          ELSE taskStatus[t]]
      /\ UNCHANGED <<eventMask, eventMode, reading, toRead>>
  BY DEF LOS_EventWrite, callVars
<1>2. /\ stEventList \in Seq(Tasks) /\ IsInjective(stEventList)
      /\ ToSet(stEventList) \subseteq {t \in Tasks : Has(t, "PEND")}
      /\ ~stray' => {t \in Tasks : Has(t, "PEND")} \subseteq ToSet(stEventList)
  BY <1>0, StrayStays DEF PendInv
<1>3. \A t \in Tasks : t \in woken <=> /\ t \in ToSet(stEventList)
                                       /\ Concerned(t, events, uwEventID')
  BY <1>2
<1> HIDE DEF woken
<1>4. ASSUME NEW t \in Tasks
      PROVE  /\ Has(t, "PEND")' <=> Has(t, "PEND") /\ t \notin woken
             /\ Has(t, "TIMEOUT")' <=> Has(t, "TIMEOUT")
             /\ Has(t, "DELAY")' => Has(t, "DELAY")
  <2>1. CASE t \in woken
    BY <1>0, <1>1, <2>1 DEF Has, Woken, MadeReady
  <2>2. CASE t \notin woken
    BY <1>0, <1>1, <2>2 DEF Has
  <2> QED
    BY <2>1, <2>2
<1>5. PendInv' /\ ToSet(stEventList') = ToSet(stEventList) \ woken
  <2>1. /\ stEventList' \in Seq(Tasks) /\ IsInjective(stEventList')
        /\ ToSet(stEventList') = ToSet(stEventList) \ woken
    BY <1>1, <1>2, LeaveMembers
  <2>2. /\ ToSet(stEventList') \subseteq {t \in Tasks : Has(t, "PEND")'}
        /\ ~stray' => {t \in Tasks : Has(t, "PEND")'} \subseteq ToSet(stEventList')
    BY <1>2, <1>4, <2>1
  <2>3. \A t \in Tasks : /\ Has(t, "PEND")' \/ Has(t, "TIMEOUT")' => reading'[t]
                         /\ Has(t, "PEND")' => ~Has(t, "TIMEOUT")' /\ ~Has(t, "DELAY")'
    BY <1>0, <1>1, <1>4 DEF PendInv
  <2> QED
    BY <2>1, <2>2, <2>3 DEF PendInv
<1>6. ReadInv' /\ CheckInv'
  BY <1>0, <1>1 DEF ReadInv, CheckInv
<1>7. ASSUME NEW t \in Tasks
      PROVE  WakeOf(t)'
  <2>0. /\ WakeOf(t)
        /\ Has(t, "PEND") => eventMode[t] \in Modes /\ eventMask[t] # {}
        /\ t \in ToSet(stEventList) => Has(t, "PEND")
    BY <1>0, WakeByTask DEF PendInv, ReadInv
  <2>1. CASE t \in woken
    <3>1. eventMode[t] \in Modes /\ eventMask[t] # {} /\ Concerned(t, events, uwEventID')
      BY <1>3, <2>0, <2>1
    <3>2. Polled(uwEventID', eventMask[t], eventMode[t]) # {}
      BY <1>1, <3>1 DEF Polled, Concerned
    <3> QED
      BY <1>1, <1>5, <2>1, <3>2 DEF WakeOf, Satisfied
  <2>2. CASE t \notin woken /\ t \in ToSet(stEventList)
    <3>1. /\ eventMode[t] \in Modes /\ ~Concerned(t, events, uwEventID')
          /\ Polled(uwEventID, eventMask[t], eventMode[t]) = {}
      BY <1>3, <2>0, <2>2 DEF WakeOf, Satisfied
    <3>2. "OR" \in eventMode[t] \/ "AND" \in eventMode[t]
      BY <3>1 DEF Modes
    <3>3. Polled(uwEventID', eventMask[t], eventMode[t]) = {}
      BY <1>1, <3>1, <3>2 DEF Polled, Concerned
    <3> QED
      BY <1>1, <1>4, <2>0, <2>2, <3>3 DEF WakeOf, Satisfied
  <2>3. CASE t \notin ToSet(stEventList)
    <3>0. t \notin woken /\ t \notin ToSet(stEventList')
      BY <1>3, <1>5, <2>3
    <3>1. ASSUME reading'[t], ~Has(t, "PEND")', ~Has(t, "TIMEOUT")', t \notin robbed'
          PROVE  Satisfied(t)'
      <4>1. t \in Readers /\ t \notin robbed
        BY <1>0, <1>1, <3>1, NotRobbed DEF ReadInv
      <4>2. Satisfied(t)
        BY <1>1, <1>4, <2>0, <3>0, <3>1, <4>1 DEF WakeOf
      <4> QED
        BY <1>1, <4>2, StaysSatisfied
    <3> QED
      BY <3>0, <3>1 DEF WakeOf
  <2> QED
    BY <2>1, <2>2, <2>3
<1>8. WakeInv'
  BY <1>5, <1>7 DEF WakeInv, WakeOf, PendInv
<1> QED
  BY <1>5, <1>6, <1>8 DEF EventInv

-----------------------------------------------------------------------------
LEMMA EventInitInv == EventInit => SchedInv /\ EventInv
<1> SUFFICES ASSUME EventInit PROVE SchedInv /\ EventInv
  OBVIOUS
<1>1. SchedInv
  BY InitInv DEF EventInit
<1>2. \A t \in Tasks : taskStatus[t] \in {{"RUNNING"}, {"READY"}}
  BY DEF EventInit, Init, AllTasks
<1>3. \A t \in Tasks : ~Has(t, "PEND") /\ ~Has(t, "TIMEOUT")
  BY <1>2 DEF Has
<1>4. PendInv
  <2>1. << >> \in Seq(Tasks) /\ ToSet(<< >>) = {} /\ IsInjective(<< >>)
    <3>1. << >> \in Seq(Tasks)
      OBVIOUS
    <3> QED
      BY <3>1, EmptyMembers
  <2>2. {t \in Tasks : Has(t, "PEND")} = {}
    BY <1>3
  <2> QED
    BY <1>3, <2>1, <2>2 DEF EventInit, PendInv
<1>5. ReadInv /\ CheckInv
  BY DEF EventInit, ReadInv, CheckInv
<1>6. WakeInv
  <2>1. ToSet(stEventList) = {}
    BY <1>4, EmptyMembers DEF EventInit, PendInv
  <2> QED
    BY <2>1 DEF EventInit, WakeInv
<1> QED
  BY <1>1, <1>4, <1>5, <1>6 DEF EventInv

LEMMA SchedUnchanged ==
  ASSUME SchedInv, UNCHANGED schedVars
  PROVE  SchedInv' /\ BitsKept
<1>1. UNCHANGED taskStatus
  BY DEF schedVars, queueVars
<1> QED
  BY <1>1, NextInv, BitsUnchanged

LEMMA EventNextInv == SchedInv /\ EventInv /\ [EventNext]_vars => (SchedInv /\ EventInv)'
<1> SUFFICES ASSUME SchedInv, EventInv, [EventNext]_vars PROVE SchedInv' /\ EventInv'
  OBVIOUS
<1>0. PendInv
  BY DEF EventInv
<1>1. CASE UNCHANGED vars
  <2>1. UNCHANGED schedVars /\ UNCHANGED eventVars /\ UNCHANGED auxVars
    BY <1>1 DEF vars
  <2>2. UNCHANGED <<taskStatus, uwEventID, stEventList, eventMask, eventMode, reading,
                    toRead, robbed, stray>>
    BY <2>1 DEF eventVars, callVars, checkVars, auxVars, schedVars, queueVars
  <2>3. EventInv'
    BY <2>2 DEF EventInv, PendInv, ReadInv, CheckInv, WakeInv, Satisfied, Has
  <2> QED
    BY <2>1, <2>3, SchedUnchanged
<1>2. CASE \E r \in Reads : (OsEventReadParamCheck(r) \/ ReadAtOnce(r)) /\ Record
  <2>1. PICK r \in Reads : (OsEventReadParamCheck(r) \/ ReadAtOnce(r)) /\ Record
    BY <1>2
  <2>2. /\ UNCHANGED schedVars /\ UNCHANGED <<stEventList, eventMask, eventMode, reading>>
        /\ uwEventID' \subseteq uwEventID
    BY <2>1, LeftSetSmaller DEF OsEventReadParamCheck, ReadAtOnce, callVars
  <2>3. runTask \in Tasks
    BY <2>1, InTaskReady DEF OsEventReadParamCheck, FreeTask, ReadAtOnce, EnterRead, SchedInv
  <2>4. CheckInv'
    BY <2>1, <2>2, <2>3
       DEF EventInv, CheckInv, OsEventReadParamCheck, FreeTask, ReadAtOnce, EnterRead
  <2> QED
    BY <2>1, <2>2, <2>4, SchedUnchanged, OtherStep
<1>3. CASE \E r \in Reads : ReadWaits(r) /\ Record
  BY <1>3, ReadWaitsSched, ReadWaitsStep
<1>4. CASE ReadReturns /\ Record
  BY <1>4, ReadReturnsSched, ReadReturnsStep
<1>5. CASE \E events \in Writes, inHandler \in BOOLEAN : LOS_EventWrite(events, inHandler) /\ Record
  BY <1>0, <1>5, WriteSched, WriteStep
<1>6. CASE \/ \E keep \in Keeps : LOS_EventClear(keep) /\ Record
           \/ LOS_EventDestroy /\ Record
           \/ LOS_EventInit /\ Record
           \/ \E events \in Writes : CheckWrite(events) /\ Record
  <2>1. /\ UNCHANGED schedVars
        /\ UNCHANGED <<stEventList, eventMask, eventMode, reading, toRead>>
        /\ uwEventID' \subseteq uwEventID /\ Record
    BY <1>6 DEF LOS_EventClear, LOS_EventDestroy, LOS_EventInit, CheckWrite,
                callVars, checkVars
  <2>2. CheckInv'
    BY <2>1 DEF EventInv, CheckInv
  <2> QED
    BY <2>1, <2>2, SchedUnchanged, OtherStep
<1>7. CASE \/ OtherTaskCall /\ Record
           \/ HandlerCall /\ UNCHANGED eventVars /\ Record
           \/ LOS_Schedule /\ UNCHANGED eventVars /\ Record
           \/ OsSchedTaskSwitch /\ UNCHANGED eventVars /\ Record
  <2>1. /\ TaskCall \/ HandlerCall \/ LOS_Schedule \/ OsSchedTaskSwitch
        /\ UNCHANGED eventVars /\ Record
    BY <1>7 DEF OtherTaskCall
  <2>2. SchedInv'
    BY <2>1, NextInv DEF Next
  <2>3. BitsKept
    <3>1. CASE OsSchedTaskSwitch
      BY <3>1, SwitchBits DEF BitsKept, AllTasks, Bits
    <3> QED
      BY <2>1, <3>1, TaskCallBits, BitsUnchanged DEF LOS_Schedule, queueVars
  <2>4. UNCHANGED <<uwEventID, stEventList, eventMask, eventMode, reading, toRead>>
    BY <2>1 DEF eventVars, callVars, checkVars
  <2>5. CheckInv'
    BY <2>4 DEF EventInv, CheckInv
  <2> QED
    BY <2>1, <2>2, <2>3, <2>4, <2>5, OtherStep
<1>8. CASE EventTick /\ Record
  <2>1. SchedInv'
    BY <1>8, NextInv DEF EventTick, Next
  <2> QED
    BY <1>8, <2>1, TickStep
<1> QED
  BY <1>1, <1>2, <1>3, <1>4, <1>5, <1>6, <1>7, <1>8 DEF EventNext

LEMMA EventInvariance == EventSpec => [](SchedInv /\ EventInv)
  BY EventInitInv, EventNextInv, PTL DEF EventSpec

(***************************************************************************)
(* PendListAgrees, for any number of readers and writers: whichever write, *)
(* tick, suspend or resume comes between the wait and the switch, and      *)
(* whatever comes between the check of a call and its section, the pend    *)
(* list and the status bits agree, as long as no section finds the event   *)
(* destroyed.                                                              *)
(***************************************************************************)
THEOREM PendListAlwaysAgrees == EventSpec => []PendListAgrees
<1>1. EventInv => PendListAgrees
  <2> SUFFICES ASSUME EventInv, ~stray PROVE PendListAgrees
    BY DEF PendListAgrees
  <2>1. PendInv /\ ToSet(stEventList) = {t \in Tasks : Has(t, "PEND")}
    BY DEF EventInv, PendInv
  <2> QED
    BY <2>1, ContainsToSet DEF PendInv, PendListAgrees
<1> QED
  BY <1>1, EventInvariance, PTL

(***************************************************************************)
(* NoLostWakeup, for any sets of bits and any mix of the wait modes: no    *)
(* task is left on the pend list of LOS_EventRead while the bits it waits  *)
(* for are set.                                                            *)
(***************************************************************************)
THEOREM NeverLostWakeup == EventSpec => []NoLostWakeup
<1>1. EventInv => NoLostWakeup
  BY EventAssumption DEF EventInv, PendInv, WakeInv, Satisfied, NoLostWakeup
<1> QED
  BY <1>1, EventInvariance, PTL

(***************************************************************************)
(* ReadDelivers, for any number of tasks: a LOS_EventRead that had to wait *)
(* and was not timed out finds its bits in the second poll, unless they    *)
(* were taken off in between.                                              *)
(***************************************************************************)
THEOREM ReadsDeliver == EventSpec => ReadDelivers
<1> DEFINE Delivers ==
      \A t \in Readers :
        reading[t] /\ ~reading'[t] /\ ~Has(t, "TIMEOUT") /\ t \notin robbed /\ ~stray =>
            Polled(uwEventID, eventMask[t], eventMode[t]) # {}
<1>1. SchedInv /\ EventInv /\ [EventNext]_vars => [Delivers]_vars
  <2> SUFFICES ASSUME SchedInv, EventInv, EventNext,
                      NEW t \in Readers, reading[t], ~reading'[t], ~Has(t, "TIMEOUT"),
                      t \notin robbed, ~stray
               PROVE  Polled(uwEventID, eventMask[t], eventMode[t]) # {}
    OBVIOUS
  <2>1. t \in Tasks /\ WakeInv /\ ReadInv
    BY EventAssumption DEF EventInv
  <2>2. CASE ReadReturns
    <3>1. reading' = [reading EXCEPT ![runTask] = FALSE] /\ InTask
      BY <2>2 DEF ReadReturns
    <3>2. t = runTask
      BY <2>1, <3>1 DEF ReadInv
    <3>3. ~Has(t, "PEND")
      BY <3>1, <3>2, InTaskReady DEF SchedInv, StillReady
    <3> QED
      BY <2>1, <3>3 DEF WakeInv, Satisfied
  <2>3. CASE ~ReadReturns
    <3>1. reading' = reading \/ reading' = [reading EXCEPT ![runTask] = TRUE]
      BY <2>3 DEF EventNext, ReadAtOnce, ReadWaits, LOS_EventWrite, LOS_EventClear,
                  LOS_EventDestroy, LOS_EventInit, OtherTaskCall, EventTick, eventVars,
                  callVars, OsEventReadParamCheck, CheckWrite
    <3> QED
      BY <2>1, <3>1 DEF ReadInv
  <2> QED
    BY <2>2, <2>3
<1> QED
  BY <1>1, EventInvariance, PTL DEF EventSpec, ReadDelivers

=============================================================================
