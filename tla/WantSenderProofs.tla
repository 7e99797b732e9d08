-------------------------- MODULE WantSenderProofs --------------------------
(***************************************************************************)
(* Proofs about the wait for answers.  The DONT_HAVE timeouts of a peer,   *)
(* for any keys, timeouts and bound on the queue: the map and the queue of *)
(* pending wants agree, the queue is in the order of time, a check for     *)
(* timeouts is always scheduled in time, and every step is one of the      *)
(* interface's.  The want sender of a session, for any peers, wants and    *)
(* limit of DONT_HAVEs: no want waits for a peer that has gone, no want is *)
(* left behind between two batches, and a want is not sent to a second     *)
(* peer before the first has answered.                                     *)
(***************************************************************************)
EXTENDS SessionWantSender, DontHaveTimeoutMgr, Integers, TLAPS

(* The DONT_HAVE timeouts: the inductive invariant.                        *)

(* ActiveExact, QueueInOrder and CheckScheduled, of any queue.             *)
Exact(q, active) ==
    /\ \A c : c \in active <=> \E i \in 1 .. Len(q) : q[i].active /\ q[i].c = c
    /\ \A i, j \in 1 .. Len(q) :
          q[i].active /\ q[j].active /\ q[i].c = q[j].c => i = j

InOrder(q) == \A i, j \in 1 .. Len(q) : i < j => q[i].age >= q[j].age

InTime(q, t) ==
    \A i \in 1 .. Len(q) : q[i].active =>
       consuming /\ (expired \/ (timer > 0 /\ q[i].age + timer <= t))

(* An AddPending that waits for the lock read the clock after everybody    *)
(* whose wants are in the queue.                                           *)
AddingLast ==
    adding # {} => \A i \in 1 .. Len(wantQueue) : wantQueue[i].age >= addingAge

(* Before Start, nothing is added, pinged or waited for.                   *)
StartedFirst ==
    ~started => adding = {} /\ wantQueue = <<>> /\ ~pinging /\ ~consuming

TimeoutInv ==
    /\ TypeOK
    /\ Exact(wantQueue, activeWants)
    /\ InOrder(wantQueue)
    /\ ~down => InTime(wantQueue, timeout)
    /\ AddingLast
    /\ StartedFirst

-----------------------------------------------------------------------------
(* The invariant is made of the properties.                                *)
LEMMA TimeoutInvGives ==
    TimeoutInv => TypeOK /\ ActiveExact /\ QueueInOrder /\ CheckScheduled
<1> SUFFICES ASSUME TimeoutInv PROVE ActiveExact /\ QueueInOrder /\ CheckScheduled
    BY Zenon DEF TimeoutInv
<1>1. DOMAIN wantQueue = 1 .. Len(wantQueue)
    BY DEF TimeoutInv, TypeOK
<1>2. ActiveExact
  <2> DEFINE A == {wantQueue[i].c : i \in {j \in 1 .. Len(wantQueue) : wantQueue[j].active}}
  <2>1. \A c : c \in activeWants <=> c \in A
      BY DEF TimeoutInv, Exact
  <2>2. activeWants = A
      BY <2>1, Zenon
  <2> QED
      BY <1>1, <2>2, Zenon DEF TimeoutInv, Exact, ActiveExact
<1>3. QueueInOrder
    BY <1>1, Zenon DEF TimeoutInv, InOrder, QueueInOrder
<1>4. CheckScheduled
    BY <1>1, Zenon DEF TimeoutInv, InTime, CheckScheduled
<1> QED
    BY <1>2, <1>3, <1>4, Zenon

(* A function from 1 .. n is a sequence of length n.                       *)
LEMMA FunctionIsSeq ==
    ASSUME NEW S, NEW n \in Nat, NEW f \in [1 .. n -> S]
    PROVE  f \in Seq(S) /\ Len(f) = n
<1>1. f \in Seq(S)
    OBVIOUS
<1>2. DOMAIN f = 1 .. Len(f) /\ Len(f) \in Nat
    BY <1>1
<1>3. 1 .. Len(f) = 1 .. n
    BY <1>2, Zenon
<1> QED
    BY <1>1, <1>2, <1>3

(* Who is younger than a want is in time when the want is.                 *)
LEMMA YoungerInTime ==
    ASSUME NEW t \in Nat, NEW a \in Nat, NEW b \in Nat, b <= a
    PROVE  b + (t - a) <= t
<1> QED
    OBVIOUS

(* checkForTimeouts drops wants from the front.                            *)
LEMMA Dropped ==
    ASSUME NEW q \in Seq(PendingWant), NEW n \in 0 .. Len(q)
    PROVE  LET r == SubSeq(q, n + 1, Len(q)) IN
           /\ r \in Seq(PendingWant)
           /\ Len(r) = Len(q) - n
           /\ \A i \in 1 .. Len(r) : n + i \in 1 .. Len(q) /\ r[i] = q[n + i]
<1>1. /\ Len(q) \in Nat
      /\ \A i \in 1 .. Len(q) : q[i] \in PendingWant
    OBVIOUS
<1>2. \A i \in n + 1 .. Len(q) : q[i] \in PendingWant
    BY <1>1
<1>3. n + 1 \in Int /\ Len(q) \in Int
    BY <1>1
<1> HIDE DEF PendingWant
<1>4. /\ SubSeq(q, n + 1, Len(q)) \in Seq(PendingWant)
      /\ Len(SubSeq(q, n + 1, Len(q))) = IF n + 1 <= Len(q) THEN Len(q) - (n + 1) + 1 ELSE 0
      /\ \A i \in 1 .. Len(q) - (n + 1) + 1 :
            SubSeq(q, n + 1, Len(q))[i] = q[n + 1 + i - 1]
    BY <1>2, <1>3
<1>5. Len(SubSeq(q, n + 1, Len(q))) = Len(q) - n
    BY <1>1, <1>4
<1>6. \A i \in 1 .. Len(q) - n : n + i \in 1 .. Len(q) /\ n + 1 + i - 1 = n + i
                                   /\ i \in 1 .. Len(q) - (n + 1) + 1
    BY <1>1
<1> QED
    BY <1>4, <1>5, <1>6, Zenon

(* checkForTimeouts, called with a sound queue, leaves a sound queue and a *)
(* timer that expires in time.                                             *)
LEMMA CheckSound ==
    ASSUME TypeOK, NEW q \in Seq(PendingWant), NEW active \in SUBSET Key,
           NEW t \in 0 .. MaxTimeout,
           Exact(q, active), InOrder(q), CheckForTimeouts(q, active, t),
           expired' = expired \/ expired' = FALSE, down' = down
    PROVE  /\ wantQueue' \in Seq(PendingWant)
           /\ activeWants' \in SUBSET Key
           /\ firing' \in SUBSET SUBSET Key
           /\ timer' \in 0 .. MaxTimeout
           /\ consuming' \in BOOLEAN
           /\ Exact(wantQueue', activeWants')
           /\ InOrder(wantQueue')
           /\ ~down' => InTime(wantQueue, t)'
           /\ \A a \in Nat : (\A i \in 1 .. Len(q) : q[i].age >= a)
                              => \A i \in 1 .. Len(wantQueue') : wantQueue'[i].age >= a
<1> DEFINE r == wantQueue'
<1>1. PICK n \in 0 .. Len(q) :
           /\ StopsAfter(q, t, n)
           /\ wantQueue' = SubSeq(q, n + 1, Len(q))
           /\ activeWants' = active \ Late(q, n)
           /\ firing' = IF Late(q, n) = {} THEN firing ELSE firing \cup {Late(q, n)}
           /\ Schedule(q, t, n)
    BY Zenon DEF CheckForTimeouts
<1>2. /\ Len(q) \in Nat
      /\ \A i \in 1 .. Len(q) : q[i] \in PendingWant
    OBVIOUS
<1>3. /\ r \in Seq(PendingWant)
      /\ Len(r) = Len(q) - n
      /\ \A i \in 1 .. Len(r) : n + i \in 1 .. Len(q) /\ r[i] = q[n + i]
    BY <1>1, Dropped, Zenon
<1>4. Late(q, n) \in SUBSET Key
  <2>1. \A i \in 1 .. n : q[i].c \in Key
      BY <1>2 DEF PendingWant
  <2> QED
      BY <2>1, Zenon DEF Late
<1>5. firing' \in SUBSET SUBSET Key
  <2>1. firing \in SUBSET SUBSET Key
      BY Zenon DEF TypeOK
  <2> QED
      BY <1>1, <1>4, <2>1, Zenon
<1>6. Exact(wantQueue', activeWants')
  <2> HIDE DEF r
  <2>1. \A c : c \in active <=> \E i \in 1 .. Len(q) : q[i].active /\ q[i].c = c
      BY Zenon DEF Exact
  <2>2. \A i, j \in 1 .. Len(q) :
          q[i].active /\ q[j].active /\ q[i].c = q[j].c => i = j
      BY Zenon DEF Exact
  <2>3. \A c : c \in Late(q, n) <=> \E i \in 1 .. n : q[i].active /\ q[i].c = c
      BY Zenon DEF Late
  <2>4. ASSUME NEW c, c \in active \ Late(q, n)
        PROVE  \E i \in 1 .. Len(r) : r[i].active /\ r[i].c = c
    <3>1. PICK j \in 1 .. Len(q) : q[j].active /\ q[j].c = c
        BY <2>1, <2>4, Zenon
    <3>2. j \notin 1 .. n
        BY <2>3, <2>4, <3>1, Zenon
    <3>3. j - n \in 1 .. Len(r) /\ n + (j - n) = j
        BY <1>1, <1>2, <1>3, <3>2
    <3>4. r[j - n] = q[j]
        BY <1>3, <3>3, Zenon
    <3> QED
        BY <3>1, <3>3, <3>4, Zenon
  <2>5. ASSUME NEW c, NEW i \in 1 .. Len(r), r[i].active, r[i].c = c
        PROVE  c \in active \ Late(q, n)
    <3>1. n + i \in 1 .. Len(q) /\ q[n + i].active /\ q[n + i].c = c
        BY <1>3, <2>5, Zenon
    <3>2. \A j \in 1 .. n : j \in 1 .. Len(q) /\ j # n + i
        BY <1>1, <1>2, <1>3
    <3>3. c \notin Late(q, n)
        BY <2>2, <2>3, <3>1, <3>2
    <3> QED
        BY <2>1, <3>1, <3>3, Zenon
  <2>6. ASSUME NEW i \in 1 .. Len(r), NEW j \in 1 .. Len(r),
               r[i].active, r[j].active, r[i].c = r[j].c
        PROVE  i = j
    <3>1. n + i = n + j
        BY <1>3, <2>2, <2>6, Zenon
    <3> QED
        BY <1>1, <1>2, <1>3, <3>1
  <2>7. \A c : c \in activeWants' <=> c \in active \ Late(q, n)
      BY <1>1, Zenon
  <2>8. Exact(r, activeWants')
      BY <2>4, <2>5, <2>6, <2>7, Zenon DEF Exact
  <2> QED
      BY <2>8, Zenon DEF r
<1>7. InOrder(wantQueue')
  <2> HIDE DEF r
  <2>1. ASSUME NEW i \in 1 .. Len(r), NEW j \in 1 .. Len(r), i < j
        PROVE  r[i].age >= r[j].age
    <3>1. n + i < n + j
        BY <1>2, <1>3, <2>1
    <3> QED
        BY <1>3, <3>1, Zenon DEF InOrder
  <2>2. InOrder(r)
      BY <2>1, Zenon DEF InOrder
  <2> QED
      BY <2>2, Zenon DEF r
<1>8. \A a \in Nat : (\A i \in 1 .. Len(q) : q[i].age >= a)
                        => \A i \in 1 .. Len(wantQueue') : wantQueue'[i].age >= a
    BY <1>3, Zenon
<1>9. /\ timer' \in 0 .. MaxTimeout
      /\ consuming' \in BOOLEAN
      /\ ~down' => InTime(wantQueue, t)'
  <2>1. CASE n = Len(q) \/ down
    <3>1. timer' = timer /\ consuming' = consuming
        BY <1>1, <2>1, Zenon DEF Schedule
    <3>2. ~down => Len(wantQueue') = 0
        BY <1>2, <1>3, <2>1
    <3>3. ~down' => InTime(wantQueue, t)'
        BY <3>2 DEF InTime
    <3> QED
        BY <3>1, <3>3, Zenon DEF TypeOK
  <2>2. CASE ~(n = Len(q) \/ down)
    <3>1. timer' = t - q[n + 1].age /\ consuming' = TRUE
        BY <1>1, <2>2, Zenon DEF Schedule
    <3>2. n \in Nat /\ n < Len(q) /\ n + 1 \in 1 .. Len(q)
        BY <1>1, <1>2, <2>2
    <3>3. q[n + 1].age \in 0 .. MaxTimeout /\ ~(q[n + 1].age >= t)
        BY <1>1, <1>2, <3>2, Zenon DEF StopsAfter, Passed, PendingWant
    <3>4. timer' \in 0 .. MaxTimeout /\ timer' > 0
        BY <3>1, <3>3, TimeoutAssumption, SMTT(30)
    <3>5. ASSUME NEW i \in 1 .. Len(wantQueue')
          PROVE  wantQueue'[i].age + timer' <= t
      <4>1. /\ n + i \in 1 .. Len(q)
            /\ wantQueue'[i] = q[n + i]
            /\ n + 1 < n + i \/ n + 1 = n + i
          BY <1>3, <3>2
      <4>2. q[n + i].age <= q[n + 1].age /\ q[n + i].age \in 0 .. MaxTimeout
          BY <1>2, <3>2, <3>3, <4>1, SMTT(30) DEF InOrder, PendingWant
      <4>3. t \in Nat /\ q[n + 1].age \in Nat /\ q[n + i].age \in Nat
          BY <3>3, <4>2, TimeoutAssumption
      <4>4. q[n + i].age + (t - q[n + 1].age) <= t
          BY <4>2, <4>3, YoungerInTime, Zenon
      <4> QED
          BY <3>1, <4>1, <4>4, Zenon
    <3>6. InTime(wantQueue, t)'
        BY <3>1, <3>4, <3>5, Zenon DEF InTime
    <3> QED
        BY <3>1, <3>4, <3>6, Zenon
  <2> QED
      BY <2>1, <2>2, Zenon
<1> QED
    BY <1>1, <1>3, <1>5, <1>6, <1>7, <1>8, <1>9, Zenon

(* The same for the timeout as it is.                                      *)
LEMMA CheckScheduledAt ==
    ASSUME TypeOK, NEW q \in Seq(PendingWant), NEW active \in SUBSET Key,
           Exact(q, active), InOrder(q), CheckForTimeouts(q, active, timeout),
           expired' = expired, down' = down
    PROVE  /\ wantQueue' \in Seq(PendingWant)
           /\ activeWants' \in SUBSET Key
           /\ firing' \in SUBSET SUBSET Key
           /\ timer' \in 0 .. MaxTimeout
           /\ consuming' \in BOOLEAN
           /\ Exact(wantQueue', activeWants')
           /\ InOrder(wantQueue')
           /\ ~down' => \A i \in 1 .. Len(wantQueue') : wantQueue'[i].active =>
                          consuming' /\ (expired' \/ (timer' > 0 /\ wantQueue'[i].age + timer' <= timeout))
<1> DEFINE t == timeout
<1>1. t \in 0 .. MaxTimeout /\ CheckForTimeouts(q, active, t)
    BY Zenon DEF TypeOK
<1> HIDE DEF t
<1>2. /\ wantQueue' \in Seq(PendingWant)
      /\ activeWants' \in SUBSET Key
      /\ firing' \in SUBSET SUBSET Key
      /\ timer' \in 0 .. MaxTimeout
      /\ consuming' \in BOOLEAN
      /\ Exact(wantQueue', activeWants')
      /\ InOrder(wantQueue')
      /\ ~down' => \A i \in 1 .. Len(wantQueue') : wantQueue'[i].active =>
                      consuming' /\ (expired' \/ (timer' > 0 /\ wantQueue'[i].age + timer' <= t))
    BY <1>1, CheckSound, Zenon DEF InTime
<1> QED
    BY <1>2, Zenon DEF t

(* AddPending appends one active want for every key that is not active.    *)
LEMMA Appended ==
    ASSUME TypeOK, NEW s \in Orders(adding \ activeWants)
    PROVE  LET q == Enqueued(s) IN
           /\ q \in Seq(PendingWant)
           /\ Len(s) \in Nat
           /\ Len(q) = Len(wantQueue) + Len(s)
           /\ \A i \in 1 .. Len(wantQueue) : i \in 1 .. Len(q) /\ q[i] = wantQueue[i]
           /\ \A i \in 1 .. Len(s) :
                 /\ s[i] \in adding \ activeWants
                 /\ Len(wantQueue) + i \in 1 .. Len(q)
                 /\ q[Len(wantQueue) + i] = [c |-> s[i], active |-> TRUE, age |-> addingAge]
           /\ \A i \in 1 .. Len(q) :
                 \/ i \in 1 .. Len(wantQueue)
                 \/ \E j \in 1 .. Len(s) : i = Len(wantQueue) + j
           /\ \A c \in adding \ activeWants : \E i \in 1 .. Len(s) : s[i] = c
           /\ \A i, j \in 1 .. Len(s) : s[i] = s[j] => i = j
<1> DEFINE ks == adding \ activeWants
           new == [i \in DOMAIN s |-> [c |-> s[i], active |-> TRUE, age |-> addingAge]]
<1>1. ks \in SUBSET Key
    BY Zenon DEF TypeOK
<1>2. PICK n \in 0 .. MaxQueue : s \in [1 .. n -> ks]
    BY ZenonT(60) DEF Orders
<1>3. n \in Nat
    BY QueueAssumption
<1>4. /\ \A c \in ks : \E i \in DOMAIN s : s[i] = c
      /\ \A i, j \in DOMAIN s : s[i] = s[j] => i = j
    BY Zenon DEF Orders
<1> HIDE DEF ks
<1>5. s \in Seq(ks)
    BY <1>2, <1>3
<1>6. Len(s) \in Nat /\ DOMAIN s = 1 .. Len(s) /\ \A i \in 1 .. Len(s) : s[i] \in ks
    BY <1>5
<1>7. \A i \in 1 .. Len(s) :
         [c |-> s[i], active |-> TRUE, age |-> addingAge] \in PendingWant
    BY <1>1, <1>6, Zenon DEF PendingWant, TypeOK
<1>8. new \in [1 .. Len(s) -> PendingWant]
    BY <1>6, <1>7, Zenon
<1>9. new \in Seq(PendingWant) /\ Len(new) = Len(s)
    BY <1>6, <1>8, FunctionIsSeq, Zenon
<1>10. wantQueue \in Seq(PendingWant) /\ Len(wantQueue) \in Nat
    BY DEF TypeOK
<1>11. Enqueued(s) = wantQueue \o new
    BY Zenon DEF Enqueued
<1>12. \A i \in 1 .. Len(s) : new[i] = [c |-> s[i], active |-> TRUE, age |-> addingAge]
    BY <1>6, Zenon
<1> HIDE DEF new, PendingWant
<1>13. /\ wantQueue \o new \in Seq(PendingWant)
       /\ Len(wantQueue \o new) = Len(wantQueue) + Len(s)
       /\ \A i \in 1 .. Len(wantQueue) + Len(s) :
             (wantQueue \o new)[i] = IF i <= Len(wantQueue) THEN wantQueue[i]
                                     ELSE new[i - Len(wantQueue)]
    BY <1>9, <1>10
<1> DEFINE q == Enqueued(s)
<1>14. /\ q \in Seq(PendingWant)
       /\ Len(q) = Len(wantQueue) + Len(s)
       /\ \A i \in 1 .. Len(wantQueue) + Len(s) :
             q[i] = IF i <= Len(wantQueue) THEN wantQueue[i] ELSE new[i - Len(wantQueue)]
    BY <1>11, <1>13, Zenon
<1> HIDE DEF q
<1>15. \A i \in 1 .. Len(wantQueue) : i \in 1 .. Len(q) /\ q[i] = wantQueue[i]
    BY <1>6, <1>10, <1>14
<1>16. ASSUME NEW i \in 1 .. Len(s)
       PROVE  /\ Len(wantQueue) + i \in 1 .. Len(q)
              /\ q[Len(wantQueue) + i] = [c |-> s[i], active |-> TRUE, age |-> addingAge]
  <2>1. /\ Len(wantQueue) + i \in 1 .. Len(wantQueue) + Len(s)
        /\ ~(Len(wantQueue) + i <= Len(wantQueue))
        /\ (Len(wantQueue) + i) - Len(wantQueue) = i
      BY <1>6, <1>10
  <2> QED
      BY <1>12, <1>14, <2>1, Zenon
<1>17. ASSUME NEW i \in 1 .. Len(q)
       PROVE  \/ i \in 1 .. Len(wantQueue)
              \/ \E j \in 1 .. Len(s) : i = Len(wantQueue) + j
  <2>1. CASE i <= Len(wantQueue)
      BY <2>1, <1>10
  <2>2. CASE ~(i <= Len(wantQueue))
    <3>1. i - Len(wantQueue) \in 1 .. Len(s) /\ i = Len(wantQueue) + (i - Len(wantQueue))
        BY <1>6, <1>10, <1>14, <2>2
    <3> QED
        BY <3>1, Zenon
  <2> QED
      BY <2>1, <2>2, Zenon
<1> QED
    BY <1>4, <1>6, <1>14, <1>15, <1>16, <1>17, Zenon DEF ks, q

(* The queue stays sound.                                                  *)
LEMMA AppendedSound ==
    ASSUME TimeoutInv, adding # {}, NEW s \in Orders(adding \ activeWants)
    PROVE  /\ Enqueued(s) \in Seq(PendingWant)
           /\ Exact(Enqueued(s), activeWants \cup adding)
           /\ InOrder(Enqueued(s))
<1> DEFINE q == Enqueued(s)
<1>1. /\ q \in Seq(PendingWant)
      /\ Len(s) \in Nat
      /\ Len(q) = Len(wantQueue) + Len(s)
      /\ \A i \in 1 .. Len(wantQueue) : i \in 1 .. Len(q) /\ q[i] = wantQueue[i]
      /\ \A i \in 1 .. Len(s) :
            /\ s[i] \in adding \ activeWants
            /\ Len(wantQueue) + i \in 1 .. Len(q)
            /\ q[Len(wantQueue) + i] = [c |-> s[i], active |-> TRUE, age |-> addingAge]
      /\ \A i \in 1 .. Len(q) :
            \/ i \in 1 .. Len(wantQueue)
            \/ \E j \in 1 .. Len(s) : i = Len(wantQueue) + j
      /\ \A c \in adding \ activeWants : \E i \in 1 .. Len(s) : s[i] = c
      /\ \A i, j \in 1 .. Len(s) : s[i] = s[j] => i = j
    BY Appended, Zenon DEF TimeoutInv
<1> HIDE DEF q
<1>2. Len(wantQueue) \in Nat
    BY DEF TimeoutInv, TypeOK
<1>3. \A i \in 1 .. Len(s) :
         q[Len(wantQueue) + i].c = s[i] /\ q[Len(wantQueue) + i].active
           /\ q[Len(wantQueue) + i].age = addingAge
  <2>1. ASSUME NEW i \in 1 .. Len(s)
        PROVE  q[Len(wantQueue) + i].c = s[i] /\ q[Len(wantQueue) + i].active
                 /\ q[Len(wantQueue) + i].age = addingAge
    <3>1. q[Len(wantQueue) + i] = [c |-> s[i], active |-> TRUE, age |-> addingAge]
        BY <1>1, Zenon
    <3> QED
        BY <3>1
  <2> QED
      BY <2>1, Zenon
<1>4. /\ \A c : c \in activeWants <=>
                   \E i \in 1 .. Len(wantQueue) : wantQueue[i].active /\ wantQueue[i].c = c
      /\ \A i, j \in 1 .. Len(wantQueue) :
            wantQueue[i].active /\ wantQueue[j].active /\ wantQueue[i].c = wantQueue[j].c => i = j
    BY Zenon DEF TimeoutInv, Exact
<1>5. ASSUME NEW c, c \in activeWants \cup adding
      PROVE  \E i \in 1 .. Len(q) : q[i].active /\ q[i].c = c
  <2>1. CASE c \in activeWants
      BY <1>1, <1>4, <2>1
  <2>2. CASE c \in adding \ activeWants
    <3>1. PICK i \in 1 .. Len(s) : s[i] = c
        BY <1>1, <2>2, Zenon
    <3> QED
        BY <1>1, <1>3, <3>1, Zenon
  <2> QED
      BY <1>5, <2>1, <2>2, Zenon
<1>6. ASSUME NEW i \in 1 .. Len(q), q[i].active
      PROVE  q[i].c \in activeWants \cup adding
  <2>1. CASE i \in 1 .. Len(wantQueue)
      BY <1>1, <1>4, <1>6, <2>1, Zenon
  <2>2. CASE \E j \in 1 .. Len(s) : i = Len(wantQueue) + j
    <3>1. PICK j \in 1 .. Len(s) : i = Len(wantQueue) + j
        BY <2>2, Zenon
    <3>2. q[i].c = s[j] /\ s[j] \in adding
        BY <1>1, <1>3, <3>1, Zenon
    <3> QED
        BY <3>2, Zenon
  <2> QED
      BY <1>1, <2>1, <2>2, Zenon
<1>7. ASSUME NEW i \in 1 .. Len(q), NEW j \in 1 .. Len(q),
             q[i].active, q[j].active, q[i].c = q[j].c
      PROVE  i = j
  <2>1. ASSUME NEW m \in 1 .. Len(wantQueue), NEW n \in 1 .. Len(s), q[m].active
        PROVE  q[m].c # q[Len(wantQueue) + n].c
    <3>1. q[m].c \in activeWants
        BY <1>1, <1>4, <2>1, Zenon
    <3>2. q[Len(wantQueue) + n].c \notin activeWants
        BY <1>1, <1>3, Zenon
    <3> QED
        BY <3>1, <3>2, Zenon
  <2>2. CASE i \in 1 .. Len(wantQueue) /\ j \in 1 .. Len(wantQueue)
      BY <1>1, <1>4, <1>7, <2>2, ZenonT(60)
  <2>3. CASE i \in 1 .. Len(wantQueue) /\ \E n \in 1 .. Len(s) : j = Len(wantQueue) + n
      BY <1>7, <2>1, <2>3, Zenon
  <2>4. CASE j \in 1 .. Len(wantQueue) /\ \E n \in 1 .. Len(s) : i = Len(wantQueue) + n
      BY <1>7, <2>1, <2>4, Zenon
  <2>5. CASE /\ \E n \in 1 .. Len(s) : i = Len(wantQueue) + n
             /\ \E n \in 1 .. Len(s) : j = Len(wantQueue) + n
      BY <1>1, <1>3, <1>7, <2>5
  <2> QED
      BY <1>1, <2>2, <2>3, <2>4, <2>5, Zenon
<1>8. Exact(q, activeWants \cup adding)
    BY <1>5, <1>6, <1>7 DEF Exact
<1>9. ASSUME NEW i \in 1 .. Len(q), NEW j \in 1 .. Len(q), i < j
      PROVE  q[i].age >= q[j].age
  <2>1. CASE i \in 1 .. Len(wantQueue) /\ j \in 1 .. Len(wantQueue)
      BY <1>1, <1>9, <2>1, Zenon DEF TimeoutInv, InOrder
  <2>2. CASE i \in 1 .. Len(wantQueue) /\ \E n \in 1 .. Len(s) : j = Len(wantQueue) + n
      BY <1>1, <1>3, <2>2 DEF TimeoutInv, AddingLast
  <2>3. CASE /\ \E n \in 1 .. Len(s) : i = Len(wantQueue) + n
             /\ \E n \in 1 .. Len(s) : j = Len(wantQueue) + n
    <3>1. q[i].age = addingAge /\ q[j].age = addingAge
        BY <1>3, <2>3, Zenon
    <3>2. addingAge \in Int
        BY TimeoutAssumption DEF TimeoutInv, TypeOK
    <3> QED
        BY <3>1, <3>2
  <2>4. ~(j \in 1 .. Len(wantQueue) /\ \E n \in 1 .. Len(s) : i = Len(wantQueue) + n)
      BY <1>1, <1>2, <1>9
  <2> QED
      BY <1>1, <2>1, <2>2, <2>3, <2>4, Zenon
<1>10. InOrder(q)
    BY <1>9, Zenon DEF InOrder
<1> QED
    BY <1>1, <1>8, <1>10, Zenon DEF q

-----------------------------------------------------------------------------
(* The invariant holds at first.                                           *)
LEMMA TimeoutInvInit == Init => TimeoutInv
<1> SUFFICES ASSUME Init PROVE TimeoutInv
    OBVIOUS
<1>1. wantQueue = <<>> /\ Len(wantQueue) = 0 /\ wantQueue \in Seq(PendingWant)
    BY DEF Init
<1>2. TypeOK
  <2>1. 0 \in 0 .. MaxTimeout /\ DefaultTimeout \in 0 .. MaxTimeout
      BY TimeoutAssumption
  <2> QED
      BY <1>1, <2>1, Zenon DEF Init, TypeOK
<1>3. Exact(wantQueue, activeWants)
    BY <1>1 DEF Init, Exact
<1>4. InOrder(wantQueue) /\ InTime(wantQueue, timeout) /\ AddingLast
    BY <1>1 DEF InOrder, InTime, AddingLast
<1> QED
    BY <1>1, <1>2, <1>3, <1>4, Zenon DEF Init, TimeoutInv, StartedFirst

(* What a step does that runs checkForTimeouts on the queue as it is, for  *)
(* a new timeout.                                                          *)
LEMMA CheckKeepsInv ==
    ASSUME TimeoutInv, CheckForTimeouts(wantQueue, activeWants, timeout'), started,
           timeout' \in 0 .. MaxTimeout, measured' \in BOOLEAN, pinging' \in BOOLEAN,
           expired' = expired \/ expired' = FALSE,
           UNCHANGED <<started, adding, addingAge, down>>
    PROVE  TimeoutInv'
<1>1. /\ wantQueue \in Seq(PendingWant)
      /\ activeWants \in SUBSET Key
      /\ addingAge \in Nat
      /\ TypeOK
    BY TimeoutAssumption DEF TimeoutInv, TypeOK
<1>2. Exact(wantQueue, activeWants) /\ InOrder(wantQueue)
    BY Zenon DEF TimeoutInv
<1>3. /\ wantQueue' \in Seq(PendingWant)
      /\ activeWants' \in SUBSET Key
      /\ firing' \in SUBSET SUBSET Key
      /\ timer' \in 0 .. MaxTimeout
      /\ consuming' \in BOOLEAN
      /\ Exact(wantQueue', activeWants')
      /\ InOrder(wantQueue')
      /\ ~down' => InTime(wantQueue, timeout)'
      /\ \A a \in Nat : (\A i \in 1 .. Len(wantQueue) : wantQueue[i].age >= a)
                         => \A i \in 1 .. Len(wantQueue') : wantQueue'[i].age >= a
  <2> DEFINE t == timeout'
  <2>1. t \in 0 .. MaxTimeout /\ CheckForTimeouts(wantQueue, activeWants, t) /\ down' = down
      OBVIOUS
  <2> HIDE DEF t
  <2>2. /\ wantQueue' \in Seq(PendingWant)
        /\ activeWants' \in SUBSET Key
        /\ firing' \in SUBSET SUBSET Key
        /\ timer' \in 0 .. MaxTimeout
        /\ consuming' \in BOOLEAN
        /\ Exact(wantQueue', activeWants')
        /\ InOrder(wantQueue')
        /\ ~down' => \A i \in 1 .. Len(wantQueue') : wantQueue'[i].active =>
                        consuming' /\ (expired' \/ (timer' > 0 /\ wantQueue'[i].age + timer' <= t))
        /\ \A a \in Nat : (\A i \in 1 .. Len(wantQueue) : wantQueue[i].age >= a)
                           => \A i \in 1 .. Len(wantQueue') : wantQueue'[i].age >= a
      BY <1>1, <1>2, <2>1, CheckSound, Zenon DEF InTime
  <2> QED
      BY <2>2, Zenon DEF InTime, t
<1>4. TypeOK'
    BY <1>1, <1>3, Zenon DEF TypeOK
<1>5. AddingLast'
    BY <1>1, <1>3, Zenon DEF TimeoutInv, AddingLast
<1> QED
    BY <1>3, <1>4, <1>5, Zenon DEF TimeoutInv, StartedFirst

(* Every step keeps the invariant.                                         *)
LEMMA NextKeepsInv == TimeoutInv /\ [Next]_vars => TimeoutInv'
<1> SUFFICES ASSUME TimeoutInv, [Next]_vars PROVE TimeoutInv'
    OBVIOUS
<1>q. /\ wantQueue \in Seq(PendingWant)
      /\ Len(wantQueue) \in Nat
      /\ DOMAIN wantQueue = 1 .. Len(wantQueue)
      /\ \A i \in 1 .. Len(wantQueue) : wantQueue[i] \in PendingWant
  <2>1. wantQueue \in Seq(PendingWant)
      BY Zenon DEF TimeoutInv, TypeOK
  <2> QED
      BY <2>1
<1>1. CASE Start
  <2>1. wantQueue = <<>> /\ Len(wantQueue) = 0 /\ adding = {}
      BY <1>1, Zenon DEF Start, TimeoutInv, StartedFirst
  <2>2. UNCHANGED <<wantQueue, activeWants, firing, timer, consuming, measured, expired,
                    adding, addingAge, down>> /\ started'
      BY <1>1, Zenon DEF Start, checkVars
  <2>3. timeout' \in 0 .. MaxTimeout /\ pinging' \in BOOLEAN
      BY <1>1, Zenon DEF Start, TimeoutInv, TypeOK
  <2>4. TypeOK'
      BY <1>1, <2>2, <2>3, Zenon DEF Start, TimeoutInv, TypeOK
  <2>5. Exact(wantQueue', activeWants') /\ InOrder(wantQueue')
      BY <2>2, Zenon DEF TimeoutInv
  <2>6. InTime(wantQueue, timeout)' /\ AddingLast' /\ StartedFirst'
      BY <2>1, <2>2 DEF InTime, AddingLast, StartedFirst
  <2> QED
      BY <2>4, <2>5, <2>6, Zenon DEF TimeoutInv
<1>2. CASE AddPending
  <2>1. PICK s \in Orders(adding \ activeWants) : AddPendingTo(Enqueued(s))
      BY <1>2, Zenon DEF AddPending
  <2> DEFINE q == Enqueued(s)
  <2>2. adding # {} /\ UNCHANGED <<started, timeout, measured, expired, pinging, down>>
      BY <1>2, Zenon DEF AddPending
  <2>3. q \in Seq(PendingWant) /\ Exact(q, activeWants \cup adding) /\ InOrder(q)
      BY <2>2, AppendedSound, Zenon
  <2>4. adding' = {} /\ addingAge' = 0 /\ started /\ started'
      BY <2>1, <2>2, Zenon DEF AddPendingTo, TimeoutInv, StartedFirst
  <2>5. activeWants \cup adding \in SUBSET Key /\ 0 \in 0 .. MaxTimeout
      BY TimeoutAssumption DEF TimeoutInv, TypeOK
  <2>6. CASE activeWants = {}
    <3>1. CheckForTimeouts(q, activeWants \cup adding, timeout)
        BY <2>1, <2>6, Zenon DEF AddPendingTo
    <3>2. TypeOK /\ timeout \in 0 .. MaxTimeout /\ expired' = expired /\ down' = down
        BY <2>2, Zenon DEF TimeoutInv, TypeOK
    <3> HIDE DEF q
    <3>3. /\ wantQueue' \in Seq(PendingWant)
          /\ activeWants' \in SUBSET Key
          /\ firing' \in SUBSET SUBSET Key
          /\ timer' \in 0 .. MaxTimeout
          /\ consuming' \in BOOLEAN
          /\ Exact(wantQueue', activeWants')
          /\ InOrder(wantQueue')
          /\ ~down' => \A i \in 1 .. Len(wantQueue') : wantQueue'[i].active =>
                         consuming' /\ (expired' \/ (timer' > 0 /\ wantQueue'[i].age + timer' <= timeout))
        BY <2>3, <2>5, <3>1, <3>2, CheckScheduledAt, Zenon
    <3>4. TypeOK'
        BY <2>2, <2>4, <2>5, <3>2, <3>3, Zenon DEF TypeOK
    <3> QED
        BY <2>2, <2>4, <3>3, <3>4, Zenon DEF TimeoutInv, InTime, AddingLast, StartedFirst
  <2>7. CASE activeWants # {}
    <3>1. wantQueue' = q /\ activeWants' = activeWants \cup adding
            /\ UNCHANGED <<firing, timer, consuming>>
        BY <2>1, <2>7, Zenon DEF AddPendingTo
    <3>2. TypeOK'
        BY <2>2, <2>3, <2>4, <2>5, <3>1, Zenon DEF TimeoutInv, TypeOK
    <3>3. Exact(wantQueue', activeWants') /\ InOrder(wantQueue')
        BY <2>3, <3>1, Zenon
    <3>4. AddingLast' /\ StartedFirst'
        BY <2>4, Zenon DEF AddingLast, StartedFirst
    <3>5. ASSUME ~down'
          PROVE  InTime(wantQueue, timeout)'
      <4>1. PICK m \in 1 .. Len(wantQueue) : wantQueue[m].active
          BY <2>7, Zenon DEF TimeoutInv, Exact
      <4>2. consuming /\ (expired \/ (timer > 0 /\ wantQueue[m].age + timer <= timeout))
          BY <2>2, <3>5, <4>1, Zenon DEF TimeoutInv, InTime
      <4>3. /\ wantQueue[m].age \in Nat
            /\ wantQueue[m].age >= addingAge
            /\ addingAge \in Nat /\ timer \in Nat /\ timeout \in Nat
          BY <1>q, <2>2, <4>1, TimeoutAssumption DEF TimeoutInv, TypeOK, AddingLast, PendingWant
      <4>4. expired \/ (timer > 0 /\ addingAge + timer <= timeout)
          BY <4>2, <4>3
      <4>5. ASSUME NEW i \in 1 .. Len(q), q[i].active
            PROVE  consuming /\ (expired \/ (timer > 0 /\ q[i].age + timer <= timeout))
        <5>1. /\ \A j \in 1 .. Len(wantQueue) : q[j] = wantQueue[j]
              /\ \A j \in 1 .. Len(s) :
                    q[Len(wantQueue) + j] = [c |-> s[j], active |-> TRUE, age |-> addingAge]
              /\ \A k \in 1 .. Len(q) :
                    \/ k \in 1 .. Len(wantQueue)
                    \/ \E j \in 1 .. Len(s) : k = Len(wantQueue) + j
          <6>1. TypeOK
              BY Zenon DEF TimeoutInv
          <6> QED
              BY <6>1, Appended, ZenonT(60)
        <5> HIDE DEF q
        <5>2. CASE i \in 1 .. Len(wantQueue)
            BY <2>2, <3>5, <4>5, <5>1, <5>2, Zenon DEF TimeoutInv, InTime
        <5>3. CASE \E j \in 1 .. Len(s) : i = Len(wantQueue) + j
          <6>1. PICK j \in 1 .. Len(s) : i = Len(wantQueue) + j
              BY <5>3, Zenon
          <6>2. q[i] = [c |-> s[j], active |-> TRUE, age |-> addingAge]
              BY <5>1, <6>1, Zenon
          <6>3. q[i].age = addingAge
              BY <6>2
          <6> QED
              BY <4>2, <4>4, <6>3, Zenon
        <5> QED
            BY <5>1, <5>2, <5>3, Zenon
      <4> HIDE DEF q
      <4> QED
          BY <2>2, <3>1, <4>5, Zenon DEF InTime
    <3> QED
        BY <3>2, <3>3, <3>4, <3>5, Zenon DEF TimeoutInv
  <2> QED
      BY <2>6, <2>7, Zenon
<1>3. CASE Shutdown
  <2>1. UNCHANGED <<wantQueue, activeWants, firing, consuming, started, timeout,
                    measured, expired, pinging, adding, addingAge>>
          /\ timer' = 0 /\ down'
      BY <1>3, Zenon DEF Shutdown
  <2>2. TypeOK'
    <3>1. timer' \in 0 .. MaxTimeout
        BY <2>1, TimeoutAssumption
    <3> QED
        BY <1>3, <2>1, <3>1, Zenon DEF Shutdown, TimeoutInv, TypeOK
  <2> QED
      BY <2>1, <2>2, Zenon DEF TimeoutInv, AddingLast, StartedFirst
<1>4. ASSUME NEW ks \in SUBSET Key, AddPendingStart(ks)
      PROVE  TimeoutInv'
  <2>1. /\ UNCHANGED <<wantQueue, activeWants, firing, timer, consuming, started,
                       timeout, measured, expired, pinging, down>>
        /\ adding' = ks /\ addingAge' = 0 /\ started
      BY <1>4, Zenon DEF AddPendingStart, checkVars
  <2>2. TypeOK'
    <3>1. addingAge' \in 0 .. MaxTimeout
        BY <2>1, TimeoutAssumption
    <3> QED
        BY <2>1, <3>1, Zenon DEF TimeoutInv, TypeOK
  <2>3. AddingLast'
      BY <1>q, <2>1 DEF AddingLast, PendingWant
  <2> QED
      BY <2>1, <2>2, <2>3, Zenon DEF TimeoutInv, InTime, StartedFirst
<1>5. ASSUME NEW ks \in SUBSET Key, CancelPending(ks)
      PROVE  TimeoutInv'
  <2> DEFINE q == wantQueue
             r == wantQueue'
  <2>1. /\ UNCHANGED <<firing, timer, consuming, started, timeout, measured,
                       expired, pinging, adding, addingAge, down>>
        /\ activeWants' = activeWants \ ks
        /\ r = [i \in DOMAIN q |-> IF q[i].c \in ks THEN [q[i] EXCEPT !.active = FALSE]
                                   ELSE q[i]]
      BY <1>5, Zenon DEF CancelPending
  <2>2. \A i \in 1 .. Len(q) :
           /\ r[i] \in PendingWant
           /\ r[i].c = q[i].c
           /\ r[i].age = q[i].age
           /\ r[i].active <=> q[i].active /\ q[i].c \notin ks
      BY <1>q, <2>1, Zenon DEF PendingWant
  <2>3. r \in [1 .. Len(q) -> PendingWant]
      BY <1>q, <2>1, <2>2, Zenon
  <2>4. r \in Seq(PendingWant) /\ Len(r) = Len(q)
      BY <1>q, <2>3, FunctionIsSeq, Zenon
  <2>5. TypeOK'
      BY <2>1, <2>4, Zenon DEF TimeoutInv, TypeOK
  <2> HIDE DEF q, r
  <2>6. Exact(r, activeWants')
    <3>1. Exact(q, activeWants)
        BY Zenon DEF TimeoutInv, q
    <3> QED
        BY <2>1, <2>2, <2>4, <3>1 DEF Exact
  <2>7. InOrder(r)
    <3>1. InOrder(q)
        BY Zenon DEF TimeoutInv, q
    <3> QED
        BY <2>2, <2>4, <3>1, Zenon DEF InOrder
  <2>8. ~down' => InTime(wantQueue, timeout)'
    <3>1. ~down => InTime(q, timeout)
        BY Zenon DEF TimeoutInv, q
    <3> QED
        BY <2>1, <2>2, <2>4, <3>1, Zenon DEF InTime, r
  <2>9. AddingLast'
      BY <2>1, <2>2, <2>4, Zenon DEF TimeoutInv, AddingLast, q, r
  <2>10. StartedFirst'
    <3>1. q = <<>> => Len(r) = 0
        BY <2>4, Zenon
    <3>2. Len(r) = 0 => r = <<>>
        BY <2>4
    <3> QED
        BY <2>1, <3>1, <3>2, Zenon DEF TimeoutInv, StartedFirst, q, r
  <2> QED
      BY <2>5, <2>6, <2>7, <2>8, <2>9, <2>10, Zenon DEF TimeoutInv, r
<1>6. ASSUME NEW t \in 0 .. MaxTimeout, UpdateMessageLatency(t)
      PROVE  TimeoutInv'
  <2>1. /\ started
        /\ timeout' = t
        /\ measured' = TRUE
        /\ UNCHANGED <<started, expired, pinging, adding, addingAge, down>>
      BY <1>6, Zenon DEF UpdateMessageLatency
  <2>2. CASE t < timeout
    <3>1. CheckForTimeouts(wantQueue, activeWants, timeout')
        BY <1>6, <2>1, <2>2, Zenon DEF UpdateMessageLatency
    <3>2. timeout' \in 0 .. MaxTimeout /\ measured' \in BOOLEAN /\ pinging' \in BOOLEAN
        BY <2>1, Zenon DEF TimeoutInv, TypeOK
    <3> QED
        BY <2>1, <3>1, <3>2, CheckKeepsInv, Zenon
  <2>3. CASE ~(t < timeout)
    <3>1. UNCHANGED <<wantQueue, activeWants, firing, timer, consuming>>
        BY <1>6, <2>3, Zenon DEF UpdateMessageLatency, checkVars
    <3>2. TypeOK'
        BY <2>1, <3>1, Zenon DEF TimeoutInv, TypeOK
    <3>3. \A i \in 1 .. Len(wantQueue) : wantQueue[i].age + timer <= timeout
                                           => wantQueue[i].age + timer <= timeout'
        BY <1>q, <2>1, <2>3, TimeoutAssumption, SMTT(30) DEF TimeoutInv, TypeOK, PendingWant
    <3>4. ~down' => InTime(wantQueue, timeout)'
        BY <2>1, <3>1, <3>3, Zenon DEF TimeoutInv, InTime
    <3> QED
        BY <2>1, <3>1, <3>2, <3>4, Zenon DEF TimeoutInv, AddingLast, StartedFirst
  <2> QED
      BY <2>2, <2>3, Zenon
<1>7. CASE PingAnswered
  <2>1. UNCHANGED <<started, measured, expired, adding, addingAge, down>> /\ pinging' = FALSE
      BY <1>7, Zenon DEF PingAnswered
  <2>2. CASE UNCHANGED <<checkVars, timeout>>
    <3>1. UNCHANGED <<wantQueue, activeWants, firing, timer, consuming, timeout>>
        BY <2>2, Zenon DEF checkVars
    <3>2. TypeOK'
        BY <2>1, <3>1, Zenon DEF TimeoutInv, TypeOK
    <3> QED
        BY <2>1, <3>1, <3>2, Zenon DEF TimeoutInv, InTime, AddingLast, StartedFirst
  <2>3. CASE ~(UNCHANGED <<checkVars, timeout>>)
    <3>1. timeout' \in 0 .. MaxTimeout /\ CheckForTimeouts(wantQueue, activeWants, timeout')
        BY <1>7, <2>3, Zenon DEF PingAnswered
    <3>2. measured' \in BOOLEAN /\ pinging' \in BOOLEAN
        BY <2>1, Zenon DEF TimeoutInv, TypeOK
    <3>3. started
        BY <1>7, Zenon DEF PingAnswered, TimeoutInv, StartedFirst
    <3> QED
        BY <2>1, <3>1, <3>2, <3>3, CheckKeepsInv, Zenon
  <2> QED
      BY <2>2, <2>3, Zenon
<1>8. CASE ConsumeTimeout
  <2>1. /\ UNCHANGED <<started, timeout, measured, pinging, adding, addingAge, down>>
        /\ expired' = FALSE
        /\ CheckForTimeouts(wantQueue, activeWants, timeout)
      BY <1>8, Zenon DEF ConsumeTimeout
  <2>2. started
      BY <1>8, Zenon DEF ConsumeTimeout, TimeoutInv, StartedFirst
  <2>3. timeout' \in 0 .. MaxTimeout /\ measured' \in BOOLEAN /\ pinging' \in BOOLEAN
      BY <2>1, Zenon DEF TimeoutInv, TypeOK
  <2>4. CheckForTimeouts(wantQueue, activeWants, timeout')
      BY <2>1, Zenon
  <2> QED
      BY <2>1, <2>2, <2>3, <2>4, CheckKeepsInv, Zenon
<1>9. CASE Tick
  <2> DEFINE q == wantQueue
             r == wantQueue'
  <2>1. /\ UNCHANGED <<activeWants, firing, consuming, started, timeout, measured,
                       pinging, adding, down>>
        /\ r = [i \in DOMAIN q |-> [q[i] EXCEPT !.age = Older(@)]]
        /\ addingAge' = IF adding = {} THEN 0 ELSE Older(addingAge)
        /\ timer' = IF timer > 0 THEN timer - 1 ELSE 0
        /\ expired' = (expired \/ timer = 1)
      BY <1>9, Zenon DEF Tick
  <2>2. \A a \in 0 .. MaxTimeout : Older(a) \in 0 .. MaxTimeout /\ Older(a) <= a + 1
      BY TimeoutAssumption DEF Older
  <2>3. \A a, b \in 0 .. MaxTimeout : a >= b => Older(a) >= Older(b)
      BY TimeoutAssumption DEF Older
  <2>4. \A i \in 1 .. Len(q) : q[i].age \in 0 .. MaxTimeout
      BY <1>q, Zenon DEF PendingWant
  <2>5. ASSUME NEW i \in 1 .. Len(q)
        PROVE  /\ r[i] \in PendingWant
               /\ r[i].c = q[i].c
               /\ r[i].age = Older(q[i].age)
               /\ r[i].active = q[i].active
    <3>1. r[i] = [q[i] EXCEPT !.age = Older(q[i].age)]
        BY <1>q, <2>1, Zenon
    <3>2. q[i] \in PendingWant /\ Older(q[i].age) \in 0 .. MaxTimeout
        BY <1>q, <2>2, <2>4, Zenon
    <3> QED
        BY <3>1, <3>2, Zenon DEF PendingWant
  <2>6. r \in [1 .. Len(q) -> PendingWant]
      BY <1>q, <2>1, <2>5, Zenon
  <2>7. r \in Seq(PendingWant) /\ Len(r) = Len(q)
      BY <1>q, <2>6, FunctionIsSeq, Zenon
  <2>8. addingAge \in 0 .. MaxTimeout /\ timer \in 0 .. MaxTimeout /\ timeout \in 0 .. MaxTimeout
      BY Zenon DEF TimeoutInv, TypeOK
  <2>9. TypeOK'
    <3>1. addingAge' \in 0 .. MaxTimeout /\ timer' \in 0 .. MaxTimeout
        BY <2>1, <2>2, <2>8, TimeoutAssumption
    <3>2. expired' \in BOOLEAN
        BY <2>1, Zenon
    <3> QED
        BY <2>1, <2>7, <3>1, <3>2, Zenon DEF TimeoutInv, TypeOK
  <2> HIDE DEF q, r
  <2>10. Exact(r, activeWants')
    <3>1. Exact(q, activeWants)
        BY Zenon DEF TimeoutInv, q
    <3> QED
        BY <2>1, <2>5, <2>7, <3>1 DEF Exact
  <2>11. InOrder(r)
    <3>1. InOrder(q)
        BY Zenon DEF TimeoutInv, q
    <3> QED
        BY <2>3, <2>4, <2>5, <2>7, <3>1 DEF InOrder
  <2>12. ~down' => InTime(wantQueue, timeout)'
    <3>1. ~down => InTime(q, timeout)
        BY Zenon DEF TimeoutInv, q
    <3>2. ASSUME ~down, NEW i \in 1 .. Len(q), q[i].active
          PROVE  consuming' /\ (expired' \/ (timer' > 0 /\ r[i].age + timer' <= timeout'))
      <4>1. consuming /\ (expired \/ (timer > 0 /\ q[i].age + timer <= timeout))
          BY <3>1, <3>2, Zenon DEF InTime
      <4>2. CASE expired \/ timer = 1
          BY <2>1, <4>1, <4>2, Zenon
      <4>3. CASE ~expired /\ timer # 1
        <5>1. timer > 1 /\ timer' = timer - 1
            BY <2>1, <2>8, <4>1, <4>3, TimeoutAssumption
        <5>2. r[i].age <= q[i].age + 1 /\ r[i].age \in 0 .. MaxTimeout
            BY <2>2, <2>4, <2>5, Zenon
        <5> QED
            BY <2>1, <2>4, <2>8, <4>1, <4>3, <5>1, <5>2, TimeoutAssumption, SMTT(30)
      <4> QED
          BY <4>2, <4>3, Zenon
    <3> QED
        BY <2>1, <2>5, <2>7, <3>2, Zenon DEF InTime, r
  <2>13. AddingLast'
    <3>1. adding # {} => \A i \in 1 .. Len(q) : q[i].age >= addingAge
        BY Zenon DEF TimeoutInv, AddingLast, q
    <3>2. adding # {} => \A i \in 1 .. Len(r) : r[i].age >= addingAge'
        BY <2>1, <2>3, <2>4, <2>5, <2>7, <2>8, <3>1, SMTT(30)
    <3> QED
        BY <2>1, <3>2, Zenon DEF AddingLast, r
  <2>14. StartedFirst'
    <3>1. q = <<>> => Len(r) = 0
        BY <2>7, Zenon
    <3>2. Len(r) = 0 => r = <<>>
        BY <2>7
    <3> QED
        BY <2>1, <3>1, <3>2, Zenon DEF TimeoutInv, StartedFirst, q, r
  <2> QED
      BY <2>9, <2>10, <2>11, <2>12, <2>13, <2>14, Zenon DEF TimeoutInv, r
<1>10. ASSUME NEW ks \in SUBSET Key, FireTimeout(ks)
       PROVE  TimeoutInv'
  <2>1. UNCHANGED <<wantQueue, activeWants, timer, consuming, started, timeout,
                    measured, expired, pinging, adding, addingAge, down>>
          /\ firing' = firing \ {ks}
      BY <1>10, Zenon DEF FireTimeout
  <2>2. TypeOK'
      BY <2>1, Zenon DEF TimeoutInv, TypeOK
  <2> QED
      BY <2>1, <2>2, Zenon DEF TimeoutInv, InTime, AddingLast, StartedFirst
<1>11. CASE UNCHANGED vars
  <2>1. UNCHANGED <<wantQueue, activeWants, timer, consuming, started, timeout, firing,
                    measured, expired, pinging, adding, addingAge, down>>
      BY <1>11, Zenon DEF vars
  <2>2. TypeOK'
      BY <2>1, Zenon DEF TimeoutInv, TypeOK
  <2> QED
      BY <2>1, <2>2, Zenon DEF TimeoutInv, InTime, AddingLast, StartedFirst
<1> QED
    BY <1>1, <1>2, <1>3, <1>4, <1>5, <1>6, <1>7, <1>8, <1>9, <1>10, <1>11, Zenon DEF Next

(* The invariant always holds.                                             *)
LEMMA TimeoutInvariance == Spec => []TimeoutInv
<1> QED
    BY TimeoutInvInit, NextKeepsInv, PTL DEF Spec

-----------------------------------------------------------------------------
(* The variables have their types; the timer never runs for longer than    *)
(* the longest timeout.                                                    *)
THEOREM TypeCorrect == Spec => []TypeOK
<1> QED
    BY TimeoutInvariance, TimeoutInvGives, PTL

(* activeWants and wantQueue describe the same wants, each once, through   *)
(* AddPending, CancelPending and checkForTimeouts.                         *)
THEOREM MapAndQueueAgree == Spec => []ActiveExact
<1> QED
    BY TimeoutInvariance, TimeoutInvGives, PTL

(* The queue is in the order of time, so checkForTimeouts may stop at the  *)
(* first want that is not over the timeout.                                *)
THEOREM QueueStaysInOrder == Spec => []QueueInOrder
<1> QED
    BY TimeoutInvariance, TimeoutInvGives, PTL

(* While the manager runs, every active want has a check scheduled no      *)
(* later than its timeout, also when the timeout has been shortened.       *)
THEOREM ChecksInTime == Spec => []CheckScheduled
<1> QED
    BY TimeoutInvariance, TimeoutInvGives, PTL

-----------------------------------------------------------------------------
(* checkForTimeouts takes active wants for late, and no others.            *)
LEMMA CheckExpires ==
    ASSUME NEW q \in Seq(PendingWant), NEW active \in SUBSET Key, NEW t,
           Exact(q, active), CheckForTimeouts(q, active, t)
    PROVE  \E overdue \in SUBSET active :
              /\ activeWants' = active \ overdue
              /\ firing' = IF overdue = {} THEN firing ELSE firing \cup {overdue}
<1>1. PICK n \in 0 .. Len(q) :
           /\ activeWants' = active \ Late(q, n)
           /\ firing' = IF Late(q, n) = {} THEN firing ELSE firing \cup {Late(q, n)}
    BY Zenon DEF CheckForTimeouts
<1>2. Len(q) \in Nat
    OBVIOUS
<1>3. Late(q, n) \subseteq active
    BY <1>2 DEF Late, Exact
<1> QED
    BY <1>1, <1>3, Zenon

(* A check on its own is a TimeOut of the interface, or nothing.           *)
LEMMA CheckIsTimeOut ==
    ASSUME TimeoutInv, NEW t, CheckForTimeouts(wantQueue, activeWants, t), down' = down
    PROVE  [Promise!DhNext]_(Promise!dhVars)
<1>1. wantQueue \in Seq(PendingWant) /\ activeWants \in SUBSET Key
    BY Zenon DEF TimeoutInv, TypeOK
<1>2. Exact(wantQueue, activeWants)
    BY Zenon DEF TimeoutInv
<1>3. PICK overdue \in SUBSET activeWants :
              /\ activeWants' = activeWants \ overdue
              /\ firing' = IF overdue = {} THEN firing ELSE firing \cup {overdue}
    BY <1>1, <1>2, CheckExpires, ZenonT(60)
<1>4. CASE overdue = {}
    BY <1>3, <1>4, Zenon DEF Promise!dhVars
<1>5. CASE overdue # {}
  <2>1. Promise!TimeOut(overdue)
      BY <1>3, <1>5, Zenon DEF Promise!TimeOut, Promise!Expire
  <2>2. overdue \in SUBSET Key
      BY <1>1, Zenon
  <2> QED
      BY <2>1, <2>2, Zenon DEF Promise!DhNext
<1> QED
    BY <1>4, <1>5, Zenon

(* Every step of the manager is a step of the interface, or one that does  *)
(* not show.                                                               *)
LEMMA StepIsPromised == TimeoutInv /\ [Next]_vars => [Promise!DhNext]_(Promise!dhVars)
<1> SUFFICES ASSUME TimeoutInv, [Next]_vars PROVE [Promise!DhNext]_(Promise!dhVars)
    OBVIOUS
<1>1. CASE Start
    BY <1>1, Zenon DEF Start, checkVars, Promise!dhVars
<1>2. CASE AddPending
  <2>1. PICK s \in Orders(adding \ activeWants) : AddPendingTo(Enqueued(s))
      BY <1>2, Zenon DEF AddPending
  <2>2. adding # {} /\ down' = down
      BY <1>2, Zenon DEF AddPending
  <2>3. adding \in SUBSET Key /\ activeWants \cup adding \in SUBSET Key
      BY Zenon DEF TimeoutInv, TypeOK
  <2>4. \E overdue \in SUBSET (activeWants \cup adding) :
              /\ activeWants' = (activeWants \cup adding) \ overdue
              /\ firing' = IF overdue = {} THEN firing ELSE firing \cup {overdue}
    <3>1. CASE activeWants = {}
      <4>1. CheckForTimeouts(Enqueued(s), activeWants \cup adding, timeout)
          BY <2>1, <3>1, Zenon DEF AddPendingTo
      <4>2. /\ Enqueued(s) \in Seq(PendingWant)
            /\ Exact(Enqueued(s), activeWants \cup adding)
          BY <2>2, AppendedSound, Zenon
      <4> DEFINE q == Enqueued(s)
                 active == activeWants \cup adding
                 t == timeout
      <4>3. /\ q \in Seq(PendingWant) /\ active \in SUBSET Key
            /\ Exact(q, active) /\ CheckForTimeouts(q, active, t)
          BY <2>3, <4>1, <4>2, Zenon
      <4> HIDE DEF q, active, t
      <4>4. \E overdue \in SUBSET active :
               /\ activeWants' = active \ overdue
               /\ firing' = IF overdue = {} THEN firing ELSE firing \cup {overdue}
          BY <4>3, CheckExpires, ZenonT(60)
      <4> QED
          BY <4>4, Zenon DEF active
    <3>2. CASE activeWants # {}
      <4>1. activeWants' = (activeWants \cup adding) \ {} /\ firing' = firing
          BY <2>1, <3>2, Zenon DEF AddPendingTo
      <4>2. {} \in SUBSET (activeWants \cup adding)
          OBVIOUS
      <4> QED
          BY <4>1, <4>2, Zenon
    <3> QED
        BY <3>1, <3>2, Zenon
  <2>5. Promise!AddPending(adding)
      BY <2>2, <2>4, Zenon DEF Promise!AddPending, Promise!Expire
  <2> QED
      BY <2>3, <2>5, Zenon DEF Promise!DhNext
<1>3. CASE Shutdown
    BY <1>3, Zenon DEF Shutdown, Promise!DhShutdown, Promise!DhNext
<1>4. ASSUME NEW ks \in SUBSET Key, AddPendingStart(ks)
      PROVE  [Promise!DhNext]_(Promise!dhVars)
    BY <1>4, Zenon DEF AddPendingStart, checkVars, Promise!dhVars
<1>5. ASSUME NEW ks \in SUBSET Key, CancelPending(ks)
      PROVE  [Promise!DhNext]_(Promise!dhVars)
    BY <1>5, Zenon DEF CancelPending, Promise!CancelPending, Promise!DhNext
<1>6. ASSUME NEW t \in 0 .. MaxTimeout, UpdateMessageLatency(t)
      PROVE  [Promise!DhNext]_(Promise!dhVars)
  <2>1. down' = down
      BY <1>6, Zenon DEF UpdateMessageLatency
  <2>2. CASE t < timeout
    <3>1. CheckForTimeouts(wantQueue, activeWants, t)
        BY <1>6, <2>2, Zenon DEF UpdateMessageLatency
    <3> QED
        BY <2>1, <3>1, CheckIsTimeOut, Zenon
  <2>3. CASE ~(t < timeout)
      BY <1>6, <2>1, <2>3, Zenon DEF UpdateMessageLatency, checkVars, Promise!dhVars
  <2> QED
      BY <2>2, <2>3, Zenon
<1>7. CASE PingAnswered
  <2>1. down' = down
      BY <1>7, Zenon DEF PingAnswered
  <2>2. CASE UNCHANGED <<checkVars, timeout>>
      BY <2>1, <2>2, Zenon DEF checkVars, Promise!dhVars
  <2>3. CASE ~(UNCHANGED <<checkVars, timeout>>)
    <3>1. PICK t \in 0 .. MaxTimeout : CheckForTimeouts(wantQueue, activeWants, t)
        BY <1>7, <2>3, Zenon DEF PingAnswered
    <3> QED
        BY <2>1, <3>1, CheckIsTimeOut, Zenon
  <2> QED
      BY <2>2, <2>3, Zenon
<1>8. CASE ConsumeTimeout
  <2>1. down' = down /\ CheckForTimeouts(wantQueue, activeWants, timeout)
      BY <1>8, Zenon DEF ConsumeTimeout
  <2> QED
      BY <2>1, CheckIsTimeOut, Zenon
<1>9. CASE Tick
    BY <1>9, Zenon DEF Tick, Promise!dhVars
<1>10. ASSUME NEW ks \in SUBSET Key, FireTimeout(ks)
       PROVE  [Promise!DhNext]_(Promise!dhVars)
    BY <1>10, Zenon DEF FireTimeout, Promise!FireTimeout, Promise!DhNext
<1>11. CASE UNCHANGED vars
    BY <1>11, Zenon DEF vars, Promise!dhVars
<1> QED
    BY <1>1, <1>2, <1>3, <1>4, <1>5, <1>6, <1>7, <1>8, <1>9, <1>10, <1>11, Zenon DEF Next

(* The manager implements the interface as far as safety goes: wants that  *)
(* are reported late were pending, and leave the pending ones as they are  *)
(* reported.                                                               *)
THEOREM ImplementsInterface == Spec => Promise!DhSafety
<1>1. Init => Promise!DhInit
    BY Zenon DEF Init, Promise!DhInit
<1> QED
    BY <1>1, TimeoutInvariance, StepIsPromised, PTL DEF Spec, Promise!DhSafety

-----------------------------------------------------------------------------
(* The session's want sender: its inductive invariant.                     *)

\* A change about a key that a goroutine of the session can hold.
Message == {m \in Change : /\ m.kind \in {"add", "block", "have", "dontHave"}
                            /\ m.key \in Want}

\* The values of the sender's variables.  The count of a peer's DONT_HAVEs, a sum
\* with a cardinality, never passes the limit.
SenderTypeOK ==
    /\ wants \in [Want -> WantInfo \cup {NotWanted}]
    /\ members \in SUBSET Peer /\ receiver \in Peer \cup {Nobody}
    /\ \A p \in Peer : ~(streak[p] > DontHaveLimit)
    /\ swbt \in SUBSET (Peer \X Want)
    /\ presences \in [Want -> [Peer -> {"none", "have", "dontHave"}]]
    /\ interest \in SUBSET Want /\ changes \in Seq(Change)
    /\ updates \in SUBSET Message
    /\ held \in [Peer -> [{"up", "down"} -> Nat]] /\ misled \in SUBSET Peer
    /\ pruning \in SUBSET Peer /\ connected \in SUBSET Peer
    /\ registered \in SUBSET Peer /\ late \in SUBSET Peer
    /\ stage \in {"idle", "cancel", "send"}
    /\ cancels \in SUBSET Want /\ unsent \in SUBSET Want /\ spent \in Nat

\* The peer is there, or a down about it is still to be queued, or an up that
\* came after the last down has spoilt what the session knows of it.
Excused(p) == p \in connected \cup misled \/ held[p]["down"] > 0

\* The words about a peer's availability have a last one, and an up is followed
\* by a down when the peer has left again, unless a goroutine holds the down or
\* held the up too long. The peer manager says up only to a session that is
\* registered.
Words == {"up", "block", "have", "down"}
WordOK(p) ==
    /\ AboutPeer(p, Words) # {} =>
          \E i \in AboutPeer(p, Words) : \A j \in AboutPeer(p, Words) : j <= i
    /\ \A i \in AboutPeer(p, {"up"}) :
          /\ p \in registered
          /\ Excused(p) \/ \E j \in AboutPeer(p, {"down"}) : i < j
    /\ held[p]["up"] > 0 => p \in registered

\* Of every peer.
WordsOK == \A p \in Peer : WordOK(p)

\* A peer that left the network leaves the session with the batch that has the
\* down about it.
MembersOK ==
    \A p \in members :
        /\ p \in registered
        /\ Excused(p) \/ p \in late \/ AboutPeer(p, {"down"}) # {}

\* A want knows of the peers of the session, and of no others but the late ones.
KnowsOK ==
    \A k \in Want, p \in Peer : wants[k] # NotWanted =>
        /\ p \in members => wants[k].presence[p] # "none"
        /\ wants[k].presence[p] # "none" \/ wants[k].sentTo = p => p \in members \cup late

\* sendNextWants has wants ahead of it only while it runs.
UnsentOK == \A k \in unsent : stage = "send" /\ wants[k] # NotWanted

\* The wants that sendNextWants has visited wait for a peer, or nobody has them.
Settled(k) ==
    wants[k] # NotWanted /\ wants[k].sentTo = Nobody =>
        \A p \in members : wants[k].presence[p] = "dontHave"

\* A want that is not unsent was settled by the loop over the wants.
VisitedOK ==
    /\ stage = "idle" => \A k \in Want : Settled(k)
    /\ stage = "send" => \A k \in Want \ unsent : Settled(k)

\* The inductive invariant.
SenderInv ==
    SenderTypeOK /\ UnsentOK /\ WordsOK /\ MembersOK /\ KnowsOK /\ VisitedOK

-----------------------------------------------------------------------------
(* The record of a want.                                                   *)

\* What the session sees of a peer is never nothing.
LEMMA SeenFacts ==
    ASSUME SenderTypeOK, NEW k \in Want, NEW p \in Peer
    PROVE  Seen(p, k) \in Presence \ {"none"}
BY DEF SenderTypeOK, Seen, Presence

\* setPeerBlockPresence changes the presence of the given peers alone.
LEMMA SetPresenceFacts ==
    ASSUME SenderTypeOK, NEW w \in WantInfo, NEW k \in Want, NEW P
    PROVE  /\ SetPresence(w, k, P) \in WantInfo
           /\ SetPresence(w, k, P).sentTo = w.sentTo
           /\ \A p \in Peer : SetPresence(w, k, P).presence[p] =
                                 IF p \in P THEN Seen(p, k) ELSE w.presence[p]
<1> DEFINE f == [p \in Peer |-> IF p \in P THEN Seen(p, k) ELSE w.presence[p]]
<1>1. f \in [Peer -> Presence]
  BY SeenFacts DEF WantInfo
<1>2. \A x \in [Peer -> Presence], b \in BOOLEAN :
        /\ [w EXCEPT !.presence = x, !.exhausted = b] \in WantInfo
        /\ [w EXCEPT !.presence = x, !.exhausted = b].sentTo = w.sentTo
        /\ [w EXCEPT !.presence = x, !.exhausted = b].presence = x
  BY Zenon DEF WantInfo
<1>3. PICK b \in BOOLEAN : SetPresence(w, k, P) = [w EXCEPT !.presence = f, !.exhausted = b]
  <2>1. (w.exhausted /\ \A p \in P : Seen(p, k) # "have") \in BOOLEAN
    BY Zenon
  <2> QED
    BY <2>1, Zenon DEF SetPresence
<1>4. \A p \in Peer : f[p] = IF p \in P THEN Seen(p, k) ELSE w.presence[p]
  BY Zenon
<1> HIDE DEF f
<1>5. /\ SetPresence(w, k, P) \in WantInfo /\ SetPresence(w, k, P).sentTo = w.sentTo
      /\ SetPresence(w, k, P).presence = f
  <2> DEFINE r == [w EXCEPT !.presence = f, !.exhausted = b]
  <2>1. r \in WantInfo /\ r.sentTo = w.sentTo /\ r.presence = f
    BY <1>1, <1>2, Zenon
  <2>2. SetPresence(w, k, P) = r
    BY <1>3, Zenon
  <2> HIDE DEF r
  <2> QED
    BY <2>1, <2>2, Zenon
<1> QED
  BY <1>4, <1>5, Zenon

\* removePeer forgets the given peers, and the wait for one of them.
LEMMA RemovePeersFacts ==
    ASSUME NEW w \in WantInfo, NEW P
    PROVE  /\ RemovePeers(w, P) \in WantInfo
           /\ RemovePeers(w, P).sentTo = IF w.sentTo \in P THEN Nobody ELSE w.sentTo
           /\ \A p \in Peer : RemovePeers(w, P).presence[p] =
                                 IF p \in P THEN "none" ELSE w.presence[p]
<1> DEFINE f == [p \in Peer |-> IF p \in P THEN "none" ELSE w.presence[p]]
           to == IF w.sentTo \in P THEN Nobody ELSE w.sentTo
<1>1. f \in [Peer -> Presence]
  BY Zenon DEF WantInfo, Presence
<1>2. \A x \in [Peer -> Presence], y \in Peer \cup {Nobody} :
        /\ [w EXCEPT !.presence = x, !.sentTo = y] \in WantInfo
        /\ [w EXCEPT !.presence = x, !.sentTo = y].sentTo = y
        /\ [w EXCEPT !.presence = x, !.sentTo = y].presence = x
  BY Zenon DEF WantInfo
<1>3. w.sentTo \in Peer \cup {Nobody}
  BY DEF WantInfo
<1>4. RemovePeers(w, P) = [w EXCEPT !.presence = f, !.sentTo = to]
  BY Zenon DEF RemovePeers
<1>5. \A p \in Peer : f[p] = IF p \in P THEN "none" ELSE w.presence[p]
  BY Zenon
<1>6. to \in Peer \cup {Nobody}
  BY <1>3, Zenon
<1> HIDE DEF f, to
<1>7. /\ RemovePeers(w, P) \in WantInfo /\ RemovePeers(w, P).presence = f
      /\ RemovePeers(w, P).sentTo = to
  <2> DEFINE r == [w EXCEPT !.presence = f, !.sentTo = to]
  <2>1. r \in WantInfo /\ r.sentTo = to /\ r.presence = f
    BY <1>1, <1>2, <1>6, Zenon
  <2>2. RemovePeers(w, P) = r
    BY <1>4, Zenon
  <2> HIDE DEF r
  <2> QED
    BY <2>1, <2>2, Zenon
<1> QED
  BY <1>5, <1>7, Zenon DEF to

\* A new want knows of the peers of the session and waits for nobody.
LEMMA NewWantFacts ==
    ASSUME SenderTypeOK, NEW k \in Want
    PROVE  /\ NewWant(k) \in WantInfo
           /\ NewWant(k).sentTo = Nobody
           /\ \A p \in Peer : NewWant(k).presence[p] =
                                 IF p \in members THEN Seen(p, k) ELSE "none"
<1>1. \A b \in BOOLEAN :
        /\ [presence |-> [p \in Peer |-> "none"], sentTo |-> Nobody, exhausted |-> b] \in WantInfo
        /\ [presence |-> [p \in Peer |-> "none"], sentTo |-> Nobody, exhausted |-> b].sentTo = Nobody
        /\ \A p \in Peer : [presence |-> [q \in Peer |-> "none"], sentTo |-> Nobody,
                            exhausted |-> b].presence[p] = "none"
  BY DEF WantInfo, Presence
<1>2. PICK w \in WantInfo : /\ w.sentTo = Nobody /\ \A p \in Peer : w.presence[p] = "none"
                            /\ NewWant(k) = SetPresence(w, k, members)
  <2>1. FALSE \in BOOLEAN
    BY Zenon
  <2> QED
    BY <1>1, <2>1, Zenon DEF NewWant
<1>3. /\ SetPresence(w, k, members) \in WantInfo
      /\ SetPresence(w, k, members).sentTo = w.sentTo
      /\ \A p \in Peer : SetPresence(w, k, members).presence[p] =
                            IF p \in members THEN Seen(p, k) ELSE w.presence[p]
  BY SetPresenceFacts
<1> QED
  BY <1>2, <1>3

\* The answers of the batch set the presence of their senders; a DONT_HAVE may
\* end the wait for its sender.
LEMMA AnsweredFacts ==
    ASSUME SenderTypeOK, NEW w \in WantInfo, NEW k \in Want
    PROVE  /\ Answered(w, k) \in WantInfo
           /\ \/ Answered(w, k).sentTo = w.sentTo
              \/ Answered(w, k).sentTo = Nobody /\ Said(w.sentTo, k, "dontHave")
           /\ \A p \in Peer : Answered(w, k).presence[p] =
                 IF Said(p, k, "dontHave") \/ Said(p, k, "have") THEN Seen(p, k)
                 ELSE w.presence[p]
<1> DEFINE deniers == {p \in Peer : Said(p, k, "dontHave")}
           heard == deniers \cup {p \in Peer : Said(p, k, "have")}
           v == SetPresence(w, k, heard)
           to == IF v.sentTo \in deniers /\ <<v.sentTo, k>> \in swbt THEN Nobody ELSE v.sentTo
<1>0. \A P : /\ SetPresence(w, k, P) \in WantInfo
              /\ SetPresence(w, k, P).sentTo = w.sentTo
              /\ \A p \in Peer : SetPresence(w, k, P).presence[p] =
                                    IF p \in P THEN Seen(p, k) ELSE w.presence[p]
  BY SetPresenceFacts
<1>1. v \in WantInfo /\ v.sentTo = w.sentTo
  <2> HIDE DEF heard
  <2> QED
    BY <1>0, Zenon
<1>2. \A p \in Peer : v.presence[p] =
        IF Said(p, k, "dontHave") \/ Said(p, k, "have") THEN Seen(p, k) ELSE w.presence[p]
  <2>1. \A p \in Peer : p \in heard <=> Said(p, k, "dontHave") \/ Said(p, k, "have")
    BY Zenon
  <2>2. \A p \in Peer : v.presence[p] = IF p \in heard THEN Seen(p, k) ELSE w.presence[p]
    <3> HIDE DEF heard
    <3> QED
      BY <1>0, Zenon
  <2> HIDE DEF heard, v
  <2> QED
    BY <2>1, <2>2, Zenon
<1>3. Answered(w, k) = [v EXCEPT !.sentTo = to]
  BY Zenon DEF Answered
<1>4. /\ to = w.sentTo \/ (to = Nobody /\ Said(w.sentTo, k, "dontHave"))
      /\ to \in Peer \cup {Nobody}
  <2>1. w.sentTo \in Peer \cup {Nobody}
    BY Zenon DEF WantInfo
  <2>2. to = v.sentTo \/ (to = Nobody /\ v.sentTo \in deniers)
    BY Zenon
  <2>3. v.sentTo \in deniers => Said(w.sentTo, k, "dontHave")
    BY <1>1, Zenon
  <2>4. Nobody \in Peer \cup {Nobody}
    BY Zenon
  <2> HIDE DEF v, to, deniers
  <2> QED
    BY <1>1, <2>1, <2>2, <2>3, <2>4, Zenon
<1>5. \A x \in WantInfo, y \in Peer \cup {Nobody} :
        /\ [x EXCEPT !.sentTo = y] \in WantInfo
        /\ [x EXCEPT !.sentTo = y].sentTo = y
        /\ [x EXCEPT !.sentTo = y].presence = x.presence
  BY Zenon DEF WantInfo
<1> HIDE DEF deniers, heard, v, to
<1>6. /\ Answered(w, k) \in WantInfo /\ Answered(w, k).sentTo = to
      /\ Answered(w, k).presence = v.presence
  BY <1>1, <1>3, <1>4, <1>5 DEF WantInfo
<1> QED
  BY <1>2, <1>4, <1>6, Zenon

-----------------------------------------------------------------------------
(* What onChange makes of a want.                                          *)

\* trackWant and cancelWant: a want that is there goes on, unless it is
\* cancelled.
LEMMA TrackedFacts ==
    ASSUME SenderTypeOK, NEW k \in Want
    PROVE  /\ Tracked(k) \in WantInfo \cup {NotWanted}
           /\ Tracked(k) # NotWanted => Tracked(k) \in {NewWant(k), wants[k]}
           /\ wants[k] # NotWanted /\ AboutKey(k, {"cancel"}) = {} => Tracked(k) = wants[k]
<1>1. NewWant(k) \in WantInfo /\ wants[k] \in WantInfo \cup {NotWanted}
  BY NewWantFacts DEF SenderTypeOK
<1> QED
  BY <1>1, Zenon DEF Tracked

\* v is the entry of a tracked want w after the batch: peers came and left, then
\* the answers were applied.
After(v, w, k) ==
    /\ w \in WantInfo /\ v \in WantInfo /\ w = Tracked(k)
    /\ v.sentTo \in {w.sentTo, Nobody}
    /\ v.sentTo # w.sentTo => w.sentTo \in NewlyUnavailable \/ Said(w.sentTo, k, "dontHave")
    /\ w.sentTo \in NewlyUnavailable => v.sentTo = Nobody
    /\ \A p \in Peer : v.presence[p] =
          IF Said(p, k, "dontHave") \/ Said(p, k, "have") THEN Seen(p, k)
          ELSE IF p \in NewlyUnavailable THEN "none"
          ELSE IF p \in NewlyAvailable THEN Seen(p, k) ELSE w.presence[p]

\* The batch changes a want like this, or drops it.
LEMMA UpdatedFacts ==
    ASSUME SenderTypeOK, NEW k \in Want
    PROVE  LET v == Updated(NewlyAvailable, NewlyUnavailable)[k] IN
           v = NotWanted \/ \E w \in WantInfo : After(v, w, k)
<1> DEFINE up == NewlyAvailable
           gone == NewlyUnavailable
           w == Tracked(k)
           v == Updated(up, gone)[k]
<1>1. v = IF AboutKey(k, {"block"}) # {} \/ w = NotWanted THEN NotWanted
          ELSE Answered(Repeopled(w, k, up, gone), k)
  BY Zenon DEF Updated
<1> SUFFICES ASSUME w # NotWanted, v = Answered(Repeopled(w, k, up, gone), k)
             PROVE  After(v, w, k)
  BY <1>1, Zenon DEF After
<1>2. w \in WantInfo
  BY TrackedFacts, Zenon
<1> HIDE DEF up, gone, w, v
<1> DEFINE x == SetPresence(w, k, up)
           y == RemovePeers(x, gone)
<1>3. /\ x \in WantInfo /\ x.sentTo = w.sentTo
      /\ \A p \in Peer : x.presence[p] = IF p \in up THEN Seen(p, k) ELSE w.presence[p]
  BY <1>2, SetPresenceFacts
<1> HIDE DEF x
<1>4. /\ y \in WantInfo /\ y.sentTo = IF x.sentTo \in gone THEN Nobody ELSE x.sentTo
      /\ \A p \in Peer : y.presence[p] = IF p \in gone THEN "none" ELSE x.presence[p]
  BY <1>3, RemovePeersFacts
<1>5. v = Answered(y, k)
  BY Zenon DEF Repeopled, x
<1> HIDE DEF y
<1>6. /\ v \in WantInfo
      /\ v.sentTo = y.sentTo \/ (v.sentTo = Nobody /\ Said(y.sentTo, k, "dontHave"))
      /\ \A p \in Peer : v.presence[p] =
            IF Said(p, k, "dontHave") \/ Said(p, k, "have") THEN Seen(p, k) ELSE y.presence[p]
  BY <1>4, <1>5, AnsweredFacts
<1>7. \A p \in Peer : v.presence[p] =
          IF Said(p, k, "dontHave") \/ Said(p, k, "have") THEN Seen(p, k)
          ELSE IF p \in gone THEN "none"
          ELSE IF p \in up THEN Seen(p, k) ELSE w.presence[p]
  BY <1>3, <1>4, <1>6
<1>8. /\ v.sentTo \in {w.sentTo, Nobody}
      /\ v.sentTo # w.sentTo => w.sentTo \in gone \/ Said(w.sentTo, k, "dontHave")
      /\ w.sentTo \in gone => v.sentTo = Nobody
  BY <1>3, <1>4, <1>6
<1> QED
  BY <1>2, <1>6, <1>7, <1>8, Zenon DEF After, up, gone, w

\* onChange drops a want or leaves it in the state that the batch asks for.
LEMMA OnChangeWant ==
    ASSUME SenderTypeOK, OnChange, NEW k \in Want
    PROVE  /\ wants'[k] = NotWanted \/ \E w \in WantInfo : After(wants'[k], w, k)
           /\ wants'[k] = NotWanted <=> Updated(NewlyAvailable, NewlyUnavailable)[k] = NotWanted
<1> DEFINE v == Updated(NewlyAvailable, NewlyUnavailable)[k]
           peers == (members \cup NewlyAvailable) \ NewlyUnavailable
<1>1. wants'[k] = IF v = NotWanted THEN NotWanted
                  ELSE [v EXCEPT !.exhausted = v.exhausted \/ Exhausted(k, peers, NewlyUnavailable)]
  BY ZenonT(60) DEF OnChange
<1>2. CASE v # NotWanted
  <2>1. PICK w \in WantInfo : After(v, w, k)
    BY <1>2, UpdatedFacts, Zenon
  <2>2. v \in WantInfo
    BY <2>1, Zenon DEF After
  <2>3. \A b \in BOOLEAN, u \in WantInfo :
          /\ [u EXCEPT !.exhausted = b] \in WantInfo
          /\ [u EXCEPT !.exhausted = b].sentTo = u.sentTo
          /\ [u EXCEPT !.exhausted = b].presence = u.presence
    BY DEF WantInfo
  <2>4. PICK b \in BOOLEAN : wants'[k] = [v EXCEPT !.exhausted = b]
    <3>1. (v.exhausted \/ Exhausted(k, peers, NewlyUnavailable)) \in BOOLEAN
      BY Zenon
    <3> QED
      BY <1>1, <1>2, <3>1, Zenon
  <2> HIDE DEF v
  <2>5. wants'[k] \in WantInfo /\ wants'[k].sentTo = v.sentTo /\ wants'[k].presence = v.presence
    BY <2>2, <2>3, <2>4, SMT
  <2>6. \E x \in WantInfo : After(wants'[k], x, k)
    BY <2>1, <2>5 DEF After
  <2> QED
    BY <1>2, <2>5, <2>6, EntriesAssumption, Zenon DEF v
<1>3. CASE v = NotWanted
  BY <1>1, <1>3, Zenon
<1> QED
  BY <1>2, <1>3, Zenon

-----------------------------------------------------------------------------
(* The changes channel and the steps around the sender.                    *)

\* The kinds of change a batch can hold.
Kinds == {"add", "cancel", "up", "down", "block", "have", "dontHave"}

\* The kinds of changes.
LEMMA KindFacts ==
    /\ "add" \in Kinds /\ "cancel" \in Kinds /\ "up" \in Kinds /\ "down" \in Kinds
    /\ "block" \in Kinds /\ "have" \in Kinds /\ "dontHave" \in Kinds
BY Zenon DEF Kinds

\* A queued change is the last one about its peer.
LEMMA QueueFacts ==
    ASSUME SenderTypeOK,
           NEW kind \in Kinds,
           NEW q \in Peer \cup {Nobody}, NEW k \in Want \cup {Nothing}, Queue(kind, q, k)
    PROVE  /\ changes' \in Seq(Change) /\ Len(changes) \in Nat
           /\ \A p, kinds :
                 /\ AboutPeer(p, kinds) \subseteq 1..Len(changes)
                 /\ p = q /\ kind \in kinds =>
                       AboutPeer(p, kinds)' = AboutPeer(p, kinds) \cup {Len(changes) + 1}
                 /\ p # q \/ kind \notin kinds => AboutPeer(p, kinds)' = AboutPeer(p, kinds)
<1>1. PICK c \in Change : c.kind = kind /\ c.peer = q /\ changes' = Append(changes, c)
  <2>1. \A b \in BOOLEAN :
          LET c == [kind |-> kind, peer |-> q, key |-> k, linked |-> b] IN
          c \in Change /\ c.kind = kind /\ c.peer = q
    BY Zenon DEF Change, Kinds
  <2>2. TRUE \in BOOLEAN
    BY Zenon
  <2> QED
    BY <2>1, <2>2, Zenon DEF Queue
<1>2. /\ changes \in Seq(Change) /\ Len(changes) \in Nat /\ DOMAIN changes = 1..Len(changes)
      /\ changes' \in Seq(Change) /\ DOMAIN changes' = 1..(Len(changes) + 1)
      /\ changes'[Len(changes) + 1] = c
      /\ \A i \in 1..Len(changes) : changes'[i] = changes[i]
  BY <1>1 DEF SenderTypeOK
<1>3. ASSUME NEW p, NEW kinds
      PROVE  /\ AboutPeer(p, kinds) \subseteq 1..Len(changes)
             /\ p = q /\ kind \in kinds =>
                   AboutPeer(p, kinds)' = AboutPeer(p, kinds) \cup {Len(changes) + 1}
             /\ p # q \/ kind \notin kinds => AboutPeer(p, kinds)' = AboutPeer(p, kinds)
  <2>1. DOMAIN changes' = DOMAIN changes \cup {Len(changes) + 1}
    BY <1>2
  <2>2. \A i \in DOMAIN changes : changes'[i] = changes[i]
    BY <1>2
  <2>3. changes'[Len(changes) + 1].peer = q /\ changes'[Len(changes) + 1].kind = kind
    BY <1>1, <1>2, Zenon
  <2> QED
    BY <1>2, <2>1, <2>2, <2>3, Zenon DEF AboutPeer
<1> QED
  BY <1>2, <1>3, Zenon

\* The network, the clients and the goroutines leave the sender's state alone;
\* they queue changes. An up is queued when the peer is there, or else excused,
\* and an excuse lasts until a down about the peer is queued.
Around ==
    /\ UNCHANGED Sleeping
    /\ \/ changes' = changes
       \/ \E kind \in Kinds, q \in Peer \cup {Nobody}, k \in Want \cup {Nothing} :
             Queue(kind, q, k) /\ (kind = "up" => q \in registered /\ Excused(q)')
    /\ \A p \in registered : Excused(p) => Excused(p)' \/ Queue("down", p, Nothing)
    /\ \A p \in Peer : held'[p]["up"] > 0 => held[p]["up"] > 0 \/ p \in registered

\* A step that leaves the signals and the connections alone.
LEMMA QuietAround ==
    ASSUME UNCHANGED Sleeping, UNCHANGED <<held, misled, connected>>,
           \/ changes' = changes
           \/ \E kind \in Kinds \ {"up"}, q \in Peer \cup {Nobody}, k \in Want \cup {Nothing} :
                 Queue(kind, q, k)
    PROVE  Around
<1>1. \A p : Excused(p) => Excused(p)'
  BY Zenon DEF Excused
<1>2. \A kind \in Kinds \ {"up"} : kind \in Kinds /\ kind # "up"
  BY Zenon
<1> QED
  BY <1>1, <1>2, Zenon DEF Around

\* A signal that goes into the channel.
LEMMA QueueSignalAround ==
    ASSUME NEW q \in Peer, NEW kind \in {"up", "down"}, QueueSignal(kind, q),
           UNCHANGED Sleeping,
           kind = "up" => /\ q \in registered /\ connected \subseteq connected'
                          /\ held'[q]["down"] = held[q]["down"]
                          /\ held'[q]["down"] \in Nat,
           kind = "down" => held'[q]["up"] = held[q]["up"],
           \A p \in Peer : p # q => /\ held'[p] = held[p]
                                    /\ p \in connected => p \in connected',
           registered \in SUBSET Peer
    PROVE  Around
<1>1. Queue(kind, q, Nothing)
  BY Zenon DEF QueueSignal
<1>2. CASE kind = "up"
  <2>1. kind # "down"
    BY <1>2
  <2>2. misled' = IF q \notin connected' /\ held'[q]["down"] = 0
                  THEN misled \cup {q} ELSE misled
    BY <2>1, Zenon DEF QueueSignal
  <2>3. misled \subseteq misled'
    BY <2>2, Zenon
  <2>4. Excused(q)'
    <3>1. held'[q]["down"] = 0 \/ held'[q]["down"] > 0
      BY <1>2
    <3> QED
      BY <2>2, <3>1, Zenon DEF Excused
  <2>5. \A p \in Peer : Excused(p) => Excused(p)'
    BY <1>2, <2>3, Zenon DEF Excused
  <2>6. kind \in Kinds /\ q \in Peer \cup {Nobody} /\ Nothing \in Want \cup {Nothing}
    BY <1>2, KindFacts, Zenon
  <2>7. \A p \in Peer : held'[p]["up"] > 0 => held[p]["up"] > 0 \/ p \in registered
    BY <1>2, Zenon
  <2> QED
    BY <1>1, <1>2, <2>4, <2>5, <2>6, <2>7, Zenon DEF Around
<1>3. CASE kind = "down"
  <2>1. misled' = misled \ {q}
    BY <1>3, Zenon DEF QueueSignal
  <2>2. \A p \in Peer : Excused(p) => Excused(p)' \/ p = q
    BY <2>1, Zenon DEF Excused
  <2>3. kind \in Kinds /\ q \in Peer \cup {Nobody} /\ Nothing \in Want \cup {Nothing}
    BY <1>3, KindFacts, Zenon
  <2>4. kind # "up"
    BY <1>3
  <2>5. \A p \in Peer : held'[p]["up"] > 0 => held[p]["up"] > 0
    BY <1>3, Zenon
  <2> QED
    BY <1>1, <1>3, <2>2, <2>3, <2>4, <2>5, Zenon DEF Around
<1> QED
  BY <1>2, <1>3, Zenon

\* A signal that finds its way at once, or is left to a goroutine.
LEMMA SignalAround ==
    ASSUME SenderTypeOK, NEW q \in Peer, NEW kind \in {"up", "down"}, Signal(kind, q),
           UNCHANGED Sleeping,
           kind = "up" => q \in registered /\ connected \subseteq connected',
           \A p \in Peer : p # q => (p \in connected => p \in connected')
    PROVE  Around
<1>1. registered \in SUBSET Peer /\ held \in [Peer -> [{"up", "down"} -> Nat]]
  BY Zenon DEF SenderTypeOK
<1>2. CASE UNCHANGED held /\ QueueSignal(kind, q)
  <2>1. held[q]["down"] \in Nat
    BY <1>1
  <2> QED
    BY <1>1, <1>2, <2>1, QueueSignalAround, Zenon
<1>3. CASE /\ held' = [held EXCEPT ![q][kind] = @ + 1]
           /\ UNCHANGED <<changes, misled>>
  <2>1. /\ \A p \in Peer : p # q => held'[p] = held[p]
        /\ held'[q][kind] > 0
        /\ \A other \in {"up", "down"} : other # kind => held'[q][other] = held[q][other]
    BY <1>1, <1>3
  <2>2. \A p \in registered : Excused(p) => Excused(p)'
    <3>1. CASE kind = "up"
      <4>1. held'[q]["down"] = held[q]["down"]
        BY <2>1, <3>1
      <4> QED
        BY <1>1, <1>3, <2>1, <3>1, <4>1, Zenon DEF Excused
    <3>2. CASE kind = "down"
      BY <1>1, <1>3, <2>1, <3>2, Zenon DEF Excused
    <3> QED
      BY <3>1, <3>2, Zenon
  <2>3. \A p \in Peer : held'[p]["up"] > 0 => held[p]["up"] > 0 \/ p \in registered
    <3>1. CASE kind = "up"
      BY <2>1, <3>1, Zenon
    <3>2. CASE kind = "down"
      <4>1. held'[q]["up"] = held[q]["up"]
        BY <2>1, <3>2
      <4> QED
        BY <2>1, <4>1, Zenon
    <3> QED
      BY <3>1, <3>2, Zenon
  <2> QED
    BY <1>3, <2>2, <2>3, Zenon DEF Around
<1> QED
  BY <1>2, <1>3, Zenon DEF Signal

\* Every step is one of the sender's, or of this kind.
LEMMA SenderSteps ==
    ASSUME SenderTypeOK, WordsOK, SenderNext
    PROVE  OnChange \/ CancelSessionWants \/ (\E k \in Want : SendNextWant(k)) \/ Around
<1>1. Nothing \in Want \cup {Nothing} /\ Nobody \in Peer \cup {Nobody}
      /\ \A k \in Want : k \in Want \cup {Nothing}
      /\ \A p \in Peer : p \in Peer \cup {Nobody}
  BY Zenon
<1>2. ASSUME NEW k \in Want, AddWant(k) \/ CancelWant(k) PROVE Around
  <2>1. "cancel" \in Kinds \ {"up"}
    BY DEF Kinds
  <2> QED
    BY <1>1, <1>2, <2>1, QuietAround, Zenon DEF AddWant, CancelWant, NoSignal
<1>3. ASSUME NEW p \in Peer, PeerConnected(p) PROVE Around
  <2>1. connected' = connected \cup {p} /\ UNCHANGED Sleeping
    BY <1>3, Zenon DEF PeerConnected
  <2>2. CASE p \in registered /\ Signal("up", p)
    <3>1. "up" \in {"up", "down"}
      BY Zenon
    <3> QED
      BY <2>1, <2>2, <3>1, SignalAround, Zenon
  <2>3. CASE NoSignal /\ UNCHANGED changes
    <3>1. \A q : Excused(q) => Excused(q)'
      BY <2>1, <2>3, Zenon DEF NoSignal, Excused
    <3> QED
      BY <2>1, <2>3, <3>1, Zenon DEF Around, NoSignal
  <2> QED
    BY <1>3, <2>2, <2>3, Zenon DEF PeerConnected
<1>4. ASSUME NEW p \in Peer, PeerDisconnected(p) PROVE Around
  <2>1. connected' = connected \ {p} /\ UNCHANGED Sleeping
    BY <1>4, Zenon DEF PeerDisconnected
  <2>2. CASE Signal("down", p)
    <3>1. "down" \in {"up", "down"} /\ "down" # "up"
      OBVIOUS
    <3> QED
      BY <2>1, <2>2, <3>1, SignalAround, Zenon
  <2>3. CASE p \notin registered /\ NoSignal /\ UNCHANGED changes
    <3>1. \A q \in registered : Excused(q) => Excused(q)'
      BY <2>1, <2>3, Zenon DEF NoSignal, Excused
    <3> QED
      BY <2>1, <2>3, <3>1, Zenon DEF Around, NoSignal
  <2> QED
    BY <1>4, <2>2, <2>3, Zenon DEF PeerDisconnected
<1>5. ASSUME NEW p \in Peer, Prune(p) PROVE Around
  <2>1. "down" \in {"up", "down"} /\ "down" # "up"
    OBVIOUS
  <2>2. Signal("down", p) /\ UNCHANGED <<connected, Sleeping>>
    BY <1>5, Zenon DEF Prune
  <2> QED
    BY <2>1, <2>2, SignalAround, Zenon
<1>6. ASSUME NEW p \in Peer, NEW k \in Want,
             \/ \E kind \in {"block", "have", "dontHave"} : ReceiveFrom(p, k, kind)
             \/ ReceiveForwardHave(p, k) \/ FoundProvider(p, k)
      PROVE  Around
  BY <1>6, QuietAround, Zenon
     DEF ReceiveFrom, ReceiveForwardHave, Receive, FoundProvider, NoSignal
<1>7. ASSUME NEW p \in Peer, NEW kind \in {"up", "down"}, DeliverSignal(kind, p) PROVE Around
  <2>1. /\ held' = [held EXCEPT ![p][kind] = @ - 1]
        /\ held[p][kind] > 0 /\ QueueSignal(kind, p) /\ UNCHANGED <<connected, Sleeping>>
    BY <1>7, Zenon DEF DeliverSignal
  <2>2. held \in [Peer -> [{"up", "down"} -> Nat]] /\ registered \in SUBSET Peer
    BY Zenon DEF SenderTypeOK
  <2>3. /\ \A q \in Peer : q # p => held'[q] = held[q]
        /\ \A other \in {"up", "down"} : other # kind => /\ held'[p][other] = held[p][other]
                                                        /\ held'[p][other] \in Nat
    BY <2>1, <2>2
  <2>4. kind = "up" => /\ held'[p]["down"] = held[p]["down"] /\ held'[p]["down"] \in Nat
    BY <2>3
  <2>5. kind = "down" => held'[p]["up"] = held[p]["up"]
    BY <2>3
  <2>6. kind = "up" => p \in registered
    BY <2>1, Zenon DEF WordsOK, WordOK
  <2> QED
    BY <2>1, <2>2, <2>3, <2>4, <2>5, <2>6, QueueSignalAround, Zenon
<1>8. ASSUME NEW u \in updates, Reach(u) \/ ReachFails(u) PROVE Around
  BY <1>8, QuietAround, Zenon DEF Reach, ReachFails, NoSignal
<1>9. ASSUME NEW u \in updates, Deliver(u) PROVE Around
  <2>1. /\ u.kind \in {"add", "block", "have", "dontHave"}
        /\ u.peer \in Peer \cup {Nobody} /\ u.key \in Want
    BY DEF SenderTypeOK, Message, Change
  <2>2. u.kind \in Kinds \ {"up"}
    BY <2>1 DEF Kinds
  <2> QED
    BY <1>1, <1>9, <2>1, <2>2, QuietAround, Zenon DEF Deliver, NoSignal
<1> QED
  BY <1>2, <1>3, <1>4, <1>5, <1>6, <1>7, <1>8, <1>9, Zenon DEF SenderNext

\* sendNextWants starts with the wants there are.
LEMMA StartSendingFacts ==
    ASSUME NEW ws, NEW peers, StartSending(ws, peers)
    PROVE  /\ unsent' \in SUBSET Want /\ stage' \in {"idle", "send"}
           /\ \A k \in Want : k \in unsent' <=> peers # {} /\ ws[k] # NotWanted
           /\ stage' = "idle" <=> unsent' = {}
BY DEF StartSending

\* The sender keeps its state in shape.
LEMMA SenderTypeStep ==
    ASSUME SenderTypeOK, UnsentOK, SenderNext
    PROVE  SenderTypeOK'
<1>1. ASSUME UNCHANGED Sleeping, changes' \in Seq(Change),
             held' \in [Peer -> [{"up", "down"} -> Nat]], misled' \in SUBSET Peer,
             presences' \in [Want -> [Peer -> {"none", "have", "dontHave"}]],
             interest' \in SUBSET Want, updates' \in SUBSET Message,
             pruning' \in SUBSET Peer, connected' \in SUBSET Peer, spent' \in Nat
      PROVE  SenderTypeOK'
  BY <1>1, Zenon DEF SenderTypeOK, Sleeping
<1>2. /\ \A kind \in Kinds :
           \A p \in Peer \cup {Nobody}, k \in Want \cup {Nothing} :
              Queue(kind, p, k) => changes' \in Seq(Change)
      /\ UNCHANGED changes => changes' \in Seq(Change)
      /\ Spend \/ UNCHANGED spent => spent' \in Nat
  <2>1. \A kind \in Kinds :
           \A p \in Peer \cup {Nobody}, k \in Want \cup {Nothing} :
              Queue(kind, p, k) => changes' \in Seq(Change)
    BY QueueFacts, Zenon
  <2>2. Spend \/ UNCHANGED spent => spent' \in Nat
    BY DEF SenderTypeOK, Spend
  <2> QED
    BY <2>1, <2>2, Zenon DEF SenderTypeOK
<1>3. /\ UNCHANGED presences => presences' \in [Want -> [Peer -> {"none", "have", "dontHave"}]]
      /\ UNCHANGED interest => interest' \in SUBSET Want
      /\ UNCHANGED updates => updates' \in SUBSET Message
      /\ UNCHANGED pruning => pruning' \in SUBSET Peer
      /\ UNCHANGED connected => connected' \in SUBSET Peer
      /\ UNCHANGED held => held' \in [Peer -> [{"up", "down"} -> Nat]]
      /\ UNCHANGED misled => misled' \in SUBSET Peer
  BY Zenon DEF SenderTypeOK
<1>4. Nothing \in Want \cup {Nothing} /\ Nobody \in Peer \cup {Nobody}
      /\ \A k \in Want : k \in Want \cup {Nothing}
      /\ \A p \in Peer : p \in Peer \cup {Nobody}
  BY Zenon
<1>15. \A p \in Peer, kind \in {"up", "down"} :
          QueueSignal(kind, p) => changes' \in Seq(Change) /\ misled' \in SUBSET Peer
  <2> SUFFICES ASSUME NEW p \in Peer, NEW kind \in {"up", "down"}, QueueSignal(kind, p)
               PROVE  changes' \in Seq(Change) /\ misled' \in SUBSET Peer
    BY Zenon
  <2>1. kind \in Kinds /\ Queue(kind, p, Nothing)
    BY KindFacts, Zenon DEF QueueSignal
  <2>2. misled' \in SUBSET Peer
    BY Zenon DEF QueueSignal, SenderTypeOK
  <2> QED
    BY <1>2, <1>4, <2>1, <2>2, Zenon
<1>16. \A p \in Peer, kind \in {"up", "down"} :
          Signal(kind, p) => /\ changes' \in Seq(Change) /\ misled' \in SUBSET Peer
                             /\ held' \in [Peer -> [{"up", "down"} -> Nat]]
  <2> SUFFICES ASSUME NEW p \in Peer, NEW kind \in {"up", "down"}, Signal(kind, p)
               PROVE  /\ changes' \in Seq(Change) /\ misled' \in SUBSET Peer
                      /\ held' \in [Peer -> [{"up", "down"} -> Nat]]
    BY Zenon
  <2>1. CASE UNCHANGED held /\ QueueSignal(kind, p)
    BY <1>3, <1>15, <2>1, Zenon
  <2>2. CASE held' = [held EXCEPT ![p][kind] = @ + 1] /\ UNCHANGED <<changes, misled>>
    BY <2>2 DEF SenderTypeOK
  <2> QED
    BY <2>1, <2>2, Zenon DEF Signal
<1>5. ASSUME NEW k \in Want, AddWant(k) PROVE SenderTypeOK'
  <2>1. interest' \in SUBSET Want
    BY <1>5, Zenon DEF AddWant, SenderTypeOK
  <2>2. updates' \in SUBSET Message
    <3>1. \A b \in BOOLEAN : [kind |-> "add", peer |-> Nobody, key |-> k, linked |-> b] \in Message
      BY DEF Message, Change
    <3>2. TRUE \in BOOLEAN
      BY Zenon
    <3>3. [kind |-> "add", peer |-> Nobody, key |-> k, linked |-> TRUE] \in Message
      BY <3>1, <3>2, Zenon
    <3> QED
      BY <1>5, <3>3, Zenon DEF AddWant, SenderTypeOK
  <2>3. Spend /\ UNCHANGED <<presences, changes, pruning, connected, held, misled, Sleeping>>
    BY <1>5, Zenon DEF AddWant, NoSignal
  <2> QED
    BY <1>1, <1>2, <1>3, <2>1, <2>2, <2>3, Zenon
<1>17. ASSUME NEW k \in Want, CancelWant(k) PROVE SenderTypeOK'
  <2>1. /\ Spend /\ Queue("cancel", Nobody, k)
        /\ UNCHANGED <<presences, interest, updates, pruning, connected, held, misled, Sleeping>>
    BY <1>17, Zenon DEF CancelWant, NoSignal
  <2> QED
    BY <1>1, <1>2, <1>3, <1>4, <2>1, KindFacts, Zenon
<1>6. ASSUME NEW p \in Peer, PeerConnected(p) \/ PeerDisconnected(p) PROVE SenderTypeOK'
  <2>1. connected' \in SUBSET Peer
    BY <1>6, Zenon DEF PeerConnected, PeerDisconnected, SenderTypeOK
  <2>2. Spend /\ UNCHANGED <<presences, interest, updates, pruning, Sleeping>>
    BY <1>6, Zenon DEF PeerConnected, PeerDisconnected
  <2>3. Signal("up", p) \/ Signal("down", p) \/ UNCHANGED <<changes, held, misled>>
    BY <1>6, Zenon DEF PeerConnected, PeerDisconnected, NoSignal
  <2>4. /\ changes' \in Seq(Change) /\ misled' \in SUBSET Peer
        /\ held' \in [Peer -> [{"up", "down"} -> Nat]]
    BY <1>2, <1>3, <1>16, <2>3, Zenon
  <2> QED
    BY <1>1, <1>2, <1>3, <2>1, <2>2, <2>4, Zenon
<1>7. ASSUME NEW p \in Peer, Prune(p) PROVE SenderTypeOK'
  <2>1. pruning' \in SUBSET Peer
    BY <1>7, Zenon DEF Prune, SenderTypeOK
  <2>2. Signal("down", p) /\ UNCHANGED <<presences, interest, updates, connected, spent, Sleeping>>
    BY <1>7, Zenon DEF Prune
  <2>3. /\ changes' \in Seq(Change) /\ misled' \in SUBSET Peer
        /\ held' \in [Peer -> [{"up", "down"} -> Nat]]
    BY <1>16, <2>2, Zenon
  <2> QED
    BY <1>1, <1>2, <1>3, <2>1, <2>2, <2>3, Zenon
<1>18. ASSUME NEW p \in Peer, NEW kind \in {"up", "down"}, DeliverSignal(kind, p)
       PROVE  SenderTypeOK'
  <2>1. held' \in [Peer -> [{"up", "down"} -> Nat]]
    BY <1>18 DEF DeliverSignal, SenderTypeOK
  <2>2. /\ QueueSignal(kind, p)
        /\ UNCHANGED <<presences, interest, updates, pruning, connected, spent, Sleeping>>
    BY <1>18, Zenon DEF DeliverSignal
  <2>3. changes' \in Seq(Change) /\ misled' \in SUBSET Peer
    BY <1>15, <2>2, Zenon
  <2> QED
    BY <1>1, <1>2, <1>3, <2>1, <2>2, <2>3, Zenon
<1>8. ASSUME NEW p \in Peer, NEW k \in Want, NEW kind \in {"block", "have", "dontHave"},
             Receive(p, k, kind)
      PROVE  SenderTypeOK'
  <2>1. presences' \in [Want -> [Peer -> {"none", "have", "dontHave"}]]
    <3>1. UNCHANGED presences \/ (Learn(p, k, kind) /\ kind # "block")
      BY <1>8, Zenon DEF Receive
    <3>2. \/ UNCHANGED presences
          \/ /\ presences' = [presences EXCEPT ![k] = [presences[k] EXCEPT ![p] = kind]]
             /\ kind # "block"
      BY <3>1, Zenon DEF Learn
    <3> DEFINE S == {"none", "have", "dontHave"}
    <3>3. presences \in [Want -> [Peer -> S]]
      BY Zenon DEF SenderTypeOK
    <3>4. kind # "block" => kind \in S
      OBVIOUS
    <3> HIDE DEF S
    <3>5. kind # "block" => [presences[k] EXCEPT ![p] = kind] \in [Peer -> S]
      BY <3>3, <3>4
    <3>6. presences' \in [Want -> [Peer -> S]]
      BY <3>2, <3>3, <3>5, Zenon
    <3> QED
      BY <3>6, Zenon DEF S
  <2>2. updates' \in SUBSET Message
    <3>1. \A b \in BOOLEAN : [kind |-> kind, peer |-> p, key |-> k, linked |-> b] \in Message
      BY DEF Message, Change
    <3>2. FALSE \in BOOLEAN
      BY Zenon
    <3>3. [kind |-> kind, peer |-> p, key |-> k, linked |-> FALSE] \in Message
      BY <3>1, <3>2, Zenon
    <3> QED
      BY <1>8, <3>3, Zenon DEF Receive, SenderTypeOK
  <2>3. Spend /\ UNCHANGED <<interest, changes, pruning, connected, held, misled, Sleeping>>
    BY <1>8, Zenon DEF Receive, NoSignal
  <2> QED
    BY <1>1, <1>2, <1>3, <2>1, <2>2, <2>3, Zenon
<1>9. ASSUME NEW p \in Peer, NEW k \in Want, FoundProvider(p, k) PROVE SenderTypeOK'
  <2>1. updates' \in SUBSET Message
    <3>1. \A b \in BOOLEAN : [kind |-> "have", peer |-> p, key |-> k, linked |-> b] \in Message
      BY DEF Message, Change
    <3>2. TRUE \in BOOLEAN
      BY Zenon
    <3>3. [kind |-> "have", peer |-> p, key |-> k, linked |-> TRUE] \in Message
      BY <3>1, <3>2, Zenon
    <3> QED
      BY <1>9, <3>3, Zenon DEF FoundProvider, SenderTypeOK
  <2>2. /\ Spend
        /\ UNCHANGED <<presences, interest, changes, pruning, connected, held, misled, Sleeping>>
    BY <1>9, Zenon DEF FoundProvider, NoSignal
  <2> QED
    BY <1>1, <1>2, <1>3, <2>1, <2>2, Zenon
<1>10. ASSUME NEW u \in updates, Reach(u) \/ ReachFails(u) PROVE SenderTypeOK'
  <2>1. updates' \in SUBSET Message
    <3>1. u \in Message
      BY Zenon DEF SenderTypeOK
    <3>2. \A b \in BOOLEAN, m \in Message : [m EXCEPT !.linked = b] \in Message
      BY DEF Message, Change
    <3>3. TRUE \in BOOLEAN
      BY Zenon
    <3>4. [u EXCEPT !.linked = TRUE] \in Message
      BY <3>1, <3>2, <3>3, Zenon
    <3> QED
      BY <1>10, <3>4, Zenon DEF Reach, ReachFails, SenderTypeOK
  <2>2. UNCHANGED <<presences, interest, changes, pruning, connected, held, misled, spent, Sleeping>>
    BY <1>10, Zenon DEF Reach, ReachFails, NoSignal
  <2> QED
    BY <1>1, <1>2, <1>3, <2>1, <2>2, Zenon
<1>11. ASSUME NEW u \in updates, Deliver(u) PROVE SenderTypeOK'
  <2>1. /\ u.kind \in {"add", "block", "have", "dontHave"}
        /\ u.peer \in Peer \cup {Nobody} /\ u.key \in Want
    BY DEF SenderTypeOK, Message, Change
  <2>2. u.kind \in Kinds
    BY <2>1, KindFacts, Zenon
  <2>3. updates' \in SUBSET Message
    BY <1>11, Zenon DEF Deliver, SenderTypeOK
  <2>4. /\ Queue(u.kind, u.peer, u.key)
        /\ UNCHANGED <<presences, interest, pruning, connected, held, misled, spent, Sleeping>>
    BY <1>11, Zenon DEF Deliver, NoSignal
  <2> QED
    BY <1>1, <1>2, <1>3, <1>4, <2>1, <2>2, <2>3, <2>4, Zenon
<1>12. ASSUME OnChange PROVE SenderTypeOK'
  <2>1. wants' \in [Want -> WantInfo \cup {NotWanted}]
    <3>1. \A k \in Want : wants'[k] \in WantInfo \cup {NotWanted}
      BY <1>12, OnChangeWant, Zenon DEF After
    <3>2. wants' = [k \in Want |-> wants'[k]]
      BY <1>12, Zenon DEF OnChange
    <3> QED
      BY <3>1, <3>2
  <2>2. members' \in SUBSET Peer /\ registered' \in SUBSET Peer /\ pruning' \in SUBSET Peer
        /\ late' \in SUBSET Peer /\ cancels' \in SUBSET Want
    <3>1. members' = (members \cup NewlyAvailable) \ NewlyUnavailable
      BY <1>12, Zenon DEF OnChange
    <3>2. members' \in SUBSET Peer
      BY <3>1, Zenon DEF SenderTypeOK, NewlyAvailable
    <3>3. registered' \in SUBSET Peer
      BY <1>12, Zenon DEF OnChange, SenderTypeOK
    <3>4. pruning' \in SUBSET Peer
      BY <1>12, Zenon DEF OnChange, SenderTypeOK, Pruned
    <3>5. late' \in SUBSET Peer
      BY <1>12, Zenon DEF OnChange, SenderTypeOK
    <3>6. cancels' \in SUBSET Want
      BY <1>12, Zenon DEF OnChange
    <3> QED
      BY <3>2, <3>3, <3>4, <3>5, <3>6, Zenon
  <2>3. unsent' \in SUBSET Want /\ stage' \in {"idle", "cancel", "send"}
    <3>1. \/ \E ws, peers : StartSending(ws, peers)
          \/ stage' = "cancel" /\ UNCHANGED unsent
      BY <1>12, Zenon DEF OnChange
    <3> QED
      BY <3>1, StartSendingFacts, Zenon DEF SenderTypeOK
  <2>4. \A p \in Peer : ~(streak'[p] > DontHaveLimit)
    <3>1. \A p \in Peer : streak'[p] = IF Streak(p) > DontHaveLimit THEN DontHaveLimit ELSE Streak(p)
      BY <1>12, Zenon DEF OnChange
    <3> QED
      BY <3>1, WantSenderAssumption
  <2>5. changes' \in Seq(Change)
    BY <1>12 DEF OnChange, CollectChanges
  <2>6. UNCHANGED <<receiver, swbt, presences, interest, updates, held, connected, misled, spent>>
    BY <1>12, Zenon DEF OnChange
  <2> QED
    BY <2>1, <2>2, <2>3, <2>4, <2>5, <2>6, Zenon DEF SenderTypeOK
<1>13. ASSUME CancelSessionWants PROVE SenderTypeOK'
  <2>1. unsent' \in SUBSET Want /\ stage' \in {"idle", "cancel", "send"}
    BY <1>13, StartSendingFacts, Zenon DEF CancelSessionWants
  <2>2. presences' \in [Want -> [Peer -> {"none", "have", "dontHave"}]]
    BY <1>13, Zenon DEF CancelSessionWants, SenderTypeOK
  <2>3. interest' \in SUBSET Want /\ cancels' \in SUBSET Want
    BY <1>13, Zenon DEF CancelSessionWants, SenderTypeOK
  <2>4. UNCHANGED <<wants, members, receiver, streak, swbt, changes, updates, held,
                    pruning, connected, registered, late, misled, spent>>
    BY <1>13, Zenon DEF CancelSessionWants
  <2> QED
    BY <2>1, <2>2, <2>3, <2>4, Zenon DEF SenderTypeOK
<1>14. ASSUME NEW k \in Want, SendNextWant(k) PROVE SenderTypeOK'
  <2>1. unsent' \in SUBSET Want /\ stage' \in {"idle", "cancel", "send"}
    BY <1>14, Zenon DEF SendNextWant, SenderTypeOK
  <2>2. UNCHANGED <<members, streak, presences, interest, changes, updates, held,
                    pruning, connected, registered, cancels, late, misled, spent>>
    BY <1>14, Zenon DEF SendNextWant
  <2>3. CASE UNCHANGED <<wants, receiver, swbt>>
    BY <2>1, <2>2, <2>3, Zenon DEF SenderTypeOK
  <2>4. CASE ~UNCHANGED <<wants, receiver, swbt>>
    <3>1. PICK p \in IF MustReplace(wants[k]) THEN BestPeers(wants[k]) ELSE {receiver} :
            /\ wants[k].sentTo = Nobody /\ receiver' = p
            /\ wants' = [wants EXCEPT ![k] = [wants[k] EXCEPT !.sentTo = p]]
            /\ swbt' = swbt \cup {<<p, k>>}
      BY <1>14, <2>4, Zenon DEF SendNextWant
    <3>2. p \in Peer
      BY <3>1, Zenon DEF MustReplace, BestPeers
    <3>3. wants[k] \in WantInfo => [wants[k] EXCEPT !.sentTo = p] \in WantInfo
      BY <3>2, Zenon DEF WantInfo
    <3>4. wants[k] # NotWanted
      BY <1>14, Zenon DEF SendNextWant, UnsentOK
    <3> QED
      BY <2>1, <2>2, <3>1, <3>2, <3>3, <3>4 DEF SenderTypeOK
  <2> QED
    BY <2>3, <2>4, Zenon
<1> QED
  BY <1>5, <1>6, <1>7, <1>8, <1>9, <1>10, <1>11, <1>12, <1>13, <1>14, <1>17, <1>18,
     Zenon DEF SenderNext, ReceiveFrom, ReceiveForwardHave

\* sendNextWants goes through the wants that onChange left.
LEMMA UnsentStep ==
    ASSUME SenderTypeOK, UnsentOK, WordsOK, SenderNext
    PROVE  UnsentOK'
<1>1. CASE Around
  BY <1>1, Zenon DEF Around, Sleeping, UnsentOK
<1>2. CASE OnChange
  <2>1. CASE StartSending(Updated(NewlyAvailable, NewlyUnavailable),
                          (members \cup NewlyAvailable) \ NewlyUnavailable)
    BY <1>2, <2>1, StartSendingFacts, OnChangeWant DEF UnsentOK
  <2>2. CASE UNCHANGED unsent
    <3>1. unsent = {}
      BY <1>2, Zenon DEF OnChange, CollectChanges, UnsentOK
    <3> QED
      BY <2>2, <3>1, Zenon DEF UnsentOK
  <2> QED
    BY <1>2, <2>1, <2>2, Zenon DEF OnChange
<1>3. CASE CancelSessionWants
  <2>1. StartSending(wants, members) /\ wants' = wants
    BY <1>3, Zenon DEF CancelSessionWants
  <2> QED
    BY <2>1, StartSendingFacts DEF UnsentOK
<1>4. ASSUME NEW k \in Want, SendNextWant(k) PROVE UnsentOK'
  <2>1. /\ unsent' = unsent \ {k} /\ stage' = IF unsent' = {} THEN "idle" ELSE "send"
        /\ \/ wants' = wants
           \/ \E x : wants' = [wants EXCEPT ![k] = x]
    BY <1>4, Zenon DEF SendNextWant
  <2>2. \A j \in unsent' : wants'[j] = wants[j]
    BY <2>1, Zenon DEF SenderTypeOK
  <2> QED
    BY <2>1, <2>2, Zenon DEF UnsentOK
<1> QED
  BY <1>1, <1>2, <1>3, <1>4, SenderSteps, Zenon

-----------------------------------------------------------------------------
(* The peers of the session.                                               *)

\* The words of the batch stay in line with the connections.
LEMMA WordsStep ==
    ASSUME SenderTypeOK, WordsOK, SenderNext
    PROVE  WordsOK'
<1> SUFFICES ASSUME NEW p \in Peer PROVE WordOK(p)'
  BY Zenon DEF WordsOK
<1>1. WordOK(p)
  BY Zenon DEF WordsOK
<1>2. CASE OnChange
  <2>1. changes' = <<>> /\ UNCHANGED held /\ registered \subseteq registered'
    BY <1>2, Zenon DEF OnChange, CollectChanges
  <2>2. \A kinds : AboutPeer(p, kinds)' = {}
    BY <2>1 DEF AboutPeer
  <2> QED
    BY <1>1, <2>1, <2>2, Zenon DEF WordOK
<1>3. CASE CancelSessionWants \/ \E k \in Want : SendNextWant(k)
  <2>1. UNCHANGED <<changes, registered, connected, held, misled>>
    BY <1>3, Zenon DEF CancelSessionWants, SendNextWant
  <2>2. /\ AboutPeer(p, Words)' = AboutPeer(p, Words)
        /\ AboutPeer(p, {"up"})' = AboutPeer(p, {"up"})
        /\ AboutPeer(p, {"down"})' = AboutPeer(p, {"down"})
        /\ Excused(p)' <=> Excused(p)
    BY <2>1, Zenon DEF AboutPeer, Excused
  <2> QED
    BY <1>1, <2>1, <2>2, Zenon DEF WordOK
<1>4. CASE Around
  <2>1. registered' = registered
    BY <1>4, Zenon DEF Around, Sleeping
  <2>2. held'[p]["up"] > 0 => p \in registered'
    BY <1>1, <1>4, <2>1, Zenon DEF Around, WordOK
  <2>3. p \in registered /\ Excused(p) => Excused(p)' \/ Queue("down", p, Nothing)
    BY <1>4, Zenon DEF Around
  <2>4. CASE changes' = changes
    <3>1. /\ AboutPeer(p, Words)' = AboutPeer(p, Words)
          /\ AboutPeer(p, {"up"})' = AboutPeer(p, {"up"})
          /\ AboutPeer(p, {"down"})' = AboutPeer(p, {"down"})
      BY <2>4, Zenon DEF AboutPeer
    <3>2. ~Queue("down", p, Nothing)
      BY <2>4 DEF Queue, SenderTypeOK
    <3> QED
      BY <1>1, <2>1, <2>2, <2>3, <3>1, <3>2, Zenon DEF WordOK
  <2>5. ASSUME NEW kind \in Kinds,
               NEW q \in Peer \cup {Nobody}, NEW k \in Want \cup {Nothing}, Queue(kind, q, k),
               kind = "up" => q \in registered /\ Excused(q)'
        PROVE  WordOK(p)'
    <3>1. /\ Len(changes) \in Nat
          /\ AboutPeer(p, Words) \subseteq 1..Len(changes)
          /\ AboutPeer(p, {"up"}) \subseteq 1..Len(changes)
          /\ AboutPeer(p, {"down"}) \subseteq 1..Len(changes)
      BY <2>5, QueueFacts, Zenon
    <3>0. Queue(kind, q, k)
      BY <2>5
    <3>9. \A kinds :
            /\ p = q /\ kind \in kinds =>
                  AboutPeer(p, kinds)' = AboutPeer(p, kinds) \cup {Len(changes) + 1}
            /\ p # q \/ kind \notin kinds => AboutPeer(p, kinds)' = AboutPeer(p, kinds)
      BY <3>0, QueueFacts
    <3> DEFINE n == Len(changes) + 1
    <3>2. \A kinds :
            /\ p = q /\ kind \in kinds => AboutPeer(p, kinds)' = AboutPeer(p, kinds) \cup {n}
            /\ p # q \/ kind \notin kinds => AboutPeer(p, kinds)' = AboutPeer(p, kinds)
      BY <3>9, Zenon
    <3>3. /\ n \in Nat /\ \A i \in 1..Len(changes) : i \in Nat /\ i < n /\ i <= n
          /\ n <= n
      BY <3>1
    <3>10. Queue("down", p, Nothing) => n \in AboutPeer(p, {"down"})'
      <4> SUFFICES ASSUME Queue("down", p, Nothing) PROVE n \in AboutPeer(p, {"down"})'
        BY Zenon
      <4>1. /\ "down" \in Kinds /\ p \in Peer \cup {Nobody} /\ Nothing \in Want \cup {Nothing}
            /\ "down" \in {"down"}
        BY KindFacts, Zenon
      <4>2. \A kinds : p = p /\ "down" \in kinds =>
                          AboutPeer(p, kinds)' = AboutPeer(p, kinds) \cup {Len(changes) + 1}
        BY <4>1, QueueFacts
      <4> QED
        BY <4>1, <4>2, Zenon
    <3> HIDE DEF n
    <3>4. AboutPeer(p, Words)' # {} =>
            \E i \in AboutPeer(p, Words)' : \A j \in AboutPeer(p, Words)' : j <= i
      <4>1. CASE p = q /\ kind \in Words
        <5>1. AboutPeer(p, Words)' = AboutPeer(p, Words) \cup {n}
          BY <3>2, <4>1, Zenon
        <5> QED
          BY <3>1, <3>3, <5>1, Zenon
      <4>2. CASE ~(p = q /\ kind \in Words)
        <5>1. AboutPeer(p, Words)' = AboutPeer(p, Words)
          BY <3>2, <4>2, Zenon
        <5> QED
          BY <1>1, <5>1, Zenon DEF WordOK
      <4> QED
        BY <4>1, <4>2, Zenon
    <3>5. ASSUME NEW i \in AboutPeer(p, {"up"})'
          PROVE  p \in registered' /\ (Excused(p)' \/ \E j \in AboutPeer(p, {"down"})' : i < j)
      <4>1. CASE i \in AboutPeer(p, {"up"})
        <5>1. p \in registered /\ (Excused(p) \/ \E j \in AboutPeer(p, {"down"}) : i < j)
          BY <1>1, <4>1, Zenon DEF WordOK
        <5>2. AboutPeer(p, {"down"}) \subseteq AboutPeer(p, {"down"})'
          BY <3>2, Zenon
        <5>3. i < n
          BY <3>1, <3>3, <4>1, Zenon
        <5> QED
          BY <2>1, <2>3, <3>10, <5>1, <5>2, <5>3, Zenon
      <4>2. CASE i \notin AboutPeer(p, {"up"})
        <5>1. p = q /\ kind = "up"
          BY <3>2, <4>2, Zenon
        <5> QED
          BY <2>1, <2>5, <5>1, Zenon
      <4> QED
        BY <4>1, <4>2, Zenon
    <3> QED
      BY <2>2, <3>4, <3>5, Zenon DEF WordOK
  <2> QED
    BY <1>4, <2>4, <2>5, Zenon DEF Around
<1> QED
  BY <1>2, <1>3, <1>4, SenderSteps, Zenon

\* A peer that has left the network is known to be gone, or a down about it is
\* queued.
LEMMA MembersStep ==
    ASSUME SenderTypeOK, WordsOK, MembersOK, SenderNext
    PROVE  MembersOK'
<1> SUFFICES ASSUME NEW p \in members'
             PROVE  /\ p \in registered'
                    /\ Excused(p)' \/ p \in late' \/ AboutPeer(p, {"down"})' # {}
  BY Zenon DEF MembersOK
<1>1. CASE OnChange
  <2>1. /\ members' = (members \cup NewlyAvailable) \ NewlyUnavailable
        /\ connected' = connected
        /\ registered' = registered \cup {q \in Peer : AboutPeer(q, {"block", "have"}) # {}}
    BY <1>1, Zenon DEF OnChange
  <2>0. Excused(p)' <=> Excused(p)
    BY <1>1, Zenon DEF OnChange, Excused
  <2>2. p \in Peer /\ p \in members \cup NewlyAvailable /\ p \notin NewlyUnavailable
    BY <2>1, Zenon DEF SenderTypeOK, NewlyAvailable
  <2>3. late \subseteq late' /\ (AboutPeer(p, {"block", "have"}) # {} => p \in connected \cup late')
    <3>1. late' = late \cup
                    {q \in Peer : /\ AboutPeer(q, {"block", "have", "dontHave"}) # {}
                                  /\ q \notin ((members \cup NewlyAvailable) \ NewlyUnavailable) \cap connected}
      BY <1>1, Zenon DEF OnChange
    <3>2. AboutPeer(p, {"block", "have"}) \subseteq AboutPeer(p, {"block", "have", "dontHave"})
      BY Zenon DEF AboutPeer
    <3> QED
      BY <2>2, <3>1, <3>2, Zenon
  <2>4. WordOK(p)
    BY <2>2, Zenon DEF WordsOK
  <2>5. CASE AboutPeer(p, {"block", "have"}) # {}
    BY <2>0, <2>1, <2>2, <2>3, <2>5, Zenon DEF Excused
  <2>6. CASE AboutPeer(p, {"block", "have"}) = {} /\ AboutPeer(p, Words) # {}
    <3>1. PICK i \in AboutPeer(p, Words) : \A j \in AboutPeer(p, Words) : j <= i
      BY <2>4, <2>6, Zenon DEF WordOK
    <3>2. AboutPeer(p, Words) =
            AboutPeer(p, {"up"}) \cup AboutPeer(p, {"block", "have"}) \cup AboutPeer(p, {"down"})
      BY Zenon DEF AboutPeer, Words
    <3>3. i \notin AboutPeer(p, {"down"}) \/ p \notin members
      BY <2>2, <3>1, Zenon DEF NewlyUnavailable, SaidAvailable, Words
    <3>4. i \in AboutPeer(p, {"up", "block", "have"}) \/ p \in members
      <4>1. SUFFICES ASSUME p \in NewlyAvailable PROVE i \in AboutPeer(p, {"up", "block", "have"})
        BY <2>2, Zenon
      <4>2. PICK m \in AboutPeer(p, {"up", "block", "have"}) : \A j \in AboutPeer(p, Words) : j <= m
        BY <4>1, Zenon DEF NewlyAvailable, SaidAvailable, Words
      <4>3. i \in Nat /\ m \in Nat /\ m \in AboutPeer(p, Words)
        BY <3>1, <4>2 DEF AboutPeer, Words, SenderTypeOK
      <4>4. i = m
        BY <3>1, <4>2, <4>3
      <4> QED
        BY <4>2, <4>4, Zenon
    <3>5. i \in AboutPeer(p, {"up"})
      <4>1. AboutPeer(p, {"up", "block", "have"}) = AboutPeer(p, {"up"}) \cup AboutPeer(p, {"block", "have"})
        BY Zenon DEF AboutPeer
      <4> QED
        BY <2>6, <3>1, <3>2, <3>3, <3>4, <4>1, Zenon
    <3>6. p \in registered /\ (Excused(p) \/ \E j \in AboutPeer(p, {"down"}) : i < j)
      BY <2>4, <3>5, Zenon DEF WordOK
    <3>7. \A j \in AboutPeer(p, {"down"}) : ~(i < j)
      <4>1. \A j \in AboutPeer(p, {"down"}) : j \in AboutPeer(p, Words)
        BY <3>2, Zenon
      <4>2. \A j \in AboutPeer(p, Words) : j \in Nat
        BY DEF AboutPeer, SenderTypeOK
      <4>3. \A x, y \in Nat : y <= x => ~(x < y)
        OBVIOUS
      <4> QED
        BY <3>1, <4>1, <4>2, <4>3, Zenon
    <3> QED
      BY <2>0, <2>1, <3>6, <3>7, Zenon
  <2>7. CASE AboutPeer(p, Words) = {}
    <3>1. p \notin NewlyAvailable /\ AboutPeer(p, {"down"}) = {}
      BY <2>7, Zenon DEF NewlyAvailable, SaidAvailable, AboutPeer, Words
    <3>2. p \in members
      BY <2>2, <3>1, Zenon
    <3> QED
      BY <2>0, <2>1, <2>3, <3>1, <3>2, Zenon DEF MembersOK
  <2> QED
    BY <2>5, <2>6, <2>7, Zenon
<1>2. CASE CancelSessionWants \/ \E k \in Want : SendNextWant(k)
  <2>1. UNCHANGED <<members, changes, registered, late, connected, held, misled>>
    BY <1>2, Zenon DEF CancelSessionWants, SendNextWant
  <2>2. AboutPeer(p, {"down"})' = AboutPeer(p, {"down"}) /\ (Excused(p)' <=> Excused(p))
    BY <2>1, Zenon DEF AboutPeer, Excused
  <2> QED
    BY <2>1, <2>2, Zenon DEF MembersOK
<1>3. CASE Around
  <2>1. UNCHANGED <<members, registered, late>>
    BY <1>3, Zenon DEF Around, Sleeping
  <2>2. /\ p \in members /\ p \in registered
        /\ Excused(p) \/ p \in late \/ AboutPeer(p, {"down"}) # {}
    BY <2>1, Zenon DEF MembersOK
  <2>3. ASSUME NEW kind \in Kinds,
               NEW q \in Peer \cup {Nobody}, NEW k \in Want \cup {Nothing}, Queue(kind, q, k)
        PROVE  /\ AboutPeer(p, {"down"}) \subseteq AboutPeer(p, {"down"})'
               /\ q = p /\ kind = "down" => AboutPeer(p, {"down"})' # {}
    <3>1. \A kinds :
            /\ p = q /\ kind \in kinds =>
                  AboutPeer(p, kinds)' = AboutPeer(p, kinds) \cup {Len(changes) + 1}
            /\ p # q \/ kind \notin kinds => AboutPeer(p, kinds)' = AboutPeer(p, kinds)
      BY <2>3, QueueFacts
    <3> QED
      BY <3>1, Zenon
  <2>4. AboutPeer(p, {"down"}) \subseteq AboutPeer(p, {"down"})'
    <3>1. CASE changes' = changes
      BY <3>1, Zenon DEF AboutPeer
    <3> QED
      BY <1>3, <2>3, <3>1, Zenon DEF Around
  <2>5. Excused(p) => Excused(p)' \/ AboutPeer(p, {"down"})' # {}
    <3>1. p \in Peer \cup {Nobody} /\ Nothing \in Want \cup {Nothing}
      BY <2>2, Zenon DEF SenderTypeOK
    <3>2. Excused(p) => Excused(p)' \/ Queue("down", p, Nothing)
      BY <1>3, <2>2, Zenon DEF Around
    <3> QED
      BY <2>3, <3>1, <3>2, KindFacts, Zenon
  <2> QED
    BY <2>1, <2>2, <2>4, <2>5, Zenon
<1> QED
  BY <1>1, <1>2, <1>3, SenderSteps, Zenon

\* A want-block goes to a peer that the want knows of and that may have the block.
LEMMA SendFacts ==
    ASSUME SenderTypeOK, UnsentOK, NEW k \in Want, SendNextWant(k)
    PROVE  /\ wants[k] \in WantInfo /\ wants[k] # NotWanted
           /\ UNCHANGED <<members, late>>
           /\ \/ /\ wants' = wants
                 /\ wants[k].sentTo = Nobody => BestPeers(wants[k]) = {}
              \/ \E p \in Peer :
                    /\ wants[k].sentTo = Nobody /\ wants[k].presence[p] # "none"
                    /\ wants'[k] \in WantInfo /\ wants'[k].sentTo = p
                    /\ wants'[k].presence = wants[k].presence
           /\ \A j \in Want : j # k => wants'[j] = wants[j]
<1>1. wants[k] \in WantInfo /\ wants[k] # NotWanted /\ DOMAIN wants = Want
  <2>1. wants[k] # NotWanted
    BY Zenon DEF SendNextWant, UnsentOK
  <2> QED
    BY <2>1, Zenon DEF SenderTypeOK
<1>2. UNCHANGED <<members, late>>
  BY Zenon DEF SendNextWant
<1>3. \/ /\ wants' = wants
         /\ wants[k].sentTo = Nobody => BestPeers(wants[k]) = {}
      \/ \E p \in IF MustReplace(wants[k]) THEN BestPeers(wants[k]) ELSE {receiver} :
            /\ wants[k].sentTo = Nobody
            /\ wants' = [wants EXCEPT ![k] = [wants[k] EXCEPT !.sentTo = p]]
  BY Zenon DEF SendNextWant
<1>4. ASSUME NEW p \in IF MustReplace(wants[k]) THEN BestPeers(wants[k]) ELSE {receiver}
      PROVE  p \in Peer /\ wants[k].presence[p] # "none"
  BY <1>4, Zenon DEF MustReplace, BestPeers
<1>5. ASSUME NEW p \in Peer
      PROVE  /\ [wants[k] EXCEPT !.sentTo = p] \in WantInfo
             /\ [wants[k] EXCEPT !.sentTo = p].sentTo = p
             /\ [wants[k] EXCEPT !.sentTo = p].presence = wants[k].presence
  BY <1>1 DEF WantInfo
<1>6. CASE wants' = wants /\ (wants[k].sentTo = Nobody => BestPeers(wants[k]) = {})
  BY <1>1, <1>2, <1>6, Zenon
<1>7. ASSUME NEW p \in Peer, wants[k].sentTo = Nobody, wants[k].presence[p] # "none",
             wants' = [wants EXCEPT ![k] = [wants[k] EXCEPT !.sentTo = p]]
      PROVE  /\ wants'[k] \in WantInfo /\ wants'[k].sentTo = p
             /\ wants'[k].presence = wants[k].presence
             /\ \A j \in Want : j # k => wants'[j] = wants[j]
  <2>1. wants'[k] = [wants[k] EXCEPT !.sentTo = p] /\ \A j \in Want : j # k => wants'[j] = wants[j]
    BY <1>1, <1>7
  <2> QED
    BY <1>5, <2>1, Zenon
<1> QED
  BY <1>1, <1>2, <1>3, <1>4, <1>6, <1>7, Zenon

\* A want forgets a peer that leaves the session.
LEMMA KnowsStep ==
    ASSUME SenderTypeOK, UnsentOK, WordsOK, KnowsOK, SenderNext
    PROVE  KnowsOK'
<1> SUFFICES ASSUME NEW k \in Want, NEW p \in Peer, wants'[k] # NotWanted
             PROVE  /\ p \in members' => wants'[k].presence[p] # "none"
                    /\ wants'[k].presence[p] # "none" \/ wants'[k].sentTo = p =>
                          p \in members' \cup late'
  BY Zenon DEF KnowsOK
<1>1. CASE OnChange
  <2>1. PICK w \in WantInfo : After(wants'[k], w, k)
    BY <1>1, OnChangeWant, Zenon
  <2>2. w # NotWanted /\ w \in {NewWant(k), wants[k]}
    BY <2>1, TrackedFacts, EntriesAssumption, Zenon DEF After
  <2>3. Seen(p, k) # "none" /\ Nobody # p
    BY SeenFacts, EntriesAssumption, Zenon
  <2>4. /\ members' = (members \cup NewlyAvailable) \ NewlyUnavailable
        /\ late \subseteq late'
        /\ Said(p, k, "dontHave") \/ Said(p, k, "have") => p \in members' \cup late'
    <3>1. members' = (members \cup NewlyAvailable) \ NewlyUnavailable
      BY <1>1, Zenon DEF OnChange
    <3>2. late' = late \cup
                    {q \in Peer : /\ AboutPeer(q, {"block", "have", "dontHave"}) # {}
                                  /\ q \notin ((members \cup NewlyAvailable) \ NewlyUnavailable) \cap connected}
      BY <1>1, Zenon DEF OnChange
    <3>3. Said(p, k, "dontHave") \/ Said(p, k, "have") => AboutPeer(p, {"block", "have", "dontHave"}) # {}
      BY Zenon DEF Said, AboutPeer
    <3> QED
      BY <3>1, <3>2, <3>3, Zenon
  <2>5. /\ p \in members => w.presence[p] # "none"
        /\ w.presence[p] # "none" \/ w.sentTo = p => p \in members \cup late
    <3>1. CASE w = NewWant(k)
      BY <2>3, <3>1, NewWantFacts
    <3>2. CASE w = wants[k]
      BY <2>2, <3>2, Zenon DEF KnowsOK
    <3> QED
      BY <2>2, <3>1, <3>2, Zenon
  <2>6. wants'[k].presence[p] =
          IF Said(p, k, "dontHave") \/ Said(p, k, "have") THEN Seen(p, k)
          ELSE IF p \in NewlyUnavailable THEN "none"
          ELSE IF p \in NewlyAvailable THEN Seen(p, k) ELSE w.presence[p]
    BY <2>1, Zenon DEF After
  <2>7. wants'[k].sentTo = p => w.sentTo = p /\ p \notin NewlyUnavailable
    BY <2>1, <2>3, Zenon DEF After
  <2>8. p \in members' => wants'[k].presence[p] # "none"
    BY <2>3, <2>4, <2>5, <2>6, Zenon
  <2>9. wants'[k].presence[p] # "none" => p \in members' \cup late'
    BY <2>4, <2>5, <2>6
  <2>10. wants'[k].sentTo = p => p \in members' \cup late'
    BY <2>4, <2>5, <2>7, Zenon
  <2> QED
    BY <2>8, <2>9, <2>10, Zenon
<1>2. CASE UNCHANGED <<wants, members, late>>
  BY <1>2, Zenon DEF KnowsOK
<1>3. CASE CancelSessionWants
  BY <1>2, <1>3, Zenon DEF CancelSessionWants
<1>4. CASE Around
  BY <1>2, <1>4, Zenon DEF Around, Sleeping
<1>5. ASSUME NEW j \in Want, SendNextWant(j)
      PROVE  /\ p \in members' => wants'[k].presence[p] # "none"
             /\ wants'[k].presence[p] # "none" \/ wants'[k].sentTo = p => p \in members' \cup late'
  <2>1. /\ wants[j] # NotWanted /\ UNCHANGED <<members, late>>
        /\ \A i \in Want : i # j => wants'[i] = wants[i]
    BY <1>5, SendFacts, Zenon
  <2>2. CASE k # j \/ wants' = wants
    BY <2>1, <2>2, Zenon DEF KnowsOK
  <2>3. ASSUME k = j,
               NEW q \in Peer, wants[j].presence[q] # "none", wants'[j].sentTo = q,
               wants'[j].presence = wants[j].presence
        PROVE  /\ p \in members' => wants'[k].presence[p] # "none"
               /\ wants'[k].presence[p] # "none" \/ wants'[k].sentTo = p => p \in members' \cup late'
    BY <2>1, <2>3, Zenon DEF KnowsOK
  <2> QED
    BY <1>5, <2>2, <2>3, SendFacts, Zenon
<1> QED
  BY <1>1, <1>3, <1>4, <1>5, SenderSteps, Zenon

\* A visited want waits for a peer, or no peer of the session has the block.
LEMMA VisitedStep ==
    ASSUME SenderTypeOK, UnsentOK, WordsOK, KnowsOK, VisitedOK, SenderNext
    PROVE  VisitedOK'
<1>1. ASSUME NEW ws, StartSending(ws, members'),
             \A k \in Want : wants'[k] = NotWanted <=> ws[k] = NotWanted
      PROVE  VisitedOK'
  <2>1. /\ \A k \in Want : k \in unsent' <=> members' # {} /\ ws[k] # NotWanted
        /\ stage' = "idle" <=> unsent' = {}
    BY <1>1, StartSendingFacts, Zenon
  <2>2. \A k \in Want : k \notin unsent' => Settled(k)'
    BY <1>1, <2>1, Zenon DEF Settled
  <2> QED
    BY <2>1, <2>2, Zenon DEF VisitedOK
<1>2. CASE OnChange
  <2>1. CASE stage' = "cancel"
    BY <2>1, "cancel" # "idle", "cancel" # "send" DEF VisitedOK
  <2>2. CASE StartSending(Updated(NewlyAvailable, NewlyUnavailable),
                          (members \cup NewlyAvailable) \ NewlyUnavailable)
    <3>1. members' = (members \cup NewlyAvailable) \ NewlyUnavailable
      BY <1>2, Zenon DEF OnChange
    <3>2. \A k \in Want : wants'[k] = NotWanted <=>
                             Updated(NewlyAvailable, NewlyUnavailable)[k] = NotWanted
      BY <1>2, OnChangeWant, Zenon
    <3> QED
      BY <1>1, <2>2, <3>1, <3>2, Zenon
  <2> QED
    BY <1>2, <2>1, <2>2, Zenon DEF OnChange
<1>3. CASE CancelSessionWants
  <2>1. StartSending(wants, members) /\ wants' = wants /\ members' = members
    BY <1>3, Zenon DEF CancelSessionWants
  <2> QED
    BY <1>1, <2>1, Zenon
<1>4. CASE Around
  BY <1>4, Zenon DEF Around, Sleeping, VisitedOK, Settled
<1>5. ASSUME NEW k \in Want, SendNextWant(k) PROVE VisitedOK'
  <2>1. /\ stage = "send" /\ unsent' = unsent \ {k}
        /\ stage' = IF unsent' = {} THEN "idle" ELSE "send"
    BY <1>5, Zenon DEF SendNextWant
  <2>2. /\ wants[k] \in WantInfo /\ wants[k] # NotWanted /\ UNCHANGED <<members, late>>
        /\ \A j \in Want : j # k => wants'[j] = wants[j]
    BY <1>5, SendFacts, Zenon
  <2>3. \A j \in Want \ unsent : Settled(j)
    BY <2>1, Zenon DEF VisitedOK
  <2>4. Settled(k)'
    <3>1. CASE wants' = wants /\ (wants[k].sentTo = Nobody => BestPeers(wants[k]) = {})
      <4> SUFFICES ASSUME wants[k].sentTo = Nobody, NEW p \in members
                   PROVE  wants[k].presence[p] = "dontHave"
        BY <2>2, <3>1, Zenon DEF Settled
      <4>1. p \in Peer /\ wants[k].presence[p] \in Presence
        BY <2>2 DEF SenderTypeOK, WantInfo
      <4>2. wants[k].presence[p] # "none"
        BY <2>2, <4>1, Zenon DEF KnowsOK
      <4>3. wants[k].presence[p] # "have" /\ wants[k].presence[p] # "unknown"
        BY <3>1, <4>1, Zenon DEF BestPeers
      <4> QED
        BY <4>1, <4>2, <4>3 DEF Presence
    <3>2. CASE \E p \in Peer : wants'[k].sentTo = p
      BY <3>2, EntriesAssumption, Zenon DEF Settled
    <3> QED
      BY <1>5, <3>1, <3>2, SendFacts, Zenon
  <2>5. \A j \in Want : j # k => (Settled(j)' <=> Settled(j))
    BY <2>2, Zenon DEF Settled
  <2>6. \A j \in Want \ unsent' : Settled(j)'
    BY <2>1, <2>3, <2>4, <2>5, Zenon
  <2>7. stage' = "idle" => unsent' = {}
    BY <2>1
  <2> QED
    BY <2>6, <2>7, Zenon DEF VisitedOK
<1> QED
  BY <1>2, <1>3, <1>4, <1>5, SenderSteps, Zenon

-----------------------------------------------------------------------------
(* The theorems about the want sender.                                     *)

\* Whatever the peers, the clients and the goroutines of the session do, the
\* wants, the peers of the session and the changes fit together.
THEOREM SenderInvariance == SenderSpec => []SenderInv
<1>1. SenderInit => SenderInv
  <2> SUFFICES ASSUME SenderInit PROVE SenderInv
    OBVIOUS
  <2>1. SenderTypeOK
    BY WantSenderAssumption DEF SenderInit, SenderTypeOK
  <2>2. \A p, kinds : AboutPeer(p, kinds) = {}
    BY DEF SenderInit, AboutPeer
  <2>3. WordsOK
    <3>1. \A p \in Peer : ~(held[p]["up"] > 0)
      BY DEF SenderInit
    <3> QED
      BY <2>2, <3>1, Zenon DEF WordsOK, WordOK
  <2>4. UnsentOK /\ MembersOK
    BY Zenon DEF SenderInit, UnsentOK, MembersOK
  <2>5. KnowsOK /\ VisitedOK
    BY DEF SenderInit, KnowsOK, VisitedOK, Settled
  <2> QED
    BY <2>1, <2>3, <2>4, <2>5, Zenon DEF SenderInv
<1>2. SenderInv /\ [SenderNext]_senderVars => SenderInv'
  <2> SUFFICES ASSUME SenderInv, [SenderNext]_senderVars PROVE SenderInv'
    OBVIOUS
  <2>1. CASE SenderNext
    BY <2>1, SenderTypeStep, UnsentStep, WordsStep, MembersStep, KnowsStep, VisitedStep, Zenon
       DEF SenderInv
  <2>2. CASE UNCHANGED senderVars
    <3>1. SenderTypeOK' /\ UnsentOK'
      BY <2>2, Zenon DEF senderVars, SenderInv, SenderTypeOK, UnsentOK
    <3>2. \A p, kinds : AboutPeer(p, kinds)' = AboutPeer(p, kinds)
      BY <2>2, Zenon DEF senderVars, AboutPeer
    <3>3. WordsOK'
      BY <2>2, <3>2, Zenon DEF senderVars, SenderInv, WordsOK, WordOK, Excused
    <3>4. MembersOK'
      BY <2>2, <3>2, Zenon DEF senderVars, SenderInv, MembersOK, Excused
    <3>5. KnowsOK' /\ VisitedOK'
      BY <2>2, Zenon DEF senderVars, SenderInv, KnowsOK, VisitedOK, Settled
    <3> QED
      BY <3>1, <3>3, <3>4, <3>5, Zenon DEF SenderInv
  <2> QED
    BY <2>1, <2>2, Zenon
<1> QED
  BY <1>1, <1>2, PTL DEF SenderSpec

\* No want waits for a peer that has gone once the down about it is taken, but
\* for one of which a message was applied too late, or an up queued after the
\* down.
THEOREM WaitsArePresent == SenderSpec => []WaitsOnPresent
<1>1. SenderInv => WaitsOnPresent
  BY Zenon DEF SenderInv, KnowsOK, MembersOK, Excused, WaitsOnPresent, Waits
<1> QED
  BY <1>1, SenderInvariance, PTL

\* Between two batches every want is at a peer, or no peer of the session has it.
THEOREM WantsAreSent == SenderSpec => []NoWantIdles
<1>1. SenderInv => NoWantIdles
  BY Zenon DEF SenderInv, VisitedOK, Settled, NoWantIdles
<1> QED
  BY <1>1, SenderInvariance, PTL

\* A want-block goes to a second peer only after the first one said DONT_HAVE or
\* left the session, or the client cancelled.
THEOREM OneWantBlockAtATime == SenderSpec => OneWantBlock
<1> DEFINE A == \A k \in Want, p \in Peer :
                  /\ Waits(k, p) /\ wants'[k] # NotWanted /\ wants'[k].sentTo # p
                  => \/ Said(p, k, "dontHave")
                     \/ AboutPeer(p, {"down"}) # {}
                     \/ AboutKey(k, {"cancel"}) # {}
<1>1. SenderInv /\ [SenderNext]_senderVars => [A]_wants
  <2> SUFFICES ASSUME SenderTypeOK, UnsentOK, WordsOK, SenderNext, NEW k \in Want, NEW p \in Peer,
                      wants[k] # NotWanted, wants[k].sentTo = p, wants' # wants,
                      wants'[k] # NotWanted, wants'[k].sentTo # p
               PROVE  \/ Said(p, k, "dontHave")
                      \/ AboutPeer(p, {"down"}) # {}
                      \/ AboutKey(k, {"cancel"}) # {}
    BY Zenon DEF SenderInv, Waits, senderVars
  <2>1. CASE OnChange
    <3> SUFFICES ASSUME AboutKey(k, {"cancel"}) = {}
                 PROVE  Said(p, k, "dontHave") \/ AboutPeer(p, {"down"}) # {}
      BY Zenon
    <3>1. PICK w \in WantInfo : After(wants'[k], w, k)
      BY <2>1, OnChangeWant, Zenon
    <3>2. w = wants[k]
      BY <3>1, TrackedFacts, Zenon DEF After
    <3>3. p \in NewlyUnavailable \/ Said(p, k, "dontHave")
      BY <3>1, <3>2, Zenon DEF After
    <3> QED
      BY <3>3, Zenon DEF NewlyUnavailable, SaidAvailable
  <2>2. CASE CancelSessionWants \/ Around
    BY <2>2, Zenon DEF CancelSessionWants, Around, Sleeping
  <2>3. CASE \E j \in Want : SendNextWant(j)
    <3>1. PICK j \in Want : SendNextWant(j)
      BY <2>3, Zenon
    <3>2. wants[j].sentTo = Nobody /\ \A i \in Want : i # j => wants'[i] = wants[i]
      BY <3>1, SendFacts, Zenon
    <3> QED
      BY <3>2, EntriesAssumption, Zenon
  <2> QED
    BY <2>1, <2>2, <2>3, SenderSteps, Zenon
<1> QED
  BY <1>1, SenderInvariance, PTL DEF SenderSpec, OneWantBlock

=============================================================================
