---------------------- MODULE BlockstoreCacheProofs ----------------------
(***************************************************************************)
(* Proofs about the cached blockstore, for any blocks, callers and         *)
(* workload: what the existence cache says of a key is so but where a call *)
(* has yet to note its change, a block whose Put has returned is found as  *)
(* long as no Delete of it starts, and no callers wait for each other's    *)
(* locks.                                                                  *)
(***************************************************************************)
EXTENDS BlockstoreCache, TLAPS

-----------------------------------------------------------------------------
(* The cached blockstore: its inductive invariant.                         *)

\* The operations of a blockstore, those that write and those that read.
Op == {"Has", "Get", "GetSize", "Put", "PutMany", "Delete"}
Puts(c) == c.op \in {"Put", "PutMany"}
Reads(c) == c.op \in {"Has", "Get", "GetSize"}

\* A call in progress.  Only PutMany has more than one key; what a call wants
\* to lock and what is owed to it are some of its keys.
Calls ==
    {c \in [op : Op, keys : SUBSET Block, want : SUBSET Block, ok : BOOLEAN,
            pc : {"bloom", "arc", "lock", "ask", "note", "unlock", "bloomadd", "end"},
            owed : SUBSET Block] :
        /\ c.want \subseteq c.keys /\ c.owed \subseteq c.keys
        /\ c.op = "PutMany" \/ \E k \in Block : c.keys = {k}
        /\ c.pc = "bloom" => ~Puts(c)
        /\ c.pc = "bloomadd" => Puts(c)
        /\ c.pc \in {"bloom", "arc", "lock", "ask", "bloomadd"} => c.ok}

\* A call's hold of a lock of lockedstore, from the reference to its release.
Grip == [lock : Lock, st : {"ref", "held", "deref"}]

\* The values of the variables.
CacheTypeOK ==
    /\ program \in Workload
    /\ stored \in SUBSET Block /\ acked \in SUBSET Block /\ torn \in SUBSET Block
    /\ bloom \in SUBSET Block /\ blind \in SUBSET Block
    /\ arc \in [Block -> {"unknown", "absent", "have", "size"}]
    /\ lks \in [Block -> Lock \cup {0}]
    /\ build \in [active : BOOLEAN, begun : BOOLEAN, todo : SUBSET Block]
    /\ run \in [Caller -> {Resting} \cup Calls]
    /\ lk \in [Caller -> [Block -> {NoLock} \cup Grip]]

\* The lock of a key is the one its users, but those that are leaving, have; a
\* writer has it alone.
MapOK ==
    \A a \in Caller, k \in Block :
        Uses(a, k, {"ref", "held"}) => lks[k] = lk[a][k].lock

\* While a writer holds a lock, or gives it back, nobody else has it.
WritersAlone ==
    \A a \in Caller, b \in Caller, k \in Block :
        /\ a # b /\ lk[a][k].lock = lk[b][k].lock
        /\ Uses(a, k, {"held", "deref"}) /\ Uses(b, k, {"held", "deref"})
        => ~Writes(run[a])

\* The locks a call has, by where it is.  Until it has them all it has those of
\* its smallest keys.
GripsOK ==
    \A a \in Caller, k \in Block :
        /\ ~Uses(a, k, {"none"}) =>
              run[a].pc \in {"lock", "ask", "note", "unlock"} /\ k \in run[a].want
        /\ Uses(a, k, {"ref"}) => run[a].pc = "lock"
        /\ Uses(a, k, {"deref"}) => run[a].pc = "unlock"
        /\ run[a].pc \in {"ask", "note"} /\ k \in run[a].want => Uses(a, k, {"held"})
        /\ run[a].pc = "lock" /\ ~Uses(a, k, {"none"}) =>
              \A j \in run[a].want : j < k => Uses(a, j, {"held"})

\* What a call that has its answer, and has not yet noted it, knows of its keys.
AnswersOK ==
    \A a \in Caller : run[a].pc = "note" => \A k \in run[a].want :
        /\ Reads(run[a]) => (run[a].ok <=> k \in stored)
        /\ Puts(run[a]) /\ run[a].ok => k \in stored
        /\ run[a].op = "Delete" /\ run[a].ok => k \notin stored

\* b is about to correct what the cache says of k.
Corrects(b, k) ==
    run[b].pc = "note" /\ k \in run[b].want /\ (run[b].op = "PutMany" => run[b].ok)

\* What the caches say is so, unless a call in progress will correct it.
TruthOK ==
    \A k \in Block :
        /\ arc[k] \in {"have", "size"} /\ k \notin stored =>
              \E b \in Caller : Corrects(b, k) /\ run[b].op = "Delete"
        /\ arc[k] = "absent" /\ k \in stored \ torn =>
              \E b \in Caller : Corrects(b, k) /\ Puts(run[b])

\* The filter has what the listing began with, or will have it, or has missed it.
FilterOK ==
    /\ build.begun => program.filter
    /\ build.active => build.begun /\ build.todo = {}
    /\ ~build.active => blind = {}

\* A delete of the key is running; the store has the block and no cache denies
\* it; the bloom filter has it or will.
Deleting(k) == \E b \in Caller : run[b].op = "Delete" /\ k \in run[b].keys
Sure(k) == k \in stored /\ arc[k] # "absent"
Listed(k) == build.begun => k \in bloom \cup build.todo \cup blind

\* The keys of a Put that are in the datastore for sure.
Settling(c) ==
    IF c.pc \in {"lock", "ask", "note"} THEN c.keys \ c.want
    ELSE IF c.pc \in {"unlock", "bloomadd", "end"} THEN c.keys ELSE {}

\* A block whose put has returned is there for the readers, in every cache.
AckedOK == \A k \in acked : Sure(k) /\ ~Deleting(k) /\ Listed(k)

\* What is owed to a call is not being deleted; a reader can find it, and a Put
\* that succeeds has stored it, and added it to the filter if there is one.
OwedOK ==
    \A a \in Caller : run[a] # Resting =>
        /\ run[a].op # "Delete" => \A k \in run[a].owed : ~Deleting(k)
        /\ Reads(run[a]) => \A k \in run[a].owed : Sure(k) /\ Listed(k)
        /\ Reads(run[a]) /\ run[a].pc \in {"note", "unlock", "end"} /\ ~run[a].ok =>
              run[a].owed = {}
        /\ Puts(run[a]) /\ run[a].ok =>
              /\ \A k \in run[a].owed \cap Settling(run[a]) : Sure(k)
              /\ run[a].pc = "end" /\ program.filter => run[a].owed \subseteq bloom

\* The inductive invariant.
CacheInv ==
    /\ CacheTypeOK /\ MapOK /\ WritersAlone /\ GripsOK /\ AnswersOK
    /\ TruthOK /\ FilterOK /\ AckedOK /\ OwedOK

-----------------------------------------------------------------------------
(* What a step does to a call.                                             *)

\* The call after a step.
With(c, pc, ok, want, owed) ==
    [op |-> c.op, keys |-> c.keys, want |-> want, ok |-> ok, pc |-> pc, owed |-> owed]

\* The call of a, and no other, goes to pc.
Moves(a, pc, ok, want, owed) ==
    /\ run[a] \in Calls
    /\ run' = [run EXCEPT ![a] = With(run[a], pc, ok, want, owed)]
    /\ run' \in [Caller -> {Resting} \cup Calls]

\* A call that is somewhere is a call in progress.
LEMMA InProgress ==
    ASSUME CacheTypeOK, NEW a \in Caller, run[a].pc # "rest"
    PROVE  run[a] \in Calls
BY DEF CacheTypeOK, Resting

\* An update of the fields of a call that are not fixed when it starts.
LEMMA MoveFacts ==
    ASSUME CacheTypeOK, NEW a \in Caller, run[a] \in Calls,
           NEW pc, NEW ok, NEW want, NEW owed
    PROVE  LET c == run[a] IN
           /\ /\ run' = [run EXCEPT ![a].pc = pc]
              /\ With(c, pc, c.ok, c.want, c.owed) \in Calls
              => Moves(a, pc, c.ok, c.want, c.owed)
           /\ /\ run' = [run EXCEPT ![a].pc = pc, ![a].ok = ok]
              /\ With(c, pc, ok, c.want, c.owed) \in Calls
              => Moves(a, pc, ok, c.want, c.owed)
           /\ /\ run' = [run EXCEPT ![a].pc = pc, ![a].want = want]
              /\ With(c, pc, c.ok, want, c.owed) \in Calls
              => Moves(a, pc, c.ok, want, c.owed)
           /\ /\ run' = [run EXCEPT ![a].pc = pc, ![a].ok = ok, ![a].owed = owed]
              /\ With(c, pc, ok, c.want, owed) \in Calls
              => Moves(a, pc, ok, c.want, owed)
<1> DEFINE c == run[a]
<1>1. run \in [Caller -> {Resting} \cup Calls]
  BY Zenon DEF CacheTypeOK
<1>2. ASSUME NEW d \in Calls
      PROVE  [run EXCEPT ![a] = d] \in [Caller -> {Resting} \cup Calls]
  BY <1>1, Zenon
<1>3. /\ [run EXCEPT ![a].pc = pc] = [run EXCEPT ![a] = [c EXCEPT !.pc = pc]]
      /\ [run EXCEPT ![a].pc = pc, ![a].ok = ok] =
            [run EXCEPT ![a] = [c EXCEPT !.pc = pc, !.ok = ok]]
      /\ [run EXCEPT ![a].pc = pc, ![a].want = want] =
            [run EXCEPT ![a] = [c EXCEPT !.pc = pc, !.want = want]]
      /\ [run EXCEPT ![a].pc = pc, ![a].ok = ok, ![a].owed = owed] =
            [run EXCEPT ![a] = [c EXCEPT !.pc = pc, !.ok = ok, !.owed = owed]]
  BY <1>1, Zenon
<1> HIDE DEF c
<1>4. c = [op |-> c.op, keys |-> c.keys, want |-> c.want, ok |-> c.ok,
           pc |-> c.pc, owed |-> c.owed]
  BY Zenon DEF Calls, c
<1>a. [c EXCEPT !.pc = pc] = With(c, pc, c.ok, c.want, c.owed)
  BY <1>4 DEF With
<1>b. /\ [c EXCEPT !.pc = pc, !.ok = ok] = [[c EXCEPT !.pc = pc] EXCEPT !.ok = ok]
      /\ [c EXCEPT !.pc = pc, !.want = want] = [[c EXCEPT !.pc = pc] EXCEPT !.want = want]
      /\ [c EXCEPT !.pc = pc, !.ok = ok, !.owed = owed] =
            [[[c EXCEPT !.pc = pc] EXCEPT !.ok = ok] EXCEPT !.owed = owed]
  OBVIOUS
<1>c. /\ [With(c, pc, c.ok, c.want, c.owed) EXCEPT !.ok = ok] =
            With(c, pc, ok, c.want, c.owed)
      /\ [With(c, pc, c.ok, c.want, c.owed) EXCEPT !.want = want] =
            With(c, pc, c.ok, want, c.owed)
      /\ [With(c, pc, ok, c.want, c.owed) EXCEPT !.owed = owed] =
            With(c, pc, ok, c.want, owed)
  BY DEF With
<1>5. [run EXCEPT ![a].pc = pc] = [run EXCEPT ![a] = With(c, pc, c.ok, c.want, c.owed)]
  BY <1>3, <1>a, Zenon
<1>7. [run EXCEPT ![a].pc = pc, ![a].ok = ok] =
        [run EXCEPT ![a] = With(c, pc, ok, c.want, c.owed)]
  BY <1>3, <1>a, <1>b, <1>c, Zenon
<1>8. [run EXCEPT ![a].pc = pc, ![a].want = want] =
        [run EXCEPT ![a] = With(c, pc, c.ok, want, c.owed)]
  BY <1>3, <1>a, <1>b, <1>c, Zenon
<1>9. [run EXCEPT ![a].pc = pc, ![a].ok = ok, ![a].owed = owed] =
        [run EXCEPT ![a] = With(c, pc, ok, c.want, owed)]
  <2>1. [[[c EXCEPT !.pc = pc] EXCEPT !.ok = ok] EXCEPT !.owed = owed] =
           With(c, pc, ok, c.want, owed)
    BY <1>a, <1>c, Zenon
  <2>2. [c EXCEPT !.pc = pc, !.ok = ok, !.owed = owed] = With(c, pc, ok, c.want, owed)
    BY <2>1, <1>b, Zenon
  <2> QED
    BY <1>3, <2>2, Zenon
<1>6. ASSUME NEW d \in Calls, run' = [run EXCEPT ![a] = d]
      PROVE  run[a] \in Calls /\ run' \in [Caller -> {Resting} \cup Calls]
  BY <1>2, <1>6, Zenon
<1> QED
  BY <1>5, <1>6, <1>7, <1>8, <1>9, Zenon DEF Moves, c

\* Which moves make a call in progress of a call in progress.
LEMMA WithFacts ==
    ASSUME NEW c \in Calls, NEW ok \in BOOLEAN,
           NEW want \in SUBSET c.keys, NEW owed \in SUBSET c.keys,
           NEW pc \in {"arc", "lock", "ask", "note", "unlock", "bloomadd", "end"},
           pc = "bloomadd" => Puts(c),
           pc \in {"arc", "lock", "ask", "bloomadd"} => ok
    PROVE  With(c, pc, ok, want, owed) \in Calls
BY DEF With, Calls, Puts

\* What a call does next, for every step that changes no other call.
LEMMA CallSteps ==
    ASSUME CacheTypeOK, NEW a \in Caller
    PROVE  LET c == run[a]
               left == {k \in c.keys : ~Settled(c.op, arc[k])}
           IN
        /\ Bloom(a) => \/ Moves(a, "arc", c.ok, c.want, c.owed)
                       \/ /\ build.active /\ KeyOf(c) \notin bloom
                          /\ Moves(a, "end", c.op = "Delete", c.want, c.owed \ blind)
        /\ QueryCache(a) =>
             \/ left # {} /\ Moves(a, "lock", c.ok, left, c.owed)
             \/ left = {} /\ Writes(c) /\ Moves(a, After(c), c.ok, c.want, c.owed)
             \/ /\ left = {} /\ ~Writes(c)
                /\ Moves(a, "end", arc[KeyOf(c)] # "absent", c.want, c.owed)
        /\ Read(a) => Moves(a, "note", KeyOf(c) \in stored, c.want, c.owed)
        /\ ReadFails(a) => Moves(a, "unlock", FALSE, c.want, {})
        /\ \A ok \in BOOLEAN :
             c.pc = "ask" /\ run' = [run EXCEPT ![a].pc = "note", ![a].ok = ok] =>
                Moves(a, "note", ok, c.want, c.owed)
        /\ NoteInCache(a) => Moves(a, "unlock", c.ok, c.want, c.owed)
        /\ BloomAdd(a) => Moves(a, "end", c.ok, c.want, c.owed)
<1> DEFINE c == run[a]
<1>1. ASSUME c \in Calls
      PROVE  /\ c.ok \in BOOLEAN /\ c.want \in SUBSET c.keys /\ c.owed \in SUBSET c.keys
             /\ c.owed \ blind \in SUBSET c.keys /\ {} \in SUBSET c.keys
             /\ {k \in c.keys : ~Settled(c.op, arc[k])} \in SUBSET c.keys
             /\ c.pc \in {"bloom", "arc", "lock", "ask", "bloomadd"} => c.ok
  BY <1>1, Zenon DEF Calls
<1>2. ASSUME c \in Calls
      PROVE  /\ After(c) \in {"bloomadd", "end"}
             /\ After(c) = "bloomadd" => Puts(c) /\ c.ok
  BY Zenon DEF After, Puts
<1>3. /\ (KeyOf(c) \in stored) \in BOOLEAN /\ (c.op = "Delete") \in BOOLEAN
      /\ (arc[KeyOf(c)] # "absent") \in BOOLEAN
  OBVIOUS
<1>4. ASSUME Bloom(a)
      PROVE  \/ Moves(a, "arc", c.ok, c.want, c.owed)
             \/ /\ build.active /\ KeyOf(c) \notin bloom
                /\ Moves(a, "end", c.op = "Delete", c.want, c.owed \ blind)
  BY <1>4, InProgress, <1>1, <1>3, WithFacts, MoveFacts, Zenon DEF Bloom, Goto
<1> DEFINE left == {k \in c.keys : ~Settled(c.op, arc[k])}
<1>5. ASSUME QueryCache(a)
      PROVE  \/ left # {} /\ Moves(a, "lock", c.ok, left, c.owed)
             \/ left = {} /\ Writes(c) /\ Moves(a, After(c), c.ok, c.want, c.owed)
             \/ /\ left = {} /\ ~Writes(c)
                /\ Moves(a, "end", arc[KeyOf(c)] # "absent", c.want, c.owed)
  <2>1. c.pc = "arc" /\ c \in Calls
    BY <1>5, InProgress, Zenon DEF QueryCache
  <2>2. /\ With(c, "lock", c.ok, left, c.owed) \in Calls
        /\ With(c, After(c), c.ok, c.want, c.owed) \in Calls
        /\ With(c, "end", arc[KeyOf(c)] # "absent", c.want, c.owed) \in Calls
    BY <2>1, <1>1, <1>2, <1>3, WithFacts, Zenon
  <2>3. \/ left # {} /\ run' = [run EXCEPT ![a].pc = "lock", ![a].want = left]
        \/ left = {} /\ Writes(c) /\ run' = [run EXCEPT ![a].pc = After(c)]
        \/ /\ left = {} /\ ~Writes(c)
           /\ run' = [run EXCEPT ![a].pc = "end", ![a].ok = (arc[KeyOf(c)] # "absent")]
    BY <1>5 DEF QueryCache, Goto, Answer
  <2> HIDE DEF left
  <2> QED
    BY <2>1, <2>2, <2>3, MoveFacts, Zenon
<1>6. ASSUME Read(a) PROVE Moves(a, "note", KeyOf(c) \in stored, c.want, c.owed)
  BY <1>6, InProgress, <1>1, <1>3, WithFacts, MoveFacts, Zenon DEF Read
<1>7. ASSUME ReadFails(a) PROVE Moves(a, "unlock", FALSE, c.want, {})
  BY <1>7, InProgress, <1>1, WithFacts, MoveFacts, Zenon DEF ReadFails
<1>8. ASSUME NEW ok \in BOOLEAN, c.pc = "ask",
             run' = [run EXCEPT ![a].pc = "note", ![a].ok = ok]
      PROVE  Moves(a, "note", ok, c.want, c.owed)
  BY <1>8, InProgress, <1>1, WithFacts, MoveFacts, Zenon
<1>9. ASSUME NoteInCache(a) PROVE Moves(a, "unlock", c.ok, c.want, c.owed)
  BY <1>9, InProgress, <1>1, WithFacts, MoveFacts, Zenon DEF NoteInCache, Goto
<1>10. ASSUME BloomAdd(a) PROVE Moves(a, "end", c.ok, c.want, c.owed)
  BY <1>10, InProgress, <1>1, WithFacts, MoveFacts, Zenon DEF BloomAdd, Goto
<1> QED
  BY <1>4, <1>5, <1>6, <1>7, <1>8, <1>9, <1>10, Zenon

\* A call of the program that starts.
Started(c) ==
    [op |-> c.op, keys |-> c.keys, want |-> c.keys, ok |-> TRUE,
     pc |-> IF c.op \in {"Put", "PutMany"} THEN "arc" ELSE "bloom",
     owed |-> IF c.op \in {"Put", "PutMany"}
              THEN c.keys \ UNION {run[b].keys : b \in {b \in Caller : run[b].op = "Delete"}}
              ELSE c.keys \cap acked]

\* What Start does to the calls: a Delete takes from what is owed to the others.
LEMMA StartFacts ==
    ASSUME CacheTypeOK, NEW a \in Caller, NEW c \in program.calls, Start(a, c)
    PROVE  /\ c.op \in Op /\ c.keys \in SUBSET Block
           /\ run[a] = Resting
           /\ run' \in [Caller -> {Resting} \cup Calls]
           /\ run'[a] = Started(c)
           /\ \A b \in Caller \ {a} :
                \/ run'[b] = run[b] /\ (run[b] = Resting \/ c.op # "Delete")
                \/ /\ run[b] \in Calls /\ run[b] # Resting /\ c.op = "Delete"
                   /\ run'[b] = With(run[b], run[b].pc, run[b].ok, run[b].want,
                                     run[b].owed \ c.keys)
<1>1. /\ c.op \in Op /\ c.keys \in SUBSET Block
      /\ c.op = "PutMany" \/ \E k \in Block : c.keys = {k}
  BY WorkloadAssumption DEF CacheTypeOK, Op
<1>2. /\ run[a] = Resting
      /\ run' = [b \in Caller |-> IF b = a THEN Started(c)
                 ELSE IF c.op = "Delete" /\ run[b] # Resting
                      THEN [run[b] EXCEPT !.owed = @ \ c.keys] ELSE run[b]]
  BY Zenon DEF Start, Started
<1>3. Started(c) \in Calls
  <2> DEFINE D == UNION {run[b].keys : b \in {b \in Caller : run[b].op = "Delete"}}
  <2>1. c.keys \ D \in SUBSET c.keys /\ c.keys \cap acked \in SUBSET c.keys
    OBVIOUS
  <2> HIDE DEF D
  <2> QED
    BY <1>1, <2>1, Zenon DEF Started, Calls, Puts, Op, D
<1>4. ASSUME NEW b \in Caller, run[b] # Resting
      PROVE  /\ run[b] \in Calls
             /\ [run[b] EXCEPT !.owed = @ \ c.keys] =
                  With(run[b], run[b].pc, run[b].ok, run[b].want, run[b].owed \ c.keys)
             /\ With(run[b], run[b].pc, run[b].ok, run[b].want, run[b].owed \ c.keys) \in Calls
  <2>1. run[b] \in Calls
    BY <1>4, Zenon DEF CacheTypeOK
  <2>2. ASSUME NEW d \in Calls
        PROVE  /\ [d EXCEPT !.owed = @ \ c.keys] =
                    With(d, d.pc, d.ok, d.want, d.owed \ c.keys)
               /\ With(d, d.pc, d.ok, d.want, d.owed \ c.keys) \in Calls
    <3>1. d = [op |-> d.op, keys |-> d.keys, want |-> d.want, ok |-> d.ok,
               pc |-> d.pc, owed |-> d.owed]
      BY Zenon DEF Calls
    <3>2. [d EXCEPT !.owed = @ \ c.keys] = With(d, d.pc, d.ok, d.want, d.owed \ c.keys)
      BY <3>1 DEF With
    <3> QED
      BY <3>2, Zenon DEF Calls, With, Puts
  <2> QED
    BY <2>1, <2>2, Zenon
<1>5. ASSUME NEW b \in Caller PROVE run[b] = Resting \/ run[b] \in Calls
  BY Zenon DEF CacheTypeOK
<1> QED
  BY <1>1, <1>2, <1>3, <1>4, <1>5, Zenon

\* Start changes no call that is in progress but for what is owed to it.
LEMMA StartKeeps ==
    ASSUME CacheTypeOK, NEW a \in Caller, NEW c \in program.calls, Start(a, c)
    PROVE  /\ run[a].pc = "rest" /\ run'[a].pc \in {"arc", "bloom"}
           /\ \A b \in Caller \ {a} :
                /\ run'[b].op = run[b].op /\ run'[b].want = run[b].want
                /\ run'[b].pc = run[b].pc /\ run'[b].ok = run[b].ok
<1>1. run[a] = Resting /\ run'[a] = Started(c)
  BY StartFacts, Zenon
<1>2. run[a].pc = "rest" /\ run'[a].pc \in {"arc", "bloom"}
  BY <1>1 DEF Resting, Started
<1>3. ASSUME NEW b \in Caller \ {a}
      PROVE  /\ run'[b].op = run[b].op /\ run'[b].want = run[b].want
             /\ run'[b].pc = run[b].pc /\ run'[b].ok = run[b].ok
  <2>1. \/ run'[b] = run[b]
        \/ run'[b] = With(run[b], run[b].pc, run[b].ok, run[b].want, run[b].owed \ c.keys)
    BY StartFacts, Zenon
  <2> QED
    BY <2>1 DEF With
<1> QED
  BY <1>2, <1>3, Zenon

\* The steps that take and give back a lock, too, are moves of a call.
LEMMA LockMoves ==
    ASSUME CacheTypeOK, GripsOK, NEW a \in Caller, NEW k \in Block
    PROVE  LET c == run[a] IN
        /\ LockAcquire(a, k) =>
             /\ c.pc = "lock"
             /\ \/ /\ \A j \in c.want : j = k \/ Uses(a, j, {"held"})
                   /\ Moves(a, "ask", c.ok, c.want, c.owed)
                \/ Moves(a, "lock", c.ok, c.want, c.owed)
        /\ UnlockRelease(a, k) =>
             /\ c.pc = "unlock"
             /\ \/ run' = run
                \/ /\ ~\E j \in c.want : j # k /\ ~Uses(a, j, {"none"})
                   /\ Moves(a, After(c), c.ok, c.want, c.owed)
<1> DEFINE c == run[a]
<1>1. ASSUME c \in Calls
      PROVE  /\ c.ok \in BOOLEAN /\ c.want \in SUBSET c.keys /\ c.owed \in SUBSET c.keys
             /\ c.pc = "lock" => c.ok
             /\ After(c) \in {"bloomadd", "end"}
             /\ After(c) = "bloomadd" => Puts(c) /\ c.ok
  BY <1>1, Zenon DEF Calls, After, Puts
<1>2. ASSUME LockAcquire(a, k)
      PROVE  /\ c.pc = "lock"
             /\ \/ /\ \A j \in c.want : j = k \/ Uses(a, j, {"held"})
                   /\ Moves(a, "ask", c.ok, c.want, c.owed)
                \/ Moves(a, "lock", c.ok, c.want, c.owed)
  BY <1>2, InProgress, <1>1, WithFacts, MoveFacts, Zenon DEF GripsOK, LockAcquire, Goto
<1>3. ASSUME UnlockRelease(a, k)
      PROVE  /\ c.pc = "unlock"
             /\ \/ run' = run
                \/ /\ ~\E j \in c.want : j # k /\ ~Uses(a, j, {"none"})
                   /\ Moves(a, After(c), c.ok, c.want, c.owed)
  BY <1>3, InProgress, <1>1, WithFacts, MoveFacts, Zenon DEF GripsOK, UnlockRelease, Goto
<1> QED
  BY <1>2, <1>3, Zenon

\* The locks and the map of locks keep their types.
LEMMA LockTypes ==
    ASSUME CacheTypeOK, NEW a \in Caller, NEW k \in Block,
           \/ LockRef(a, k) \/ LockAcquire(a, k) \/ UnlockDeref(a, k) \/ UnlockRelease(a, k)
    PROVE  /\ lks' \in [Block -> Lock \cup {0}]
           /\ lk' \in [Caller -> [Block -> {NoLock} \cup Grip]]
<1> DEFINE g == lk[a][k]
<1>1. /\ lk \in [Caller -> [Block -> {NoLock} \cup Grip]] /\ lks \in [Block -> Lock \cup {0}]
      /\ g \in {NoLock} \cup Grip
  BY DEF CacheTypeOK
<1>2. ASSUME NEW h \in {NoLock} \cup Grip
      PROVE  [lk EXCEPT ![a][k] = h] \in [Caller -> [Block -> {NoLock} \cup Grip]]
  BY <1>1, Zenon
<1>3. g.st # "none" => [g EXCEPT !.st = "held"] \in Grip /\ [g EXCEPT !.st = "deref"] \in Grip
  BY <1>1 DEF Grip, NoLock
<1>4. CASE LockRef(a, k)
  BY <1>1, <1>2, <1>4 DEF LockRef, Grip
<1>5. CASE LockAcquire(a, k)
  BY <1>1, <1>2, <1>3, <1>5, Zenon DEF LockAcquire, Uses
<1>6. CASE UnlockDeref(a, k)
  BY <1>1, <1>2, <1>3, <1>6, Zenon DEF UnlockDeref, Uses
<1>7. CASE UnlockRelease(a, k)
  BY <1>1, <1>2, <1>7, Zenon DEF UnlockRelease
<1> QED
  BY <1>4, <1>5, <1>6, <1>7, Zenon

-----------------------------------------------------------------------------
(* Types.                                                                  *)

\* The parts of a call's state that its keys bound.
LEMMA CallFacts ==
    ASSUME NEW c \in Calls
    PROVE  /\ c # Resting /\ c.pc # "rest" /\ c.op \in Op /\ c.ok \in BOOLEAN
           /\ c.keys \in SUBSET Block /\ c.want \in SUBSET Block /\ c.owed \in SUBSET Block
           /\ c.want \subseteq c.keys /\ c.owed \subseteq c.keys
BY DEF Calls, Resting

\* A call moves and may change the datastore, the cache and the filter.
LEMMA MoveTypes ==
    ASSUME CacheTypeOK, NEW a \in Caller, NEW pc, NEW ok, NEW want, NEW owed,
           Moves(a, pc, ok, want, owed),
           UNCHANGED <<program, lks, build, lk, acked>>,
           stored' \in SUBSET Block, torn' \in SUBSET Block, bloom' \in SUBSET Block,
           blind' \in SUBSET Block,
           arc' \in [Block -> {"unknown", "absent", "have", "size"}]
    PROVE  CacheTypeOK'
BY DEF CacheTypeOK, Moves

\* Every step of the cached blockstore keeps the types.
LEMMA TypeStep ==
    ASSUME CacheTypeOK, GripsOK, CacheNext PROVE CacheTypeOK'
<1>1. ASSUME NEW a \in Caller, NEW c \in program.calls, Start(a, c) PROVE CacheTypeOK'
  BY <1>1, StartFacts, Zenon DEF CacheTypeOK, Start
<1>2. ASSUME NEW a \in Caller, Bloom(a) \/ QueryCache(a) \/ Read(a) \/ ReadFails(a)
      PROVE  CacheTypeOK'
  <2>1. \E pc, ok, want, owed : Moves(a, pc, ok, want, owed)
    BY <1>2, CallSteps, Zenon
  <2>2. UNCHANGED <<program, stored, arc, lks, bloom, build, lk, acked, torn, blind>>
    BY <1>2, Zenon DEF Bloom, QueryCache, Read, ReadFails
  <2> QED
    BY <2>1, <2>2, MoveTypes, Zenon DEF CacheTypeOK
<1>3. ASSUME NEW a \in Caller, Change(a) PROVE CacheTypeOK'
  <2>1. run[a] \in Calls
    BY <1>3, InProgress, Zenon DEF Change
  <2>2. PICK ok \in BOOLEAN, done \in SUBSET run[a].want :
          /\ stored' = IF run[a].op = "Delete" THEN stored \ done ELSE stored \cup done
          /\ run' = [run EXCEPT ![a].pc = "note", ![a].ok = ok]
          /\ torn' = IF run[a].op = "PutMany" /\ ~ok THEN torn \cup done ELSE torn
    BY <1>3, Zenon DEF Change
  <2>3. Moves(a, "note", ok, run[a].want, run[a].owed)
    BY <1>3, <2>2, CallSteps, Zenon DEF Change
  <2>4. done \in SUBSET Block
    BY <2>1, CallFacts, Zenon
  <2>5. stored' \in SUBSET Block /\ torn' \in SUBSET Block
    BY <2>2, <2>4, Zenon DEF CacheTypeOK
  <2> QED
    BY <1>3, <2>3, <2>5, MoveTypes, Zenon DEF Change, CacheTypeOK
<1>4. ASSUME NEW a \in Caller, NoteInCache(a) PROVE CacheTypeOK'
  BY <1>4, CallSteps, MoveTypes, Zenon DEF NoteInCache, Note, CacheTypeOK
<1>5. ASSUME NEW a \in Caller, BloomAdd(a) PROVE CacheTypeOK'
  BY <1>5, CallSteps, CallFacts, MoveTypes, Zenon DEF BloomAdd, CacheTypeOK, Moves
<1>6. ASSUME NEW a \in Caller, Return(a) PROVE CacheTypeOK'
  BY <1>6, InProgress, CallFacts, Zenon DEF Return, CacheTypeOK
<1>7. ASSUME NEW a \in Caller, NEW k \in Block,
             LockRef(a, k) \/ LockAcquire(a, k) \/ UnlockDeref(a, k) \/ UnlockRelease(a, k)
      PROVE  CacheTypeOK'
  <2>1. run' \in [Caller -> {Resting} \cup Calls]
    BY <1>7, LockMoves, Zenon DEF LockRef, UnlockDeref, Moves, CacheTypeOK
  <2> QED
    BY <1>7, <2>1, LockTypes, Zenon
       DEF CacheTypeOK, LockRef, LockAcquire, UnlockDeref, UnlockRelease
<1>8. ASSUME NEW k \in Block, Evict(k) PROVE CacheTypeOK'
  BY <1>8, Zenon DEF CacheTypeOK, Evict
<1>9. ASSUME NEW k \in Block, BuildAdd(k) PROVE CacheTypeOK'
  BY <1>9, Zenon DEF CacheTypeOK, BuildAdd
<1>10. ASSUME BuildStart PROVE CacheTypeOK'
  BY <1>10, Zenon DEF CacheTypeOK, BuildStart
<1>11. ASSUME BuildEnd PROVE CacheTypeOK'
  BY <1>11, Zenon DEF CacheTypeOK, BuildEnd
<1> QED
  BY <1>1, <1>2, <1>3, <1>4, <1>5, <1>6, <1>7, <1>8, <1>9, <1>10, <1>11, Zenon DEF
     CacheNext

-----------------------------------------------------------------------------
(* The locks.                                                              *)

\* The conjuncts about locks.
LocksOK == MapOK /\ WritersAlone /\ GripsOK

\* Steps that touch no lock: a call that has locks keeps its operation and its
\* keys, and goes on from asking the datastore to noting the answer and unlocking.
LEMMA LocksKept ==
    ASSUME LocksOK, UNCHANGED <<lk, lks>>,
           \A b \in Caller :
             \/ /\ run[b].pc \notin {"lock", "ask", "note", "unlock"}
                /\ run'[b].pc \notin {"ask", "note"}
             \/ /\ run'[b].op = run[b].op /\ run'[b].want = run[b].want
                /\ \/ run'[b].pc = run[b].pc
                   \/ run[b].pc \in {"ask", "note"} /\ run'[b].pc \in {"note", "unlock"}
    PROVE  LocksOK'
  BY DEF LocksOK, MapOK, Uses, WritersAlone, GripsOK, Writes

\* A step that changes what a does with the lock of k.
Sets(a, k, lock, st) ==
    /\ lk'[a][k].lock = lock /\ lk'[a][k].st = st
    /\ \A b \in Caller, j \in Block : b # a \/ j # k => lk'[b][j] = lk[b][j]

\* What the steps of the lock do to lk.
LEMMA SetFacts ==
    ASSUME CacheTypeOK, NEW a \in Caller, NEW k \in Block
    PROVE  /\ \A n \in Lock : lk' = [lk EXCEPT ![a][k] = [lock |-> n, st |-> "ref"]] =>
                                 Sets(a, k, n, "ref")
           /\ LockAcquire(a, k) => Sets(a, k, lk[a][k].lock, "held")
           /\ UnlockDeref(a, k) => Sets(a, k, lk[a][k].lock, "deref")
           /\ UnlockRelease(a, k) => Sets(a, k, 0, "none")
<1> DEFINE g == lk[a][k]
<1>1. lk \in [Caller -> [Block -> {NoLock} \cup Grip]] /\ g \in {NoLock} \cup Grip
  BY DEF CacheTypeOK
<1>2. ASSUME NEW h, lk' = [lk EXCEPT ![a][k] = h]
      PROVE  lk'[a][k] = h /\ \A b \in Caller, j \in Block : b # a \/ j # k => lk'[b][j] = lk[b][j]
  BY <1>1, <1>2, Zenon
<1>3. ASSUME NEW st
      PROVE  [g EXCEPT !.st = st].lock = g.lock /\ [g EXCEPT !.st = st].st = st
  BY <1>1, Zenon DEF Grip, NoLock
<1>4. /\ LockAcquire(a, k) => lk' = [lk EXCEPT ![a][k] = [g EXCEPT !.st = "held"]]
      /\ UnlockDeref(a, k) => lk' = [lk EXCEPT ![a][k] = [g EXCEPT !.st = "deref"]]
      /\ UnlockRelease(a, k) => lk' = [lk EXCEPT ![a][k] = NoLock]
  BY Zenon DEF LockAcquire, UnlockDeref, UnlockRelease
<1>5. ASSUME NEW n \in Lock, lk' = [lk EXCEPT ![a][k] = [lock |-> n, st |-> "ref"]]
      PROVE  Sets(a, k, n, "ref")
  <2> DEFINE h == [lock |-> n, st |-> "ref"]
  <2>1. h.lock = n /\ h.st = "ref" /\ lk' = [lk EXCEPT ![a][k] = h]
    BY <1>5, Zenon
  <2> HIDE DEF h
  <2> QED
    BY <1>2, <2>1, Zenon DEF Sets
<1>6. ASSUME LockAcquire(a, k) PROVE Sets(a, k, g.lock, "held")
  <2> DEFINE h == [g EXCEPT !.st = "held"]
  <2>1. h.lock = g.lock /\ h.st = "held" /\ lk' = [lk EXCEPT ![a][k] = h]
    BY <1>3, <1>4, <1>6, Zenon
  <2> HIDE DEF h
  <2> QED
    BY <1>2, <2>1, Zenon DEF Sets
<1>7. ASSUME UnlockDeref(a, k) PROVE Sets(a, k, g.lock, "deref")
  <2> DEFINE h == [g EXCEPT !.st = "deref"]
  <2>1. h.lock = g.lock /\ h.st = "deref" /\ lk' = [lk EXCEPT ![a][k] = h]
    BY <1>3, <1>4, <1>7, Zenon
  <2> HIDE DEF h
  <2> QED
    BY <1>2, <2>1, Zenon DEF Sets
<1>8. ASSUME UnlockRelease(a, k) PROVE Sets(a, k, 0, "none")
  BY <1>2, <1>4, <1>8 DEF NoLock, Sets
<1> QED
  BY <1>5, <1>6, <1>7, <1>8, Zenon

\* A lock that is used is a lock.
LEMMA GripFacts ==
    ASSUME CacheTypeOK, NEW b \in Caller, NEW j \in Block
    PROVE  /\ lk[b][j].st \in {"none", "ref", "held", "deref"}
           /\ lk[b][j].st # "none" => lk[b][j].lock \in Lock /\ lk[b][j].lock # 0
  BY DEF CacheTypeOK, Lock, NoLock, Grip

\* lock finds the lock of the key, or makes one that nobody uses.
LEMMA RefStep ==
    ASSUME CacheTypeOK, LocksOK, NEW a \in Caller, NEW k \in Block, LockRef(a, k)
    PROVE  LocksOK'
<1>1. PICK n \in Lock :
        /\ IF lks[k] # 0 THEN n = lks[k] ELSE \A b \in Caller : lk[b][k].lock # n
        /\ lks' = [lks EXCEPT ![k] = n]
        /\ lk' = [lk EXCEPT ![a][k] = [lock |-> n, st |-> "ref"]]
  BY Zenon DEF LockRef
<1>2. Sets(a, k, n, "ref") /\ run' = run /\ lks \in [Block -> Lock \cup {0}]
  BY <1>1, SetFacts, Zenon DEF LockRef, CacheTypeOK
<1>3. /\ run[a].pc = "lock" /\ k \in run[a].want /\ lk[a][k].st = "none"
      /\ \A j \in run[a].want : j < k => lk[a][j].st = "held"
  BY Zenon DEF LockRef, MayLock, Uses
<1>4. MapOK'
  BY <1>1, <1>2, GripFacts DEF MapOK, Uses, Sets, LocksOK
<1>5. WritersAlone'
  BY <1>2, Zenon DEF LocksOK, WritersAlone, Uses, Writes, Sets
<1>6. GripsOK'
  <2> SUFFICES ASSUME NEW b \in Caller, NEW j \in Block
               PROVE
        /\ lk'[b][j].st # "none" =>
              run[b].pc \in {"lock", "ask", "note", "unlock"} /\ j \in run[b].want
        /\ lk'[b][j].st = "ref" => run[b].pc = "lock"
        /\ lk'[b][j].st = "deref" => run[b].pc = "unlock"
        /\ run[b].pc \in {"ask", "note"} /\ j \in run[b].want => lk'[b][j].st = "held"
        /\ run[b].pc = "lock" /\ lk'[b][j].st # "none" =>
              \A i \in run[b].want : i < j => lk'[b][i].st = "held"
    BY <1>2 DEF GripsOK, Uses
  <2>1. \A i \in run[b].want : run[b].pc = "lock" => i \in Block /\ i \in Nat
    BY InProgress, CallFacts, WorkloadAssumption, Zenon
  <2>2. CASE b # a
    BY <2>1, <2>2, <1>2 DEF LocksOK, GripsOK, Uses, Sets
  <2>3. CASE b = a /\ j = k
    BY <2>1, <2>3, <1>2, <1>3, Zenon DEF Sets
  <2>4. CASE b = a /\ j # k
    BY <2>4, <1>2, <1>3, <2>1 DEF Sets, LocksOK, GripsOK, Uses
  <2> QED
    BY <2>2, <2>3, <2>4, Zenon
<1> QED
  BY <1>4, <1>5, <1>6, Zenon DEF LocksOK

\* A mutex is acquired when nobody that excludes the caller has it.
LEMMA AcquireStep ==
    ASSUME CacheTypeOK, LocksOK, NEW a \in Caller, NEW k \in Block, LockAcquire(a, k)
    PROVE  LocksOK'
<1>1. /\ Sets(a, k, lk[a][k].lock, "held") /\ lks' = lks /\ lk[a][k].st = "ref"
      /\ \A b \in Caller : ~Excludes(b, a, k)
  BY SetFacts, Zenon DEF LockAcquire, Uses
<1>2. /\ run[a].pc = "lock" /\ k \in run[a].want
      /\ \/ /\ \A j \in run[a].want : j = k \/ lk[a][j].st = "held"
            /\ Moves(a, "ask", run[a].ok, run[a].want, run[a].owed)
         \/ Moves(a, "lock", run[a].ok, run[a].want, run[a].owed)
  BY <1>1, LockMoves, Zenon DEF LocksOK, GripsOK, Uses
<1>3. /\ run'[a].op = run[a].op /\ run'[a].want = run[a].want
      /\ \/ run'[a].pc = "ask" /\ \A j \in run[a].want : j = k \/ lk[a][j].st = "held"
         \/ run'[a].pc = "lock"
      /\ \A b \in Caller \ {a} : run'[b] = run[b]
  BY <1>2 DEF Moves, With, CacheTypeOK
<1>4. MapOK'
  BY <1>1 DEF LocksOK, MapOK, Uses, Sets
<1>5. WritersAlone'
  <2> SUFFICES ASSUME NEW b \in Caller, NEW c \in Caller, NEW j \in Block,
                      b # c, lk'[b][j].lock = lk'[c][j].lock,
                      lk'[b][j].st \in {"held", "deref"}, lk'[c][j].st \in {"held", "deref"},
                      Writes(run'[b])
               PROVE  FALSE
    BY Zenon DEF WritersAlone, Uses, Writes
  <2>1. Writes(run[b])
    BY <1>3, Zenon DEF Writes
  <2>2. CASE j # k \/ (b # a /\ c # a)
    BY <2>2, <1>1, <2>1 DEF Sets, LocksOK, WritersAlone, Uses
  <2>3. CASE b = a /\ j = k
    BY <2>3, <1>1, <2>1, Zenon DEF Sets, Excludes, Uses
  <2>4. CASE c = a /\ j = k
    BY <2>4, <1>1, <2>1, Zenon DEF Sets, Excludes, Uses
  <2> QED
    BY <2>2, <2>3, <2>4, Zenon
<1>6. GripsOK'
  <2> SUFFICES ASSUME NEW b \in Caller, NEW j \in Block
               PROVE
        /\ lk'[b][j].st # "none" =>
              run'[b].pc \in {"lock", "ask", "note", "unlock"} /\ j \in run'[b].want
        /\ lk'[b][j].st = "ref" => run'[b].pc = "lock"
        /\ lk'[b][j].st = "deref" => run'[b].pc = "unlock"
        /\ run'[b].pc \in {"ask", "note"} /\ j \in run'[b].want => lk'[b][j].st = "held"
        /\ run'[b].pc = "lock" /\ lk'[b][j].st # "none" =>
              \A i \in run'[b].want : i < j => lk'[b][i].st = "held"
    BY DEF GripsOK, Uses
  <2>1. \A i \in run[b].want : run[b].pc = "lock" => i \in Block /\ i \in Nat
    BY InProgress, CallFacts, WorkloadAssumption, Zenon
  <2>2. CASE b # a
    BY <2>1, <2>2, <1>1, <1>3 DEF LocksOK, GripsOK, Uses, Sets
  <2>3. CASE b = a /\ j = k
    BY <2>1, <2>3, <1>1, <1>2, <1>3 DEF LocksOK, GripsOK, Uses, Sets
  <2>4. CASE b = a /\ j # k
    BY <2>4, <1>1, <1>2, <2>1, WorkloadAssumption, <1>3 DEF Sets, LocksOK, GripsOK, Uses
  <2> QED
    BY <2>2, <2>3, <2>4, Zenon
<1> QED
  BY <1>4, <1>5, <1>6, Zenon DEF LocksOK

\* The lock leaves the map with its last user that stays.
LEMMA DerefStep ==
    ASSUME CacheTypeOK, LocksOK, NEW a \in Caller, NEW k \in Block, UnlockDeref(a, k)
    PROVE  LocksOK'
<1>1. /\ Sets(a, k, lk[a][k].lock, "deref") /\ run' = run
      /\ run[a].pc = "unlock" /\ lk[a][k].st = "held" /\ lks \in [Block -> Lock \cup {0}]
  BY SetFacts, Zenon DEF UnlockDeref, Uses, CacheTypeOK
<1>2. lks' = [lks EXCEPT ![k] =
         IF \E b \in Caller \ {a} : lk[b][k].lock = lk[a][k].lock /\ Uses(b, k, {"ref", "held"})
         THEN lks[k] ELSE 0]
  BY Zenon DEF UnlockDeref
<1>3. MapOK'
  BY <1>1, <1>2 DEF MapOK, Uses, Sets, LocksOK
<1>4. WritersAlone'
  BY <1>1 DEF LocksOK, WritersAlone, Uses, Sets, Writes
<1>5. GripsOK'
  BY <1>1, InProgress, CallFacts DEF Sets, LocksOK, GripsOK, Uses
<1> QED
  BY <1>3, <1>4, <1>5, Zenon DEF LocksOK

\* The mutex is released; with its last one the call has no lock.
LEMMA ReleaseStep ==
    ASSUME CacheTypeOK, LocksOK, NEW a \in Caller, NEW k \in Block, UnlockRelease(a, k)
    PROVE  LocksOK'
<1>1. /\ Sets(a, k, 0, "none") /\ lks' = lks /\ lk[a][k].st = "deref"
      /\ run[a].pc = "unlock"
      /\ \/ run' = run
         \/ /\ \A j \in run[a].want : j = k \/ lk[a][j].st = "none"
            /\ Moves(a, After(run[a]), run[a].ok, run[a].want, run[a].owed)
  BY SetFacts, LockMoves, Zenon DEF UnlockRelease, Uses, LocksOK
<1>2. /\ run'[a].op = run[a].op /\ run'[a].want = run[a].want
      /\ \/ run'[a].pc = "unlock"
         \/ /\ run'[a].pc \in {"bloomadd", "end"}
            /\ \A j \in Block : j = k \/ lk[a][j].st = "none"
      /\ \A b \in Caller \ {a} : run'[b] = run[b]
  BY <1>1 DEF Moves, With, CacheTypeOK, After, LocksOK, GripsOK, Uses
<1>3. \A b \in Caller, j \in Block :
        \/ lk'[b][j] = lk[b][j] /\ (b # a \/ j # k)
        \/ b = a /\ j = k /\ lk'[b][j].st = "none"
  BY <1>1, Zenon DEF Sets
<1>4. MapOK'
  BY <1>1, <1>3 DEF LocksOK, MapOK, Uses
<1>5. WritersAlone'
  BY <1>2, <1>3 DEF LocksOK, WritersAlone, Uses, Writes
<1>6. GripsOK'
  BY InProgress, CallFacts, <1>1, <1>2, <1>3 DEF GripsOK, Uses, LocksOK
<1> QED
  BY <1>4, <1>5, <1>6, Zenon DEF LocksOK

\* Every step keeps the invariants of the locks.
LEMMA LocksStep ==
    ASSUME CacheTypeOK, LocksOK, CacheNext PROVE LocksOK'
<1>1. ASSUME NEW a \in Caller, NEW c \in program.calls, Start(a, c) PROVE LocksOK'
  BY <1>1, StartKeeps, LocksKept, Zenon DEF Start
<1>2. ASSUME NEW a \in Caller, NEW pc, NEW ok, NEW want, NEW owed,
             Moves(a, pc, ok, want, owed), UNCHANGED <<lk, lks>>,
             \/ run[a].pc \notin {"lock", "ask", "note", "unlock"} /\ pc \notin {"ask", "note"}
             \/ /\ want = run[a].want
                /\ run[a].pc \in {"ask", "note"} /\ pc \in {"note", "unlock"}
      PROVE  LocksOK'
  BY <1>2, LocksKept, Zenon DEF Moves, With, CacheTypeOK
<1>3. ASSUME NEW a \in Caller, Bloom(a) \/ QueryCache(a) PROVE LocksOK'
  BY <1>3, CallSteps, <1>2, Zenon DEF Bloom, QueryCache, After
<1>4. ASSUME NEW a \in Caller, Read(a) \/ ReadFails(a) \/ Change(a) \/ NoteInCache(a)
      PROVE  LocksOK'
  BY <1>4, CallSteps, <1>2, Zenon DEF Read, ReadFails, Change, NoteInCache
<1>5. ASSUME NEW a \in Caller, BloomAdd(a) PROVE LocksOK'
  BY <1>2, <1>5, CallSteps, Zenon DEF BloomAdd
<1>6. ASSUME NEW a \in Caller, Return(a) PROVE LocksOK'
  BY <1>6, LocksKept, Zenon DEF Return, Resting, CacheTypeOK
<1>7. ASSUME NEW a \in Caller, NEW k \in Block,
             LockRef(a, k) \/ LockAcquire(a, k) \/ UnlockDeref(a, k) \/ UnlockRelease(a, k)
      PROVE  LocksOK'
  BY <1>7, RefStep, AcquireStep, DerefStep, ReleaseStep, Zenon
<1>8. ASSUME (\E k \in Block : Evict(k) \/ BuildAdd(k)) \/ BuildStart \/ BuildEnd
      PROVE  LocksOK'
  BY <1>8, LocksKept, Zenon DEF Evict, BuildAdd, BuildStart, BuildEnd
<1> QED
  BY <1>1, <1>3, <1>4, <1>5, <1>6, <1>7, <1>8, Zenon DEF CacheNext

\* Whoever waits for a lock has those of smaller keys only: of a group of
\* goroutines, the one that waits for the largest key is waited for by nobody
\* that it waits for.
LEMMA NobodyInACircle ==
    ASSUME CacheTypeOK, LocksOK PROVE NoCircularWait
<1> SUFFICES ASSUME NEW S \in (SUBSET Caller) \ {{}},
                    \A a \in S : \E b \in S, k \in Block : Excludes(b, a, k)
             PROVE  FALSE
  BY Zenon DEF NoCircularWait
<1> DEFINE W == {k \in Block : \E a \in S : Uses(a, k, {"ref"})}
<1>1. ASSUME NEW a \in S, NEW k \in Block, NEW j \in Block,
             Uses(a, k, {"ref"}), ~Uses(a, j, {"none"}), j # k
      PROVE  j < k
  BY <1>1, WorkloadAssumption DEF LocksOK, GripsOK, Uses
<1>2. W \in SUBSET Block /\ W # {}
  BY Zenon DEF Excludes
<1>3. PICK m \in W : \A j \in W : j <= m
  BY <1>2, WorkloadAssumption, Zenon
<1>4. PICK a \in S : Uses(a, m, {"ref"})
  BY <1>3, Zenon
<1>5. PICK b \in S, k \in Block : Excludes(b, a, k)
  OBVIOUS
<1>6. k = m
  BY <1>5, <1>1, <1>3, <1>4, WorkloadAssumption DEF Excludes, Uses
<1>7. PICK c \in S, j \in Block : Excludes(c, b, j)
  OBVIOUS
<1>8. Uses(b, m, {"held", "deref"}) /\ Uses(b, j, {"ref"}) /\ m # j
  BY <1>5, <1>6, <1>7, Zenon DEF Excludes, Uses
<1>9. m < j /\ j <= m
  BY <1>1, <1>3, <1>8, Zenon DEF Uses
<1> QED
  BY <1>3, <1>9, WorkloadAssumption

-----------------------------------------------------------------------------
(* The answers and the cache.                                              *)

\* A step at which no call gets or notes an answer.
Quiet ==
    /\ stored' = stored /\ torn' = torn
    /\ \A k \in Block : arc'[k] \in {arc[k], "unknown"}
    /\ \A b \in Caller : run'[b].pc = "note" \/ run[b].pc = "note" =>
         /\ run'[b].pc = run[b].pc /\ run'[b].op = run[b].op
         /\ run'[b].want = run[b].want /\ run'[b].ok = run[b].ok

\* Only Read, Change and NoteInCache are not quiet.
LEMMA QuietSteps ==
    ASSUME CacheTypeOK, GripsOK, CacheNext,
           \A a \in Caller : ~Read(a) /\ ~Change(a) /\ ~NoteInCache(a)
    PROVE  Quiet
<1>1. ASSUME NEW a \in Caller, NEW c \in program.calls, Start(a, c) PROVE Quiet
  BY <1>1, StartKeeps, Zenon DEF Start, Quiet
<1>2. ASSUME NEW a \in Caller, NEW pc, NEW ok, NEW want, NEW owed,
             Moves(a, pc, ok, want, owed), UNCHANGED <<stored, torn, arc>>,
             run[a].pc # "note", pc # "note"
      PROVE  Quiet
  BY <1>2, Zenon DEF Moves, With, CacheTypeOK, Quiet
<1>3. ASSUME NEW a \in Caller, Bloom(a) \/ QueryCache(a) \/ ReadFails(a) \/ BloomAdd(a)
      PROVE  Quiet
  BY <1>3, CallSteps, <1>2, Zenon DEF Bloom, QueryCache, ReadFails, BloomAdd, After
<1>4. ASSUME NEW a \in Caller, Return(a) PROVE Quiet
  BY <1>4, Zenon DEF Return, Resting, CacheTypeOK, Quiet
<1>5. ASSUME NEW a \in Caller, NEW k \in Block,
             LockRef(a, k) \/ LockAcquire(a, k) \/ UnlockDeref(a, k) \/ UnlockRelease(a, k)
      PROVE  Quiet
  <2>1. UNCHANGED <<stored, torn, arc>>
    BY <1>5, Zenon DEF LockRef, LockAcquire, UnlockDeref, UnlockRelease
  <2>2. CASE run' = run
    BY <2>1, <2>2, Zenon DEF Quiet
  <2>3. CASE run' # run
    BY <1>5, <2>3, LockMoves, <2>1, <1>2, Zenon DEF LockRef, UnlockDeref, After
  <2> QED
    BY <2>2, <2>3, Zenon
<1>6. ASSUME (\E k \in Block : Evict(k) \/ BuildAdd(k)) \/ BuildStart \/ BuildEnd
      PROVE  Quiet
  BY <1>6, Zenon DEF Evict, BuildAdd, BuildStart, BuildEnd, Quiet, CacheTypeOK
<1> QED
  BY <1>1, <1>3, <1>4, <1>5, <1>6, Zenon DEF CacheNext

\* The key of a call for one key is its key.
LEMMA KeyFacts ==
    ASSUME NEW c \in Calls, c.op # "PutMany", NEW k \in c.keys
    PROVE  KeyOf(c) = k
BY DEF Calls, KeyOf

\* Quiet steps keep what is known of the answers and of the cache.
LEMMA ValuesKept ==
    ASSUME AnswersOK, TruthOK, Quiet PROVE AnswersOK' /\ TruthOK'
<1>1. AnswersOK'
  BY DEF Quiet, AnswersOK, Reads, Puts
<1>2. ASSUME NEW b \in Caller, NEW k, Corrects(b, k)
      PROVE  Corrects(b, k)' /\ run'[b].op = run[b].op
  BY <1>2, Zenon DEF Quiet, Corrects
<1>3. ASSUME NEW k \in Block, arc'[k] \in {"have", "size"}, k \notin stored'
      PROVE  \E b \in Caller : Corrects(b, k)' /\ run'[b].op = "Delete"
  BY <1>3, <1>2 DEF Quiet, TruthOK
<1>4. ASSUME NEW k \in Block, arc'[k] = "absent", k \in stored' \ torn'
      PROVE  \E b \in Caller : Corrects(b, k)' /\ Puts(run'[b])
  BY <1>4, <1>2, Zenon DEF Quiet, TruthOK, Puts
<1> QED
  BY <1>1, <1>3, <1>4, Zenon DEF TruthOK, Puts

\* While a call that writes has its locks no other call has them.
LEMMA NobodyElse ==
    ASSUME LocksOK, NEW a \in Caller, NEW b \in Caller, a # b,
           run[a].pc \in {"ask", "note"}, run[b].pc \in {"ask", "note"},
           Writes(run[a]), NEW k \in Block, k \in run[a].want
    PROVE  k \notin run[b].want
  BY DEF LocksOK, GripsOK, MapOK, Uses, WritersAlone

\* A call reads the datastore.
LEMMA ReadStep ==
    ASSUME CacheTypeOK, AnswersOK, TruthOK, NEW a \in Caller, Read(a)
    PROVE  AnswersOK' /\ TruthOK'
<1>1. /\ run[a].pc = "ask" /\ ~Writes(run[a]) /\ run[a] \in Calls
      /\ UNCHANGED <<stored, arc, torn>>
  BY InProgress, Zenon DEF Read
<1>2. Moves(a, "note", KeyOf(run[a]) \in stored, run[a].want, run[a].owed)
  BY CallSteps, Zenon
<1>3. /\ run'[a].pc = "note" /\ run'[a].op = run[a].op /\ run'[a].want = run[a].want
      /\ run'[a].ok = (KeyOf(run[a]) \in stored)
      /\ \A b \in Caller \ {a} : run'[b] = run[b]
  BY <1>2, Zenon DEF Moves, With, CacheTypeOK
<1>4. \A k \in run[a].want : k = KeyOf(run[a])
  BY <1>1, CallFacts, KeyFacts, Zenon DEF Writes
<1>5. AnswersOK'
  BY <1>1, <1>3, <1>4, ZenonT(30) DEF AnswersOK, Reads, Puts, Writes
<1>6. ASSUME NEW b \in Caller, NEW k, Corrects(b, k)
      PROVE  b # a /\ Corrects(b, k)' /\ run'[b].op = run[b].op
  BY <1>1, <1>3, <1>6, Zenon DEF Corrects
<1>7. TruthOK'
  BY <1>1, <1>6 DEF TruthOK, Puts
<1> QED
  BY <1>5, <1>7, Zenon

\* What a write does: it changes only keys that it has locked.
LEMMA ChangeFacts ==
    ASSUME CacheTypeOK, NEW a \in Caller, Change(a)
    PROVE  \E ok \in BOOLEAN, done \in SUBSET run[a].want :
        /\ run[a] \in Calls /\ run[a].pc = "ask" /\ Writes(run[a])
        /\ ok => done = run[a].want
        /\ stored' = IF run[a].op = "Delete" THEN stored \ done ELSE stored \cup done
        /\ torn' = IF run[a].op = "PutMany" /\ ~ok THEN torn \cup done ELSE torn
        /\ run'[a] = With(run[a], "note", ok, run[a].want, run[a].owed)
        /\ \A b \in Caller \ {a} : run'[b] = run[b]
<1>1. PICK ok \in BOOLEAN, done \in SUBSET run[a].want :
        /\ ok => done = run[a].want
        /\ stored' = IF run[a].op = "Delete" THEN stored \ done ELSE stored \cup done
        /\ run' = [run EXCEPT ![a].pc = "note", ![a].ok = ok]
        /\ torn' = IF run[a].op = "PutMany" /\ ~ok THEN torn \cup done ELSE torn
  BY Zenon DEF Change
<1>2. run[a].pc = "ask" /\ Writes(run[a]) /\ run[a] \in Calls
  BY InProgress, Zenon DEF Change
<1>3. Moves(a, "note", ok, run[a].want, run[a].owed)
  BY <1>1, <1>2, CallSteps, Zenon
<1>4. /\ run'[a] = With(run[a], "note", ok, run[a].want, run[a].owed)
      /\ \A b \in Caller \ {a} : run'[b] = run[b]
  BY <1>3, Zenon DEF Moves, CacheTypeOK
<1> QED
  BY <1>1, <1>2, <1>4, Zenon

\* A call changes the datastore: what the cache says of its keys may be wrong now.
LEMMA ChangeStep ==
    ASSUME CacheTypeOK, LocksOK, AnswersOK, TruthOK, NEW a \in Caller, Change(a)
    PROVE  AnswersOK' /\ TruthOK'
<1> DEFINE c == run[a]
<1>1. PICK ok \in BOOLEAN, done \in SUBSET c.want :
        /\ c \in Calls /\ c.pc = "ask" /\ Writes(c)
        /\ ok => done = c.want
        /\ stored' = IF c.op = "Delete" THEN stored \ done ELSE stored \cup done
        /\ torn' = IF c.op = "PutMany" /\ ~ok THEN torn \cup done ELSE torn
        /\ run'[a] = With(c, "note", ok, c.want, c.owed)
        /\ \A b \in Caller \ {a} : run'[b] = run[b]
  BY ChangeFacts, Zenon
<1>2. /\ run'[a].pc = "note" /\ run'[a].op = c.op /\ run'[a].want = c.want /\ run'[a].ok = ok
      /\ c.want \in SUBSET Block /\ arc' = arc
  <2>1. arc' = arc
    BY Zenon DEF Change
  <2>2. c.want \in SUBSET Block
    BY <1>1, CallFacts, Zenon
  <2> QED
    BY <1>1, <2>1, <2>2 DEF With
<1>3. AnswersOK'
  BY <1>1, <1>2, InProgress, CallFacts, NobodyElse DEF AnswersOK, Reads, Puts, Writes
<1>4. ASSUME NEW k \in Block, NEW b \in Caller, Corrects(b, k)
      PROVE  Corrects(b, k)' /\ run'[b].op = run[b].op
  BY <1>1, <1>4, Zenon DEF Corrects
<1>5. ASSUME NEW k \in c.want, c.op = "PutMany" => ok PROVE Corrects(a, k)'
  BY <1>2, <1>5, Zenon DEF Corrects
<1>6. ASSUME NEW k \in Block, arc'[k] \in {"have", "size"}, k \notin stored'
      PROVE  \E b \in Caller : Corrects(b, k)' /\ run'[b].op = "Delete"
  BY <1>1, <1>2, <1>5, <1>6, <1>4, Zenon DEF TruthOK
<1>7. ASSUME NEW k \in Block, arc'[k] = "absent", k \in stored' \ torn'
      PROVE  \E b \in Caller : Corrects(b, k)' /\ Puts(run'[b])
  BY <1>1, <1>2, <1>4, <1>7, <1>5 DEF TruthOK, Puts, Writes
<1> QED
  BY <1>3, <1>6, <1>7, Zenon DEF TruthOK, Puts

\* What Note says, by what the call has seen.
LEMMA NoteFacts ==
    ASSUME NEW c, c.op \in Op, c.ok \in BOOLEAN, NEW old
    PROVE  \/ Note(c, old) = old /\ c.op = "PutMany" /\ ~c.ok
           \/ Note(c, old) = "unknown"
           \/ Note(c, old) = "absent" /\ ((c.op = "Delete" /\ c.ok) \/ (Reads(c) /\ ~c.ok))
           \/ Note(c, old) \in {"have", "size"} /\ (Puts(c) \/ Reads(c)) /\ c.ok
BY DEF Note, Reads, Puts, Op, Writes

\* A call notes what it knows of its keys, which is the truth while it has
\* their locks.
LEMMA NoteStep ==
    ASSUME CacheTypeOK, AnswersOK, TruthOK, NEW a \in Caller, NoteInCache(a)
    PROVE  AnswersOK' /\ TruthOK'
<1> DEFINE c == run[a]
<1>1. /\ c.pc = "note" /\ c \in Calls /\ stored' = stored
      /\ arc' = [k \in Block |-> IF k \in c.want THEN Note(c, arc[k]) ELSE arc[k]]
      /\ torn' = IF c.op = "PutMany" /\ ~c.ok THEN torn ELSE torn \ c.want
  BY InProgress, Zenon DEF NoteInCache
<1>2. run'[a].pc = "unlock" /\ \A b \in Caller \ {a} : run'[b] = run[b]
  <2>1. Moves(a, "unlock", c.ok, c.want, c.owed)
    BY CallSteps, Zenon
  <2> QED
    BY <2>1, Zenon DEF Moves, With, CacheTypeOK
<1>3. AnswersOK'
  BY <1>1, <1>2, Zenon DEF AnswersOK, Reads, Puts
<1>4. ASSUME NEW k, NEW b \in Caller, b # a, Corrects(b, k)
      PROVE  Corrects(b, k)' /\ run'[b].op = run[b].op
  BY <1>2, <1>4, Zenon DEF Corrects
<1>5. c.op \in Op /\ c.ok \in BOOLEAN
  BY <1>1, CallFacts, Zenon
<1>6. ASSUME NEW k \in Block, arc'[k] \in {"have", "size"}, k \notin stored'
      PROVE  \E b \in Caller : Corrects(b, k)' /\ run'[b].op = "Delete"
  <2>1. k \in c.want => Note(c, arc[k]) = arc[k] /\ c.op = "PutMany"
    BY <1>1, <1>5, <1>6, NoteFacts, Zenon DEF AnswersOK, Reads, Puts
  <2>2. arc[k] \in {"have", "size"} /\ k \notin stored
    BY <2>1, <1>1, <1>6, Zenon
  <2>3. PICK b \in Caller : Corrects(b, k) /\ run[b].op = "Delete"
    BY <2>2, Zenon DEF TruthOK
  <2>4. b # a
    BY <2>1, <2>3, Zenon DEF Corrects
  <2> QED
    BY <2>3, <2>4, <1>4, Zenon
<1>7. ASSUME NEW k \in Block, arc'[k] = "absent", k \in stored' \ torn'
      PROVE  \E b \in Caller : Corrects(b, k)' /\ Puts(run'[b])
  <2>1. k \in c.want => Note(c, arc[k]) = arc[k] /\ c.op = "PutMany" /\ ~c.ok
    BY <1>1, <1>5, <1>7, NoteFacts, Zenon DEF AnswersOK, Reads, Puts
  <2>2. arc[k] = "absent" /\ k \in stored \ torn
    BY <2>1, <1>1, <1>7, Zenon
  <2>3. PICK b \in Caller : Corrects(b, k) /\ Puts(run[b])
    BY <2>2, Zenon DEF TruthOK
  <2>4. b # a
    BY <2>1, <2>3, Zenon DEF Corrects
  <2> QED
    BY <2>3, <2>4, <1>4, Zenon DEF Puts
<1> QED
  BY <1>3, <1>6, <1>7, Zenon DEF TruthOK, Puts

\* Every step keeps the invariants of the answers and of the cache.
LEMMA ValuesStep ==
    ASSUME CacheTypeOK, LocksOK, AnswersOK, TruthOK, CacheNext
    PROVE  AnswersOK' /\ TruthOK'
  BY QuietSteps, ValuesKept, ReadStep, ChangeStep, NoteStep, Zenon DEF LocksOK

-----------------------------------------------------------------------------
(* What is owed.                                                           *)

\* The invariant of one call.
OwedOf(a) ==
    run[a] # Resting =>
        /\ run[a].op # "Delete" => \A k \in run[a].owed : ~Deleting(k)
        /\ Reads(run[a]) => \A k \in run[a].owed : Sure(k) /\ Listed(k)
        /\ Reads(run[a]) /\ run[a].pc \in {"note", "unlock", "end"} /\ ~run[a].ok =>
              run[a].owed = {}
        /\ Puts(run[a]) /\ run[a].ok =>
              /\ \A k \in run[a].owed \cap Settling(run[a]) : Sure(k)
              /\ run[a].pc = "end" /\ program.filter => run[a].owed \subseteq bloom

\* Every step starts a call, ends one, moves one, or leaves them alone.
LEMMA StepKinds ==
    ASSUME CacheTypeOK, GripsOK, CacheNext
    PROVE  \/ \E a \in Caller, c \in program.calls : Start(a, c)
           \/ \E a \in Caller : Return(a)
           \/ run' = run
           \/ \E a \in Caller : \E pc, ok, want, owed : Moves(a, pc, ok, want, owed)
<1>1. ASSUME NEW a \in Caller,
             \/ Bloom(a) \/ QueryCache(a) \/ Read(a) \/ ReadFails(a) \/ Change(a)
             \/ NoteInCache(a) \/ BloomAdd(a)
      PROVE  \E pc, ok, want, owed : Moves(a, pc, ok, want, owed)
  BY <1>1, CallSteps, Zenon DEF Change
<1>2. ASSUME NEW a \in Caller, NEW k \in Block, LockAcquire(a, k) \/ UnlockRelease(a, k)
      PROVE  run' = run \/ \E pc, ok, want, owed : Moves(a, pc, ok, want, owed)
  BY <1>2, LockMoves, Zenon
<1>3. ASSUME \/ \E a \in Caller, k \in Block : LockRef(a, k) \/ UnlockDeref(a, k)
             \/ \E k \in Block : Evict(k) \/ BuildAdd(k)
             \/ BuildStart \/ BuildEnd
      PROVE  run' = run
  BY <1>3, Zenon DEF LockRef, UnlockDeref, Evict, BuildAdd, BuildStart, BuildEnd
<1> QED
  BY <1>1, <1>2, <1>3, Zenon DEF CacheNext

\* A key is being deleted only once a Delete of it has started.
LEMMA NotDeleting ==
    ASSUME CacheTypeOK, GripsOK, CacheNext, NEW k, ~Deleting(k)
    PROVE  \/ ~Deleting(k)'
           \/ \E a \in Caller, c \in program.calls :
                 Start(a, c) /\ c.op = "Delete" /\ k \in c.keys
<1>1. ASSUME NEW a \in Caller, NEW c \in program.calls, Start(a, c), Deleting(k)'
      PROVE  c.op = "Delete" /\ k \in c.keys
  <2>1. PICK b \in Caller : run'[b].op = "Delete" /\ k \in run'[b].keys
    BY <1>1, Zenon DEF Deleting
  <2>2. CASE b = a
    <3>1. run'[b] = Started(c)
      BY <2>2, <1>1, StartFacts, Zenon
    <3> QED
      BY <2>1, <3>1 DEF Started
  <2>3. CASE b # a
    <3>1. \/ run'[b] = run[b]
          \/ run'[b] = With(run[b], run[b].pc, run[b].ok, run[b].want, run[b].owed \ c.keys)
      BY <2>3, <1>1, StartFacts, Zenon
    <3>2. run[b].op = "Delete" /\ k \in run[b].keys
      BY <2>1, <3>1 DEF With
    <3> QED
      BY <3>2, Zenon DEF Deleting
  <2> QED
    BY <2>2, <2>3, Zenon
<1>2. ASSUME NEW a \in Caller, Return(a) PROVE ~Deleting(k)'
  BY <1>2, Zenon DEF Return, Resting, Deleting, CacheTypeOK
<1>3. ASSUME run' = run PROVE ~Deleting(k)'
  BY <1>3, Zenon DEF Deleting
<1>4. ASSUME NEW a \in Caller, NEW pc, NEW ok, NEW want, NEW owed, Moves(a, pc, ok, want, owed)
      PROVE  ~Deleting(k)'
  BY <1>4, Zenon DEF Moves, With, CacheTypeOK, Deleting
<1> QED
  BY <1>1, <1>2, <1>3, <1>4, StepKinds, Zenon

\* What is in the datastore for sure stays there unless it is being deleted.
LEMMA SureStays ==
    ASSUME CacheTypeOK, GripsOK, AnswersOK, CacheNext, NEW k \in Block, Sure(k), ~Deleting(k)
    PROVE  Sure(k)'
<1>1. ASSUME Quiet PROVE Sure(k)'
  BY <1>1, Zenon DEF Quiet, Sure
<1>2. ASSUME NEW a \in Caller, Read(a) PROVE Sure(k)'
  BY <1>2, Zenon DEF Read, Sure
<1>3. ASSUME NEW a \in Caller, Change(a) PROVE Sure(k)'
  <2>1. PICK done \in SUBSET run[a].want :
          /\ run[a] \in Calls
          /\ stored' = IF run[a].op = "Delete" THEN stored \ done ELSE stored \cup done
    BY <1>3, ChangeFacts, Zenon
  <2>2. run[a].op = "Delete" => k \notin done
    BY <2>1, CallFacts, Zenon DEF Deleting
  <2>3. arc' = arc
    BY <1>3, Zenon DEF Change
  <2> QED
    BY <2>1, <2>2, <2>3, Zenon DEF Sure
<1>4. ASSUME NEW a \in Caller, NoteInCache(a) PROVE Sure(k)'
  BY <1>4, InProgress, CallFacts, NoteFacts, Zenon DEF NoteInCache, Deleting, AnswersOK,
     Sure
<1> QED
  BY <1>1, <1>2, <1>3, <1>4, QuietSteps, Zenon

\* The filter: whether the build has ended, and what it left out.
LEMMA FilterStep ==
    ASSUME CacheTypeOK, FilterOK, CacheNext
    PROVE  /\ FilterOK' /\ program' = program /\ bloom \subseteq bloom'
           /\ \A k \in stored : Listed(k) => Listed(k)'
<1>1. ASSUME UNCHANGED <<program, bloom, build, blind>>
      PROVE  /\ FilterOK' /\ program' = program /\ bloom \subseteq bloom'
             /\ \A k \in stored : Listed(k) => Listed(k)'
  BY <1>1, Zenon DEF FilterOK, Listed
<1>2. ASSUME NEW a \in Caller, BloomAdd(a)
      PROVE  /\ FilterOK' /\ program' = program /\ bloom \subseteq bloom'
             /\ \A k \in stored : Listed(k) => Listed(k)'
  BY <1>2, Zenon DEF BloomAdd, FilterOK, Listed
<1>3. ASSUME NEW j \in Block, BuildAdd(j)
      PROVE  /\ FilterOK' /\ program' = program /\ bloom \subseteq bloom'
             /\ \A k \in stored : Listed(k) => Listed(k)'
  BY <1>3, Zenon DEF BuildAdd, CacheTypeOK, FilterOK, Listed
<1>4. ASSUME BuildStart
      PROVE  /\ FilterOK' /\ program' = program /\ bloom \subseteq bloom'
             /\ \A k \in stored : Listed(k) => Listed(k)'
  BY <1>4, Zenon DEF BuildStart, FilterOK, Listed
<1>5. ASSUME BuildEnd
      PROVE  /\ FilterOK' /\ program' = program /\ bloom \subseteq bloom'
             /\ \A k \in stored : Listed(k) => Listed(k)'
  BY <1>5, Zenon DEF BuildEnd, CacheTypeOK, FilterOK, Listed
<1>6. ASSUME \/ \E a \in Caller, c \in program.calls : Start(a, c)
             \/ \E a \in Caller : \/ Bloom(a) \/ QueryCache(a) \/ Read(a) \/ ReadFails(a)
                                  \/ Change(a) \/ NoteInCache(a) \/ Return(a)
             \/ \E a \in Caller, k \in Block : \/ LockRef(a, k) \/ LockAcquire(a, k)
                                               \/ UnlockDeref(a, k) \/ UnlockRelease(a, k)
             \/ \E k \in Block : Evict(k)
      PROVE  UNCHANGED <<program, bloom, build, blind>>
  BY <1>6, Zenon DEF Start, Bloom, QueryCache, Read, ReadFails, Change, NoteInCache, Return,
     LockRef, LockAcquire, UnlockDeref, UnlockRelease, Evict
<1> QED
  BY <1>1, <1>2, <1>3, <1>4, <1>5, <1>6, Zenon DEF CacheNext

\* A call that the step leaves alone.
LEMMA OwedElsewhere ==
    ASSUME CacheTypeOK, GripsOK, AnswersOK, FilterOK, CacheNext,
           \A a \in Caller, c \in program.calls : ~Start(a, c),
           NEW b \in Caller, OwedOf(b), run'[b] = run[b]
    PROVE  OwedOf(b)'
<1> SUFFICES ASSUME run[b] # Resting PROVE OwedOf(b)'
  BY ZenonT(30) DEF OwedOf
<1>1. run[b].owed \in SUBSET Block
  BY CallFacts, Zenon DEF CacheTypeOK
<1>2. \A k \in run[b].owed : ~Deleting(k) => ~Deleting(k)'
  BY NotDeleting, Zenon
<1>3. \A k \in run[b].owed : ~Deleting(k) /\ Sure(k) => Sure(k)' /\ (Listed(k) => Listed(k)')
  BY <1>1, SureStays, FilterStep, Zenon DEF Sure
<1>4. program' = program /\ bloom \subseteq bloom'
  BY FilterStep, Zenon
<1> QED
  BY <1>2, <1>3, <1>4, Zenon DEF OwedOf, Reads, Puts, Settling

\* A call that moves: what must be shown of the move.
LEMMA OwedMoves ==
    ASSUME CacheTypeOK, GripsOK, AnswersOK, FilterOK, CacheNext,
           \A b \in Caller, c \in program.calls : ~Start(b, c),
           NEW a \in Caller, OwedOf(a), NEW pc, NEW ok, NEW want, NEW owed,
           Moves(a, pc, ok, want, owed), owed \subseteq run[a].owed,
           Reads(run[a]) /\ pc \in {"note", "unlock", "end"} /\ ~ok => owed = {},
           Puts(run[a]) /\ ok =>
              /\ run[a].ok
              /\ \A k \in owed \cap Settling(With(run[a], pc, ok, want, owed)) :
                    k \in Settling(run[a]) \/ Sure(k)'
              /\ pc = "end" /\ program.filter => owed \subseteq bloom'
    PROVE  OwedOf(a)'
<1> DEFINE d == With(run[a], pc, ok, want, owed)
<1>1. /\ run'[a] = d /\ run[a] \in Calls /\ run[a] # Resting
      /\ d.op = run[a].op /\ d.pc = pc /\ d.ok = ok /\ d.owed = owed
  BY CallFacts, Zenon DEF Moves, With, CacheTypeOK
<1>2. run[a].owed \in SUBSET Block
  BY <1>1, CallFacts, ZenonT(30)
<1>3. \A k \in run[a].owed : ~Deleting(k) => ~Deleting(k)'
  BY NotDeleting, Zenon
<1>4. \A k \in run[a].owed : ~Deleting(k) /\ Sure(k) => Sure(k)' /\ (Listed(k) => Listed(k)')
  BY <1>2, SureStays, FilterStep, Zenon DEF Sure
<1>5. program' = program
  BY FilterStep, SMTT(30)
<1>6. /\ (run[a].op # "Delete") => \A k \in run[a].owed : ~Deleting(k)
      /\ Reads(run[a]) => \A k \in run[a].owed : Sure(k) /\ Listed(k)
      /\ Puts(run[a]) /\ run[a].ok => \A k \in run[a].owed \cap Settling(run[a]) : Sure(k)
  BY <1>1, ZenonT(30) DEF OwedOf
<1>7. (Reads(d) <=> Reads(run[a])) /\ (Puts(d) <=> Puts(run[a]))
  BY <1>1, ZenonT(30) DEF Reads, Puts
<1> HIDE DEF d
<1>8. (run'[a].op # "Delete") => \A k \in run'[a].owed : ~Deleting(k)'
  BY <1>1, <1>3, <1>6, ZenonT(30)
<1>9. Reads(run'[a]) => \A k \in run'[a].owed : Sure(k)' /\ Listed(k)'
  BY <1>1, <1>4, <1>6, <1>7, ZenonT(30) DEF Reads
<1>10. Puts(run'[a]) /\ run'[a].ok => \A k \in run'[a].owed \cap Settling(run'[a]) : Sure(k)'
  <2> SUFFICES ASSUME Puts(run[a]), ok, NEW k \in owed, k \in Settling(d) PROVE Sure(k)'
    BY <1>1, <1>7, Zenon
  <2>1. ~Deleting(k) /\ run[a].ok
    BY <1>6, Zenon DEF Puts
  <2>2. k \in Settling(run[a]) \/ Sure(k)'
    BY Zenon DEF d
  <2> QED
    BY <2>1, <2>2, <1>4, <1>6, ZenonT(30)
<1> QED
  BY <1>1, <1>5, <1>7, <1>8, <1>9, <1>10, ZenonT(30) DEF OwedOf, Reads, Puts, Settling

\* The steps of a call that is looked up in the filter and in the cache.
LEMMA OwedLookup ==
    ASSUME CacheTypeOK, GripsOK, AnswersOK, TruthOK, FilterOK, CacheNext,
           \A b \in Caller, c \in program.calls : ~Start(b, c),
           NEW a \in Caller, OwedOf(a), Bloom(a) \/ QueryCache(a)
    PROVE  OwedOf(a)'
<1> DEFINE c == run[a]
<1>1. /\ c \in Calls /\ c.ok /\ c.pc \in {"bloom", "arc"} /\ c # Resting
      /\ UNCHANGED <<program, stored, arc, build, blind, bloom>>
      /\ Puts(c) => c.pc = "arc"
  BY InProgress, CallFacts, Zenon DEF Bloom, QueryCache, Calls
<1>2. ASSUME Reads(c), NEW k \in c.owed
      PROVE  KeyOf(c) = k /\ Sure(k) /\ Listed(k)
  BY <1>1, <1>2, CallFacts, KeyFacts DEF OwedOf, Reads
<1>3. CASE Bloom(a)
  <2>1. CASE Moves(a, "arc", c.ok, c.want, c.owed)
    BY <2>1, <1>1, OwedMoves, ZenonT(30) DEF Settling, With
  <2>2. CASE /\ build.active /\ KeyOf(c) \notin bloom
             /\ Moves(a, "end", c.op = "Delete", c.want, c.owed \ blind)
    BY <2>2, <1>2, <1>1, <1>3, OwedMoves DEF Listed, FilterOK, Bloom
  <2> QED
    BY <1>3, <2>1, <2>2, CallSteps, Zenon
<1>4. CASE QueryCache(a)
  <2> DEFINE left == {k \in c.keys : ~Settled(c.op, arc[k])}
  <2>1. ASSUME Puts(c), NEW k \in c.owed, k \notin left PROVE Sure(k)'
    BY <2>1, <1>1, CallFacts, InProgress, Zenon DEF OwedOf, Puts, Settled, Corrects,
       Deleting, TruthOK, Sure
  <2>2. CASE left # {} /\ Moves(a, "lock", c.ok, left, c.owed)
    BY <2>1, <2>2, <1>1, OwedMoves, Zenon DEF Settling, With
  <2>3. CASE left = {} /\ Writes(c) /\ Moves(a, After(c), c.ok, c.want, c.owed)
    BY <2>3, <1>1, <2>1, OwedMoves, Zenon DEF Writes, Reads, After, Puts
  <2>4. CASE /\ left = {} /\ ~Writes(c)
             /\ Moves(a, "end", arc[KeyOf(c)] # "absent", c.want, c.owed)
    BY <1>2, <2>4, OwedMoves, Zenon DEF Sure, Writes, Puts
  <2> QED
    BY <1>4, <2>2, <2>3, <2>4, CallSteps, Zenon
<1> QED
  BY <1>3, <1>4, Zenon

\* The steps of a call that has its locks, and of one that adds to the filter.
LEMMA OwedDatastore ==
    ASSUME CacheTypeOK, GripsOK, AnswersOK, FilterOK, CacheNext,
           \A b \in Caller, c \in program.calls : ~Start(b, c),
           NEW a \in Caller, OwedOf(a),
           Read(a) \/ ReadFails(a) \/ Change(a) \/ NoteInCache(a) \/ BloomAdd(a)
    PROVE  OwedOf(a)'
<1> DEFINE c == run[a]
<1>1. /\ c \in Calls /\ c # Resting /\ (c.pc \in {"ask", "bloomadd"} => c.ok)
      /\ c.pc = "bloomadd" => Puts(c)
  BY InProgress, CallFacts, Zenon DEF Read, ReadFails, Change, NoteInCache, BloomAdd, Calls
<1>2. CASE Read(a)
  <2>1. Moves(a, "note", KeyOf(c) \in stored, c.want, c.owed)
    BY <1>2, CallSteps, Zenon
  <2>2. ~Puts(c) /\ c.op # "PutMany"
    BY <1>2, Zenon DEF Read, Writes, Puts
  <2>3. Reads(c) => \A k \in c.owed : KeyOf(c) = k /\ k \in stored
    BY <2>2, <1>1, CallFacts, KeyFacts, ZenonT(30) DEF OwedOf, Sure
  <2> QED
    BY <2>1, <2>2, <2>3, OwedMoves, Zenon
<1>3. CASE ReadFails(a)
  <2>1. PICK ok : Moves(a, "unlock", ok, c.want, {})
    BY <1>3, CallSteps, Zenon
  <2>2. {} \subseteq c.owed /\ ~Puts(c)
    BY <1>3, Zenon DEF ReadFails, Writes, Puts
  <2> QED
    BY <2>1, <2>2, OwedMoves
<1>4. CASE Change(a)
  <2>1. PICK ok \in BOOLEAN : c.pc = "ask" /\ Writes(c) /\ Moves(a, "note", ok, c.want, c.owed)
    BY <1>4, CallSteps, Zenon DEF Change
  <2>2. Settling(With(c, "note", ok, c.want, c.owed)) = Settling(c) /\ ~Reads(c)
    BY <2>1, Zenon DEF Settling, With, Writes, Reads
  <2> QED
    BY <2>1, <2>2, <1>1, OwedMoves, Zenon
<1>5. CASE NoteInCache(a)
  <2>1. Moves(a, "unlock", c.ok, c.want, c.owed) /\ c.pc = "note" /\ stored' = stored
    BY <1>5, CallSteps, Zenon DEF NoteInCache
  <2>2. ASSUME NEW k \in c.owed PROVE k \in c.keys /\ k \in Block
    BY <1>1, CallFacts, SMTT(30)
  <2>3. ASSUME Puts(c), c.ok, NEW k \in c.owed, k \notin Settling(c) PROVE Sure(k)'
    BY <2>1, <2>2, <2>3, <1>5, <1>1, CallFacts, NoteFacts, Zenon DEF Settling, AnswersOK,
       NoteInCache, Puts, Sure
  <2>4. Reads(c) /\ ~c.ok => c.owed = {}
    BY <2>1, <1>1, ZenonT(30) DEF OwedOf
  <2> QED
    BY <2>1, <2>3, <2>4, OwedMoves, Zenon
<1>6. CASE BloomAdd(a)
  BY <1>6, CallSteps, <1>1, CallFacts, OwedMoves, Zenon DEF BloomAdd, Settling, With, Puts,
     Reads
<1> QED
  BY <1>2, <1>3, <1>4, <1>5, <1>6, Zenon

\* The steps that take and give back a lock.
LEMMA OwedLocks ==
    ASSUME CacheTypeOK, GripsOK, AnswersOK, FilterOK, CacheNext,
           \A b \in Caller, c \in program.calls : ~Start(b, c),
           NEW a \in Caller, OwedOf(a), NEW k \in Block,
           LockAcquire(a, k) \/ UnlockRelease(a, k)
    PROVE  OwedOf(a)'
<1> DEFINE c == run[a]
<1>1. CASE run' = run
  BY <1>1, OwedElsewhere, Zenon
<1>2. CASE LockAcquire(a, k)
  <2>1. c.pc = "lock" /\ \E pc \in {"ask", "lock"} : Moves(a, pc, c.ok, c.want, c.owed)
    BY <1>2, LockMoves, Zenon
  <2>2. PICK pc \in {"ask", "lock"} : Moves(a, pc, c.ok, c.want, c.owed)
    BY <2>1, Zenon
  <2>3. Settling(With(c, pc, c.ok, c.want, c.owed)) = Settling(c)
    BY <2>1, ZenonT(30) DEF Settling, With
  <2> QED
    BY <2>2, <2>3, OwedMoves, Zenon
<1>3. CASE UnlockRelease(a, k) /\ run' # run
  <2>1. c.pc = "unlock" /\ Moves(a, After(c), c.ok, c.want, c.owed)
    BY <1>3, LockMoves, Zenon
  <2>2. After(c) \in {"bloomadd", "end"} /\ (Puts(c) /\ c.ok /\ program.filter => After(c) # "end")
    BY Zenon DEF After, Puts
  <2>3. Settling(With(c, After(c), c.ok, c.want, c.owed)) = Settling(c)
    BY <2>1, <2>2, ZenonT(30) DEF Settling, With
  <2>4. Reads(c) /\ ~c.ok => c.owed = {}
    BY <2>1 DEF OwedOf, Resting
  <2> QED
    BY <2>1, <2>2, <2>3, <2>4, OwedMoves, Zenon
<1> QED
  BY <1>1, <1>2, <1>3, Zenon

\* A call starts: a reader is owed what is acknowledged, a Put what nobody
\* deletes; a Delete takes its keys from the others.
LEMMA OwedStart ==
    ASSUME CacheTypeOK, GripsOK, AckedOK, OwedOK,
           NEW a \in Caller, NEW c \in program.calls, Start(a, c), CacheNext
    PROVE  OwedOK' /\ AckedOK'
<1>1. /\ UNCHANGED <<program, stored, arc, bloom, build, blind>>
      /\ acked' = IF c.op = "Delete" THEN acked \ c.keys ELSE acked
  BY Zenon DEF Start
<1>2. ASSUME NEW k, ~Deleting(k), ~(c.op = "Delete" /\ k \in c.keys) PROVE ~Deleting(k)'
  <2> SUFFICES ASSUME NEW b \in Caller, run'[b].op = "Delete", k \in run'[b].keys PROVE FALSE
    BY Zenon DEF Deleting
  <2>1. CASE b = a
    <3>1. run'[b] = Started(c)
      BY <2>1, StartFacts, Zenon
    <3> QED
      BY <3>1, <1>2 DEF Started
  <2>2. CASE b # a
    <3>1. \/ run'[b] = run[b]
          \/ run'[b] = With(run[b], run[b].pc, run[b].ok, run[b].want, run[b].owed \ c.keys)
      BY <2>2, StartFacts, Zenon
    <3>2. run[b].op = "Delete" /\ k \in run[b].keys
      BY <3>1 DEF With
    <3> QED
      BY <3>2, <1>2, Zenon DEF Deleting
  <2> QED
    BY <2>1, <2>2, Zenon
<1>3. \A k : (Sure(k) <=> Sure(k)') /\ (Listed(k) <=> Listed(k)')
  BY <1>1, Zenon DEF Sure, Listed
<1>4. AckedOK'
  BY <1>1, <1>2, <1>3, Zenon DEF AckedOK
<1>5. ASSUME NEW b \in Caller PROVE OwedOf(b)'
  <2>1. CASE b = a
    <3>1. run'[b] = Started(c) /\ c.op \in Op
      BY <2>1, StartFacts, Zenon
    <3>2. /\ run'[b].op = c.op /\ run'[b].pc \in {"arc", "bloom"}
          /\ Reads(c) => run'[b].owed \subseteq acked
          /\ Puts(c) => \A k \in run'[b].owed : ~Deleting(k)
      BY <3>1, SMTT(30) DEF Started, Reads, Puts, Deleting
    <3>3. \A k \in run'[b].owed : c.op # "Delete" => ~Deleting(k)'
      BY <3>1, <3>2, <1>2, Zenon DEF AckedOK, Op, Reads, Puts
    <3>4. Reads(c) => \A k \in run'[b].owed : Sure(k)' /\ Listed(k)'
      BY <3>2, <1>3, Zenon DEF AckedOK
    <3> QED
      BY <3>2, <3>3, <3>4, Zenon DEF OwedOf, Reads, Puts, Settling
  <2>2. CASE b # a /\ run'[b] = run[b] /\ (run[b] = Resting \/ c.op # "Delete")
    BY <2>2, <1>1, <1>2, <1>3, Zenon DEF OwedOK, OwedOf, Reads, Puts, Settling
  <2>3. CASE /\ b # a /\ run[b] \in Calls /\ run[b] # Resting /\ c.op = "Delete"
             /\ run'[b] = With(run[b], run[b].pc, run[b].ok, run[b].want, run[b].owed \ c.keys)
    BY <2>3, <1>1, <1>2, <1>3 DEF With, Settling, OwedOK, OwedOf, Reads, Puts
  <2>4. \/ b = a
        \/ run'[b] = run[b] /\ (run[b] = Resting \/ c.op # "Delete")
        \/ /\ run[b] \in Calls /\ run[b] # Resting /\ c.op = "Delete"
           /\ run'[b] = With(run[b], run[b].pc, run[b].ok, run[b].want, run[b].owed \ c.keys)
    BY StartFacts, Zenon
  <2> QED
    BY <2>1, <2>2, <2>3, <2>4, Zenon
<1>6. OwedOK'
  BY <1>5, Zenon DEF OwedOK, OwedOf
<1> QED
  BY <1>4, <1>6, Zenon

\* Every other step.
LEMMA OwedStep ==
    ASSUME CacheTypeOK, LocksOK, AnswersOK, TruthOK, FilterOK, AckedOK, OwedOK, CacheNext
    PROVE  OwedOK' /\ AckedOK'
<1>1. CASE \E a \in Caller, c \in program.calls : Start(a, c)
  BY <1>1, OwedStart, Zenon DEF LocksOK
<1>2. CASE \A a \in Caller, c \in program.calls : ~Start(a, c)
  <2>1. \A b \in Caller : OwedOf(b)
    BY Zenon DEF OwedOK, OwedOf
  <2>2. GripsOK
    BY Zenon DEF LocksOK
  <2>3. ASSUME NEW b \in Caller, run'[b] # run[b] PROVE OwedOf(b)'
    <3>1. CASE Return(b)
      BY <3>1, Zenon DEF Return, CacheTypeOK, OwedOf
    <3>2. CASE Bloom(b) \/ QueryCache(b)
      BY <2>1, <2>2, <3>2, <1>2, OwedLookup, Zenon
    <3>3. CASE Read(b) \/ ReadFails(b) \/ Change(b) \/ NoteInCache(b) \/ BloomAdd(b)
      BY <2>1, <2>2, <3>3, <1>2, OwedDatastore, Zenon
    <3>4. CASE \E k \in Block : LockAcquire(b, k) \/ UnlockRelease(b, k)
      BY <2>1, <2>2, <3>4, <1>2, OwedLocks, Zenon
    <3>5. ASSUME NEW a \in Caller, b # a,
                 \/ Return(a) \/ \E pc, ok, want, owed : Moves(a, pc, ok, want, owed)
          PROVE  FALSE
      BY <2>3, <3>5 DEF Return, Moves, CacheTypeOK
    <3>6. ASSUME NEW a \in Caller,
                 \/ Return(a) \/ Bloom(a) \/ QueryCache(a) \/ Read(a) \/ ReadFails(a)
                 \/ Change(a) \/ NoteInCache(a) \/ BloomAdd(a)
          PROVE  a = b
      BY <3>5, <3>6, CallSteps, Zenon DEF Change
    <3>7. ASSUME NEW a \in Caller, NEW k \in Block, LockAcquire(a, k) \/ UnlockRelease(a, k)
          PROVE  a = b
      BY <2>3, <2>2, <3>5, <3>7, LockMoves, Zenon
    <3>8. ASSUME \/ \E a \in Caller, k \in Block : LockRef(a, k) \/ UnlockDeref(a, k)
                 \/ \E k \in Block : Evict(k) \/ BuildAdd(k)
                 \/ BuildStart \/ BuildEnd
          PROVE  FALSE
      BY <2>3, <3>8, Zenon DEF LockRef, UnlockDeref, Evict, BuildAdd, BuildStart, BuildEnd
    <3> QED
      BY <3>1, <3>2, <3>3, <3>4, <3>6, <3>7, <3>8, <1>2, ZenonT(30) DEF CacheNext
  <2>4. \A b \in Caller : OwedOf(b)'
    BY <2>1, <2>2, <2>3, <1>2, OwedElsewhere, Zenon
  <2>5. OwedOK'
    BY <2>4, Zenon DEF OwedOK, OwedOf
  <2>6. ASSUME NEW k \in acked PROVE Sure(k)' /\ ~Deleting(k)' /\ Listed(k)'
    <3>1. k \in Block /\ Sure(k) /\ ~Deleting(k) /\ Listed(k)
      BY Zenon DEF AckedOK, CacheTypeOK
    <3> QED
      BY <2>2, <3>1, <1>2, SureStays, NotDeleting, FilterStep, Zenon DEF Sure
  <2>7. ASSUME NEW a \in Caller, Return(a), Puts(run[a]), run[a].ok, NEW k \in run[a].owed
        PROVE  Sure(k)' /\ ~Deleting(k)' /\ Listed(k)'
    <3>1. /\ run[a] \in Calls /\ run[a].pc = "end" /\ run[a] # Resting
          /\ UNCHANGED <<stored, arc, build, bloom, blind, program>>
      BY <2>7, InProgress, CallFacts, Zenon DEF Return
    <3>2. k \in Settling(run[a])
      BY <2>7, <3>1, CallFacts, Zenon DEF Settling
    <3>3. Sure(k) /\ ~Deleting(k) /\ (program.filter => k \in bloom)
      BY <2>1, <2>7, <3>1, <3>2, SMTT(30) DEF OwedOf, Puts
    <3>4. ~Deleting(k)'
      BY <2>2, <3>3, <1>2, NotDeleting, SMTT(30)
    <3> QED
      BY <3>1, <3>3, <3>4, Zenon DEF Sure, Listed, FilterOK
  <2>8. acked' = acked \/ \E a \in Caller : Return(a)
    <3>1. ASSUME NEW a \in Caller,
                 \/ Bloom(a) \/ QueryCache(a) \/ Read(a) \/ ReadFails(a) \/ Change(a)
                 \/ NoteInCache(a) \/ BloomAdd(a)
          PROVE  acked' = acked
      BY <3>1, Zenon DEF Bloom, QueryCache, Read, ReadFails, Change, NoteInCache, BloomAdd
    <3>2. ASSUME NEW a \in Caller, NEW k \in Block,
                 LockRef(a, k) \/ LockAcquire(a, k) \/ UnlockDeref(a, k) \/ UnlockRelease(a, k)
          PROVE  acked' = acked
      BY <3>2, Zenon DEF LockRef, LockAcquire, UnlockDeref, UnlockRelease
    <3>3. ASSUME (\E k \in Block : Evict(k) \/ BuildAdd(k)) \/ BuildStart \/ BuildEnd
          PROVE  acked' = acked
      BY <3>3, Zenon DEF Evict, BuildAdd, BuildStart, BuildEnd
    <3> QED
      BY <3>1, <3>2, <3>3, <1>2, Zenon DEF CacheNext
  <2>9. ASSUME NEW a \in Caller, Return(a)
        PROVE  acked' = acked \/ (Puts(run[a]) /\ run[a].ok /\ acked' = acked \cup run[a].owed)
    BY <2>9, Zenon DEF Return, Puts
  <2>10. AckedOK'
    BY <2>6, <2>7, <2>8, <2>9, Zenon DEF AckedOK
  <2> QED
    BY <2>5, <2>10, Zenon
<1> QED
  BY <1>1, <1>2, Zenon

-----------------------------------------------------------------------------
(* The theorems.                                                           *)

\* The invariant holds at the start.
LEMMA CacheInitInv ==
    CacheInit => CacheInv
<1> SUFFICES ASSUME CacheInit PROVE CacheInv
  OBVIOUS
<1>1. /\ \A a \in Caller : run[a] = Resting /\ run[a].pc = "rest" /\ run[a].op = "none"
      /\ \A a \in Caller, k \in Block : lk[a][k].st = "none"
  BY Zenon DEF CacheInit, Resting, NoLock
<1>2. stored \in SUBSET Block
  BY WorkloadAssumption DEF CacheInit
<1>3. CacheTypeOK
  BY <1>2, Zenon DEF CacheInit, CacheTypeOK
<1>4. MapOK /\ WritersAlone /\ GripsOK /\ AnswersOK
  BY <1>1, Zenon DEF MapOK, WritersAlone, GripsOK, AnswersOK, Uses
<1>5. TruthOK /\ FilterOK
  BY Zenon DEF CacheInit, TruthOK, FilterOK
<1>6. AckedOK /\ OwedOK
  BY <1>1, <1>2, Zenon DEF CacheInit, Deleting, AckedOK, OwedOK, Sure, Listed
<1> QED
  BY <1>3, <1>4, <1>5, <1>6, Zenon DEF CacheInv

\* CacheInv is an invariant of the cached blockstore, for any keys, goroutines
\* and programs: locks, cache, filter and calls agree in every state.
THEOREM CacheInvariance ==
    CacheSpec => []CacheInv
<1>1. CacheInv /\ [CacheNext]_cacheVars => CacheInv'
  <2> SUFFICES ASSUME CacheInv, [CacheNext]_cacheVars PROVE CacheInv'
    OBVIOUS
  <2>1. CASE CacheNext
    BY <2>1, TypeStep, LocksStep, ValuesStep, FilterStep, OwedStep, Zenon DEF CacheInv,
       LocksOK
  <2>2. CASE UNCHANGED cacheVars
    <3>1. /\ program' = program /\ stored' = stored /\ arc' = arc /\ lks' = lks /\ bloom' = bloom
          /\ build' = build /\ run' = run /\ lk' = lk /\ acked' = acked /\ torn' = torn
          /\ blind' = blind
      BY <2>2, Zenon DEF cacheVars
    <3>2. /\ CacheTypeOK /\ MapOK /\ WritersAlone /\ GripsOK /\ AnswersOK
          /\ TruthOK /\ FilterOK /\ AckedOK /\ OwedOK
      BY Zenon DEF CacheInv
    <3>3. CacheTypeOK'
      BY <3>1, <3>2, Zenon DEF CacheTypeOK
    <3>4. MapOK' /\ WritersAlone'
      BY <3>1, <3>2 DEF MapOK, WritersAlone, Uses
    <3>5. GripsOK'
      BY <3>1, <3>2 DEF GripsOK, Uses
    <3>6. AnswersOK' /\ TruthOK' /\ FilterOK'
      BY <3>1, <3>2 DEF AnswersOK, TruthOK, FilterOK, Corrects
    <3>7. AckedOK' /\ OwedOK'
      BY <3>1, <3>2 DEF AckedOK, OwedOK, Sure, Listed, Deleting
    <3> QED
      BY <3>3, <3>4, <3>5, <3>6, <3>7, Zenon DEF CacheInv
  <2> QED
    BY <2>1, <2>2, Zenon
<1> QED
  BY <1>1, CacheInitInv, PTL DEF CacheSpec

\* What the existence cache says of a key is so, except while the call that
\* changed the key has not noted it, and for keys a failed PutMany stored.
THEOREM CacheIsTruthful ==
    CacheSpec => []CacheTruthful
<1>1. CacheInv => CacheTruthful
  BY Zenon DEF CacheInv, TruthOK, CacheTruthful, Corrects, Writes, Puts
<1> QED
  BY <1>1, CacheInvariance, PTL

\* A block is found by every call that starts after its Put has returned, as
\* long as no Delete of it starts, whatever the filter and the cache do.
THEOREM StoredBlocksAreFound ==
    CacheSpec => []StoredIsFound
<1>1. CacheInv => StoredIsFound
  BY DEF CacheInv, OwedOK, StoredIsFound, Reads, Resting
<1> QED
  BY <1>1, CacheInvariance, PTL

\* No group of goroutines waits for locks that only its members hold: PutMany
\* takes its locks in the order of the keys.
THEOREM LocksAreOrdered ==
    CacheSpec => []NoCircularWait
<1>1. CacheInv => NoCircularWait
  BY NobodyInACircle, Zenon DEF CacheInv, LocksOK
<1> QED
  BY <1>1, CacheInvariance, PTL

==============================================================================
