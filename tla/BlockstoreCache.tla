-------------------------- MODULE BlockstoreCache --------------------------
(***************************************************************************)
(* The cached blockstore: a Bloom filter (blockstore/bloom_cache.go) over  *)
(* the existence cache with its lock per key (blockstore/arc_cache.go)     *)
(* over the datastore (blockstore/blockstore.go).                          *)
(*                                                                         *)
(* Calls look in the filter and in the cache without a lock, and take the  *)
(* key's lock only to ask or change the datastore.  A lock is made when it *)
(* is first asked for and dropped from the map with its last user.  The    *)
(* filter is filled in the background from a listing of the datastore.     *)
(* Writes may fail, having had an effect or not.                           *)
(***************************************************************************)
EXTENDS Naturals, FiniteSets

CONSTANTS
    Block,      \* the keys, numbered in the order in which PutMany sorts them
    Caller,     \* goroutines
    Workload    \* the programs: the calls [op, keys] one makes, and whether it
                \* has configured a filter (CachedBlockstore)

\* Only PutMany is called with more than one key.  Of the keys of a call there
\* is always a last one.
ASSUME WorkloadAssumption ==
    /\ Block \subseteq Nat /\ IsFiniteSet(Caller)
    /\ \A K \in SUBSET Block : K # {} => \E k \in K : \A j \in K : j <= k
    /\ Workload \subseteq
         [calls : SUBSET [op : {"Has", "Get", "GetSize", "Put", "PutMany", "Delete"},
                          keys : (SUBSET Block) \ {{}}],
          filter : BOOLEAN]
    /\ \A p \in Workload : \A c \in p.calls : c.op = "PutMany" \/ \E k \in Block : c.keys = {k}

VARIABLES
    program,
    stored,     \* the keys in the datastore
    arc,        \* what the cache says of a key
    lks,        \* the lock in the map for a key, 0 for none
    bloom,      \* the keys added to the filter
    build,      \* the background build of the filter
    run,        \* the call of each goroutine
    lk,         \* the locks each goroutine uses
    acked,      \* history: stored for a caller, and no Delete since
    torn,       \* history: keys a failed batch has stored
    blind       \* history: keys a listing that failed has left out

cacheVars == <<program, stored, arc, lks, bloom, build, run, lk, acked, torn, blind>>

Lock == 1..Cardinality(Caller)
NoLock == [lock |-> 0, st |-> "none"]
Resting == [op |-> "none", pc |-> "rest"]

Writes(c) == c.op \in {"Put", "PutMany", "Delete"}

\* The key of a call for one key.
KeyOf(c) == CHOOSE k \in c.keys : TRUE

-----------------------------------------------------------------------------
(* Starting and ending a call.                                             *)

\* A Delete that starts ends what was owed for its keys.
Start(a, c) ==
    LET deleting == UNION {run[b].keys : b \in {b \in Caller : run[b].op = "Delete"}}
    IN /\ run[a] = Resting
       /\ run' = [b \in Caller |->
            IF b = a THEN [op |-> c.op, keys |-> c.keys, want |-> c.keys, ok |-> TRUE,
                           pc |-> IF c.op \in {"Put", "PutMany"} THEN "arc" ELSE "bloom",
                           owed |-> IF c.op \in {"Put", "PutMany"}
                                    THEN c.keys \ deleting ELSE c.keys \cap acked]
            ELSE IF c.op = "Delete" /\ run[b] # Resting
                 THEN [run[b] EXCEPT !.owed = @ \ c.keys]
            ELSE run[b]]
       /\ acked' = IF c.op = "Delete" THEN acked \ c.keys ELSE acked
       /\ UNCHANGED <<program, stored, arc, lks, bloom, build, lk, torn, blind>>

Goto(a, pc) == run' = [run EXCEPT ![a].pc = pc]
Answer(a, found) == run' = [run EXCEPT ![a].pc = "end", ![a].ok = found]

\* A call ends; a Put that succeeded vouches for its blocks.
Return(a) ==
    /\ run[a].pc = "end"
    /\ acked' = IF run[a].op \in {"Put", "PutMany"} /\ run[a].ok
                THEN acked \cup run[a].owed ELSE acked
    /\ run' = [run EXCEPT ![a] = Resting]
    /\ UNCHANGED <<program, stored, arc, lks, bloom, build, lk, torn, blind>>

-----------------------------------------------------------------------------
(* The filter and the cache, without a lock.                               *)

\* Mutant: the filter is believed while it is being filled.
BloomUnfilled(a) ==
    /\ run[a].pc = "bloom"
    /\ \/ Goto(a, "arc")
       \/ /\ build.begun /\ KeyOf(run[a]) \notin bloom
          /\ run' = [run EXCEPT ![a].pc = "end", ![a].ok = run[a].op = "Delete"]
    /\ UNCHANGED <<program, stored, arc, lks, bloom, build, lk, acked, torn, blind>>

\* hasCached of the filter: only a miss of the filled filter is conclusive,
\* and a key that was never added may seem to be there.
Bloom(a) ==
    /\ run[a].pc = "bloom"
    /\ \/ Goto(a, "arc")
       \/ /\ build.active /\ KeyOf(run[a]) \notin bloom
          /\ run' = [run EXCEPT ![a].pc = "end", ![a].ok = run[a].op = "Delete",
                                ![a].owed = run[a].owed \ blind]
    /\ UNCHANGED <<program, stored, arc, lks, bloom, build, lk, acked, torn, blind>>

\* queryCache, and what each call does with a conclusive answer.
Settled(op, entry) ==
    CASE op = "Has" -> entry # "unknown"
      [] op = "GetSize" -> entry \in {"absent", "size"}
      [] op \in {"Get", "Delete"} -> entry = "absent"
      [] OTHER -> entry \in {"have", "size"}

\* Where a call goes whose work is done: a Put still goes to the filter.
After(c) ==
    IF c.op \in {"Put", "PutMany"} /\ c.ok /\ program.filter THEN "bloomadd" ELSE "end"

QueryCache(a) ==
    LET c == run[a]
        left == {k \in c.keys : ~Settled(c.op, arc[k])}
    IN /\ c.pc = "arc"
       /\ IF left # {} THEN run' = [run EXCEPT ![a].pc = "lock", ![a].want = left]
          ELSE IF Writes(c) THEN Goto(a, After(c))
          ELSE Answer(a, arc[KeyOf(c)] # "absent")
       /\ UNCHANGED <<program, stored, arc, lks, bloom, build, lk, acked, torn, blind>>

-----------------------------------------------------------------------------
(* The locks.                                                              *)

Uses(a, k, st) == lk[a][k].st \in st

\* Mutant: PutMany takes its locks in any order.
MayLockUnsorted(a, k) == Uses(a, k, {"none"})

\* PutMany sorts its keys: a lock is taken after those of the smaller keys.
MayLock(a, k) ==
    Uses(a, k, {"none"}) /\ \A j \in run[a].want : j < k => Uses(a, j, {"held"})

\* lock: find or make the key's lock and count this user, under lklk.
LockRef(a, k) ==
    /\ run[a].pc = "lock" /\ k \in run[a].want
    /\ \A j \in run[a].want : ~Uses(a, j, {"ref"})
    /\ MayLock(a, k)
    /\ \E n \in Lock :
         /\ IF lks[k] # 0 THEN n = lks[k] ELSE \A b \in Caller : lk[b][k].lock # n
         /\ lks' = [lks EXCEPT ![k] = n]
         /\ lk' = [lk EXCEPT ![a][k] = [lock |-> n, st |-> "ref"]]
    /\ UNCHANGED <<program, stored, arc, bloom, build, run, acked, torn, blind>>

\* b holds the mutex that a waits for, in a way that excludes a.
Excludes(b, a, k) ==
    /\ b # a /\ Uses(a, k, {"ref"}) /\ Uses(b, k, {"held", "deref"})
    /\ lk[b][k].lock = lk[a][k].lock
    /\ Writes(run[a]) \/ Writes(run[b])

LockAcquire(a, k) ==
    /\ Uses(a, k, {"ref"}) /\ \A b \in Caller : ~Excludes(b, a, k)
    /\ lk' = [lk EXCEPT ![a][k].st = "held"]
    /\ Goto(a, IF \A j \in run[a].want : j = k \/ Uses(a, j, {"held"})
               THEN "ask" ELSE "lock")
    /\ UNCHANGED <<program, stored, arc, lks, bloom, build, acked, torn, blind>>

\* unlock: the last user drops the lock from the map, under lklk ...
UnlockDeref(a, k) ==
    /\ run[a].pc = "unlock" /\ Uses(a, k, {"held"})
    /\ lk' = [lk EXCEPT ![a][k].st = "deref"]
    /\ lks' = [lks EXCEPT ![k] =
         IF \E b \in Caller \ {a} : lk[b][k].lock = lk[a][k].lock /\ Uses(b, k, {"ref", "held"})
         THEN @ ELSE 0]
    /\ UNCHANGED <<program, stored, arc, bloom, build, run, acked, torn, blind>>

\* ... and releases the mutex afterwards.
UnlockRelease(a, k) ==
    /\ Uses(a, k, {"deref"})
    /\ lk' = [lk EXCEPT ![a][k] = NoLock]
    /\ IF \E j \in run[a].want : j # k /\ ~Uses(a, j, {"none"})
       THEN UNCHANGED run ELSE Goto(a, After(run[a]))
    /\ UNCHANGED <<program, stored, arc, lks, bloom, build, acked, torn, blind>>

-----------------------------------------------------------------------------
(* The datastore and the cache, with the lock.                             *)

\* Has, Get, GetSize and View of the datastore.
Read(a) ==
    /\ run[a].pc = "ask" /\ ~Writes(run[a])
    /\ run' = [run EXCEPT ![a].pc = "note", ![a].ok = KeyOf(run[a]) \in stored]
    /\ UNCHANGED <<program, stored, arc, lks, bloom, build, lk, acked, torn, blind>>

\* The datastore returns an error, and so does the call: it denies nothing.
ReadFails(a) ==
    /\ run[a].pc = "ask" /\ ~Writes(run[a])
    /\ run' = [run EXCEPT ![a].pc = "unlock", ![a].ok = FALSE, ![a].owed = {}]
    /\ UNCHANGED <<program, stored, arc, lks, bloom, build, lk, acked, torn, blind>>

\* Put, the commit of PutMany, or DeleteBlock.  One that fails may have had
\* its effect; of a batch, on any of its keys.
Change(a) ==
    LET c == run[a]
        effect(done) == IF c.op = "Delete" THEN stored \ done ELSE stored \cup done
    IN /\ c.pc = "ask" /\ Writes(c)
       /\ \E done \in SUBSET c.want, ok \in BOOLEAN :
            /\ ok => done = c.want
            /\ stored' = effect(done)
            /\ run' = [run EXCEPT ![a].pc = "note", ![a].ok = ok]
            /\ torn' = IF c.op = "PutMany" /\ ~ok THEN torn \cup done ELSE torn
       /\ UNCHANGED <<program, arc, lks, bloom, build, lk, acked, blind>>

\* Mutant: Has notes that the key is there before it looks at the answer.
NoteHaveAlways(c, old) ==
    CASE ~c.ok /\ c.op = "PutMany" -> old
      [] ~c.ok /\ c.op \in {"Put", "Delete"} -> "unknown"
      [] ~c.ok /\ c.op \in {"Get", "GetSize"} -> "absent"
      [] c.op = "Has" -> "have"
      [] c.ok /\ c.op = "Delete" -> "absent"
      [] OTHER -> "size"

\* What the call notes in the cache.  PutMany that failed leaves it alone.
Note(c, old) ==
    CASE ~c.ok /\ c.op = "PutMany" -> old
      [] ~c.ok /\ c.op \in {"Put", "Delete"} -> "unknown"
      [] ~c.ok /\ ~Writes(c) -> "absent"
      [] c.ok /\ c.op = "Delete" -> "absent"
      [] c.ok /\ c.op = "Has" -> "have"
      [] OTHER -> "size"

NoteInCache(a) ==
    /\ run[a].pc = "note"
    /\ arc' = [k \in Block |-> IF k \in run[a].want THEN Note(run[a], arc[k]) ELSE arc[k]]
    /\ torn' = IF run[a].op = "PutMany" /\ ~run[a].ok THEN torn ELSE torn \ run[a].want
    /\ Goto(a, "unlock")
    /\ UNCHANGED <<program, stored, lks, bloom, build, lk, acked, blind>>

\* The cache is of limited size.
Evict(k) ==
    /\ arc[k] # "unknown"
    /\ arc' = [arc EXCEPT ![k] = "unknown"]
    /\ UNCHANGED <<program, stored, lks, bloom, build, run, lk, acked, torn, blind>>

-----------------------------------------------------------------------------
(* The filter.                                                             *)

\* Put and PutMany, after they succeeded, whether the build is done or not.
BloomAdd(a) ==
    /\ run[a].pc = "bloomadd"
    /\ bloom' = bloom \cup run[a].keys
    /\ blind' = blind \ run[a].keys
    /\ Goto(a, "end")
    /\ UNCHANGED <<program, stored, arc, lks, build, lk, acked, torn>>

\* build: the listing starts ...
BuildStart ==
    /\ program.filter /\ ~build.begun
    /\ build' = [active |-> FALSE, begun |-> TRUE, todo |-> stored]
    /\ UNCHANGED <<program, stored, arc, lks, bloom, run, lk, acked, torn, blind>>

\* ... goes on ...
BuildAdd(k) ==
    /\ k \in build.todo
    /\ bloom' = bloom \cup {k}
    /\ build' = [build EXCEPT !.todo = @ \ {k}]
    /\ UNCHANGED <<program, stored, arc, lks, run, lk, acked, torn, blind>>

\* ... and ends.  AllKeysChan closes its channel when the listing fails, too,
\* and the build cannot tell.
BuildEnd ==
    /\ build.begun /\ ~build.active
    /\ blind' = build.todo \ bloom
    /\ build' = [build EXCEPT !.active = TRUE, !.todo = {}]
    /\ UNCHANGED <<program, stored, arc, lks, bloom, run, lk, acked, torn>>

-----------------------------------------------------------------------------
CacheInit ==
    /\ program \in Workload
    /\ stored \in SUBSET UNION {c.keys : c \in program.calls} /\ acked = stored
    /\ arc = [k \in Block |-> "unknown"] /\ lks = [k \in Block |-> 0]
    /\ bloom = {} /\ build = [active |-> FALSE, begun |-> FALSE, todo |-> {}]
    /\ run = [a \in Caller |-> Resting]
    /\ lk = [a \in Caller |-> [k \in Block |-> NoLock]]
    /\ torn = {} /\ blind = {}

CacheNext ==
    \/ \E a \in Caller :
         \/ \E c \in program.calls : Start(a, c)
         \/ Bloom(a) \/ QueryCache(a) \/ Read(a) \/ ReadFails(a) \/ Change(a) \/ NoteInCache(a)
         \/ BloomAdd(a) \/ Return(a)
         \/ \E k \in Block : \/ LockRef(a, k) \/ LockAcquire(a, k)
                             \/ UnlockDeref(a, k) \/ UnlockRelease(a, k)
    \/ \E k \in Block : Evict(k) \/ BuildAdd(k)
    \/ BuildStart \/ BuildEnd

CacheSpec == CacheInit /\ [][CacheNext]_cacheVars

-----------------------------------------------------------------------------
(* Properties.                                                             *)

\* "When ok is true, exists carries the correct answer": what the cache says
\* of a key is so, except while a call that holds the key's lock has changed
\* the datastore and not yet noted it, and for keys that a failed PutMany has
\* stored: it does not invalidate its entries.
CacheTruthful ==
    \A k \in Block :
        (\A a \in Caller : ~(run[a].pc = "note" /\ Writes(run[a]) /\ k \in run[a].want)) =>
            /\ arc[k] \in {"have", "size"} => k \in stored
            /\ arc[k] = "absent" => k \notin stored \ torn

\* A block is found by every call that starts after its Put has returned,
\* however the filter is being filled and the cache changed, as long as no
\* Delete of it starts; except for blocks that the listing left out when it
\* failed, which the filter denies from then on.
StoredIsFound ==
    \A a \in Caller :
        run[a].pc = "end" /\ run[a].op \in {"Has", "Get", "GetSize"} /\ ~run[a].ok =>
            run[a].owed = {}

\* However many goroutines use PutMany on overlapping keys, and others Put,
\* Delete and read them, no group of them waits for locks that only members
\* of the group hold.
NoCircularWait ==
    \A S \in (SUBSET Caller) \ {{}} :
        \E a \in S : \A b \in S, k \in Block : ~Excludes(b, a, k)
=============================================================================
