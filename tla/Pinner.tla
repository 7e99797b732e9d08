------------------------------- MODULE Pinner -------------------------------
(***************************************************************************)
(* The datastore pinner (pinning/pinner/dspinner/pin.go with               *)
(* pinning/pinner/dsindex/indexer.go).                                     *)
(*                                                                         *)
(* A pin is a record and an entry in the index of its mode, written one    *)
(* after the other; whether a CID is pinned is read from the indexes.  A   *)
(* dirty flag is on disk while writes are under way, and New rebuilds the  *)
(* indexes from the records when it finds the flag set.  Calls hold the    *)
(* pinner's lock while they write, and release it while they fetch a       *)
(* graph.  The program may stop between any two writes, and a write may    *)
(* fail.                                                                   *)
(*                                                                         *)
(* The datastore keeps writes in order: what a restart finds is what was   *)
(* there at some moment since the last Sync.  `durable' holds those        *)
(* moments.  Pins have no names here: no caller gives one.                 *)
(***************************************************************************)
EXTENDS Naturals, Sequences

CONSTANTS
    Cid,
    Client,                 \* goroutines that call the pinner
    MaxPins,                \* bound on the pins added
    SyncRepairFrequency,    \* pins checked between two syncs of a rebuild
    MaxFaults               \* bound on restarts and failed writes

ASSUME PinnerAssumption ==
    SyncRepairFrequency \in Nat \ {0} /\ MaxFaults \in Nat /\ MaxPins \in Nat

\* type pin.  Its identifier is drawn at random, hence never used before: the
\* identifiers are numbered as they are drawn.  The index entry of a pin names
\* its CID, its identifier and, by the index it is in, its mode: it is the pin
\* again.
Pin == [id : Nat \ {0}, cid : Cid, mode : {"recursive", "direct"}]

\* The datastore: the pin records, the entries of both indexes, the dirty flag.
Store == [recs : SUBSET Pin, idx : SUBSET Pin, flag : BOOLEAN]

VARIABLES
    store,      \* the datastore as the running program sees it
    durable,    \* what a restart may find
    dirty, clean, autoSync,     \* the fields of the pinner
    call,       \* the call each client is in
    phase,      \* "rebuilding" while New is, "running" after
    unread,     \* the records a rebuild has not come to
    checked,    \* checkedCount
    used,       \* history: how many identifiers were drawn
    faults,     \* history: restarts and failed writes
    unsaved,    \* history: writes are under way without the dirty flag
    spoiled,    \* history: pins left between their two writes by a failure
    unchecked,  \* history: records a rebuild cut short had not repaired
    doubled,    \* history: CIDs Update pinned although they were pinned
    promised    \* history: CIDs pinned at the last flush and not taken back

pinnerVars == <<store, durable, dirty, clean, autoSync, call, phase, unread,
                checked, used, faults, unsaved, spoiled, unchecked, doubled,
                promised>>
histories == <<used, faults, unsaved, spoiled, unchecked, doubled, promised>>

Idle == [at |-> "idle"]

Fault == faults < MaxFaults /\ faults' = faults + 1

-----------------------------------------------------------------------------
(* The indexes, the flag and the flush.                                    *)

HasAny(mode, c) == \E x \in store.idx : x.mode = mode /\ x.cid = c

\* The pins removePinsForCid finds for a CID, in any order.
PinsFor(modes, c) == {x \in store.idx : x.cid = c /\ x.mode \in modes}

\* (No set of pins has more than MaxPins members: each drew an identifier.)
Orders(S) == {s \in UNION {[1..n -> S] : n \in 0..MaxPins} :
                /\ \A i \in DOMAIN s, j \in DOMAIN s : s[i] = s[j] => i = j
                /\ S = {s[i] : i \in DOMAIN s}}

\* A write that the datastore has taken, but not yet made durable.
Put(s) == store' = s /\ durable' = durable \cup {s}

\* Sync, after a write or without one.
Sync(s) == store' = s /\ durable' = {s}

\* setDirty saves the flag if the state was clean, and goes on if it cannot
\* sync it, or cannot write it.
setDirty(calls) ==
    /\ dirty' = dirty + calls
    /\ \/ /\ dirty = clean
          /\ Sync([store EXCEPT !.flag = TRUE])
          /\ UNCHANGED <<unsaved, faults>>
       \/ /\ dirty = clean /\ Fault
          /\ Put([store EXCEPT !.flag = TRUE])
          /\ UNCHANGED unsaved
       \/ /\ dirty = clean /\ Fault /\ unsaved' = TRUE
          /\ UNCHANGED <<store, durable>>
       \/ /\ dirty # clean
          /\ UNCHANGED <<store, durable, unsaved, faults>>

\* Mutant: the flag is cleared, but what it vouches for is not synced.
flushWithoutSync ==
    /\ Put([store EXCEPT !.flag = FALSE])
    /\ clean' = dirty /\ unsaved' = FALSE
    /\ promised' = {x.cid : x \in store.idx}

\* flushPins: sync everything, and then setClean.
flushPins ==
    /\ Sync([store EXCEPT !.flag = IF dirty # clean THEN FALSE ELSE @])
    /\ clean' = dirty /\ unsaved' = FALSE
    /\ promised' = {x.cid : x \in store.idx}

\* flushPins, when setClean cannot write the flag, or cannot sync it: that is
\* only logged.  In the second case the flag is clear, but the pinner goes on
\* as if it were set.
flushNotCleaned ==
    /\ Fault /\ dirty # clean
    /\ promised' = {x.cid : x \in store.idx}
    /\ UNCHANGED clean
    /\ \/ Sync(store) /\ UNCHANGED unsaved
       \/ LET s == [store EXCEPT !.flag = FALSE]
          IN store' = s /\ durable' = {store, s} /\ unsaved' = TRUE

-----------------------------------------------------------------------------
(* The calls.  A call that may write computes, under the lock, the pins it *)
(* adds and removes, and writes them one after the other.                  *)

Locked == \E w \in Client : call[w].at = "writing"

Ready(w, at) == phase = "running" /\ ~Locked /\ call[w].at = at

Drop(ps) == [i \in DOMAIN ps |-> [do |-> "remove", pin |-> ps[i]]]

AddPin(c, mode) ==
    <<[do |-> "add", pin |-> [id |-> used + 1, cid |-> c, mode |-> mode]]>>

\* Take the lock and start with setDirty.  What is about to be taken away is
\* no longer promised.
StartWrites(w, todo, from, to) ==
    /\ used' = IF \E i \in DOMAIN todo : todo[i].do = "add" THEN used + 1 ELSE used
    /\ used' <= MaxPins
    /\ setDirty(Len(todo))
    /\ call' = [call EXCEPT ![w] = [at |-> "writing", todo |-> todo, half |-> FALSE,
                                    from |-> from, to |-> to]]
    /\ promised' = promised \ {todo[i].pin.cid :
                                 i \in {i \in DOMAIN todo : todo[i].do = "remove"}}
    /\ UNCHANGED <<clean, autoSync, phase, unread, checked, spoiled, unchecked>>

\* The end of doPinRecursive: a direct pin gives way to the recursive one.
PinRecursively(w, c) ==
    \E ps \in Orders(PinsFor({"direct"}, c)) :
        StartWrites(w, Drop(ps) \o AddPin(c, "recursive"), {}, {})

\* PinWithMode, which does not fetch.
PinWithMode(w, c) ==
    /\ Ready(w, "idle") /\ ~HasAny("recursive", c)
    /\ PinRecursively(w, c)
    /\ UNCHANGED doubled

\* Pin: the lock is released to fetch the graph.
PinRecursive(w, c) ==
    /\ Ready(w, "idle") /\ ~HasAny("recursive", c)
    /\ call' = [call EXCEPT ![w] = [at |-> "fetching", cid |-> c, before |-> dirty]]
    /\ UNCHANGED <<store, durable, dirty, clean, autoSync, phase, unread, checked,
                   histories>>

\* Mutant: what was looked up before the fetch is not looked up again.
FetchedNoSecondLook(w) ==
    /\ Ready(w, "fetching")
    /\ PinRecursively(w, call[w].cid)
    /\ UNCHANGED doubled

\* The graph is here: look again if anything has changed.
Fetched(w) ==
    /\ Ready(w, "fetching")
    /\ IF dirty # call[w].before /\ HasAny("recursive", call[w].cid)
       THEN /\ call' = [call EXCEPT ![w] = Idle]
            /\ UNCHANGED <<store, durable, dirty, clean, autoSync, phase, unread,
                           checked, histories>>
       ELSE PinRecursively(w, call[w].cid) /\ UNCHANGED doubled

PinDirect(w, c) ==
    /\ Ready(w, "idle") /\ ~HasAny("recursive", c)
    /\ StartWrites(w, AddPin(c, "direct"), {}, {})
    /\ UNCHANGED doubled

Unpin(w, c, recursive) ==
    /\ Ready(w, "idle")
    /\ IF HasAny("recursive", c) THEN recursive ELSE HasAny("direct", c)
    /\ \E ps \in Orders(PinsFor({"recursive", "direct"}, c)) :
         StartWrites(w, Drop(ps), {}, {})
    /\ UNCHANGED doubled

\* Update: the lock is released to fetch the difference of the two graphs.
Update(w, from, to, unpin) ==
    /\ Ready(w, "idle")
    /\ from # to /\ HasAny("recursive", from) /\ ~HasAny("recursive", to)
    /\ call' = [call EXCEPT ![w] = [at |-> "diffing", from |-> from, to |-> to,
                                    unpin |-> unpin]]
    /\ UNCHANGED <<store, durable, dirty, clean, autoSync, phase, unread, checked,
                   histories>>

\* The difference is here; nothing is looked up again.
Diffed(w) ==
    LET old == IF call[w].unpin THEN PinsFor({"recursive"}, call[w].from) ELSE {}
    IN /\ Ready(w, "diffing")
       /\ \E ps \in Orders(old) :
            StartWrites(w, AddPin(call[w].to, "recursive") \o Drop(ps),
                        {x.cid : x \in old} \cap promised, {call[w].to})
       /\ doubled' = IF HasAny("recursive", call[w].to)
                     THEN doubled \cup {call[w].to} ELSE doubled

\* The graph, or the difference, cannot be fetched or synced.
FetchFails(w) ==
    /\ Ready(w, "fetching") \/ Ready(w, "diffing")
    /\ call' = [call EXCEPT ![w] = Idle]
    /\ UNCHANGED <<store, durable, dirty, clean, autoSync, phase, unread, checked,
                   histories>>

\* Mutant: the record goes before its index entry.
halfDoneSwapped(s, step) ==
    IF step.do = "add" THEN [s EXCEPT !.recs = @ \cup {step.pin}]
                       ELSE [s EXCEPT !.recs = @ \ {step.pin}]

\* The first write of addPin and of removePin, and the second.
halfDone(s, step) ==
    IF step.do = "add" THEN [s EXCEPT !.recs = @ \cup {step.pin}]
                       ELSE [s EXCEPT !.idx = @ \ {step.pin}]
allDone(s, step) ==
    IF step.do = "add" THEN [s EXCEPT !.idx = @ \cup {step.pin}]
                       ELSE [s EXCEPT !.recs = @ \ {step.pin}, !.idx = @ \ {step.pin}]

Writing(w) == call[w].at = "writing" /\ call[w].todo # <<>>

\* A write of addPin or removePin.
Write(w) ==
    /\ Writing(w)
    /\ LET step == Head(call[w].todo)
       IN IF call[w].half
          THEN /\ Put(allDone(store, step))
               /\ call' = [call EXCEPT ![w] = [@ EXCEPT !.half = FALSE,
                                                        !.todo = Tail(call[w].todo)]]
               /\ UNCHANGED spoiled
          ELSE /\ Put(halfDone(store, step))
               /\ call' = [call EXCEPT ![w] = [@ EXCEPT !.half = TRUE]]
               /\ spoiled' = IF unsaved THEN spoiled \cup {step.pin} ELSE spoiled
    /\ UNCHANGED <<dirty, clean, autoSync, phase, unread, checked, used, faults,
                   unsaved, unchecked, doubled, promised>>

\* The write fails and the call returns the error.
WriteFails(w) ==
    /\ Writing(w) /\ Fault
    /\ spoiled' = IF call[w].half THEN spoiled \cup {Head(call[w].todo).pin} ELSE spoiled
    /\ call' = [call EXCEPT ![w] = Idle]
    /\ UNCHANGED <<store, durable, dirty, clean, autoSync, phase, unread, checked,
                   used, unsaved, unchecked, doubled, promised>>

\* The flush at the end of a call, if autoSync is on.
Finish(w) ==
    /\ call[w].at = "writing" /\ call[w].todo = <<>>
    /\ \/ autoSync /\ flushPins /\ UNCHANGED faults
       \/ autoSync /\ flushNotCleaned
       \/ /\ autoSync /\ Fault
          /\ UNCHANGED <<store, durable, clean, unsaved, promised>>
       \/ /\ ~autoSync
          /\ UNCHANGED <<store, durable, clean, unsaved, promised, faults>>
    /\ call' = [call EXCEPT ![w] = Idle]
    /\ UNCHANGED <<dirty, autoSync, phase, unread, checked, used, spoiled,
                   unchecked, doubled>>

Flush(w) ==
    /\ Ready(w, "idle")
    /\ \/ flushPins /\ UNCHANGED faults
       \/ flushNotCleaned
    /\ UNCHANGED <<dirty, autoSync, call, phase, unread, checked, used, spoiled,
                   unchecked, doubled>>

SetAutosync(w) ==
    /\ Ready(w, "idle")
    /\ autoSync' = ~autoSync
    /\ UNCHANGED <<store, durable, dirty, clean, call, phase, unread, checked,
                   histories>>

-----------------------------------------------------------------------------
(* Restart.                                                                *)

\* The program stops and New reads what is left.
Restart ==
    /\ Fault
    /\ \E s \in durable :
         /\ store' = s /\ durable' = {s}
         /\ dirty' = IF s.flag THEN 1 ELSE 0
         /\ phase' = IF s.flag THEN "rebuilding" ELSE "running"
         /\ unread' = IF s.flag THEN s.recs ELSE {}
         /\ unchecked' = IF phase = "rebuilding" /\ ~s.flag
                         THEN unchecked \cup (s.recs \ s.idx) ELSE unchecked
    /\ clean' = 0 /\ autoSync' = TRUE /\ checked' = 0 /\ unsaved' = FALSE
    /\ call' = [w \in Client |-> Idle]
    /\ UNCHANGED <<used, spoiled, doubled, promised>>

\* rebuildIndexes, for one record: its index entry is added if it is missing.
\* After every SyncRepairFrequency records the pins are flushed, with the flag;
\* a failure of that flush is ignored.
RebuildOne(x) ==
    LET s == [store EXCEPT !.idx = @ \cup {x}]
        flush == (checked + 1) % SyncRepairFrequency = 0
    IN /\ phase = "rebuilding" /\ x \in unread
       /\ \/ /\ flush /\ clean' = dirty /\ UNCHANGED faults
             /\ Sync([s EXCEPT !.flag = IF dirty # clean THEN FALSE ELSE @])
          \/ flush /\ Fault /\ Put(s) /\ UNCHANGED clean
          \/ ~flush /\ Put(s) /\ UNCHANGED <<clean, faults>>
       /\ unread' = unread \ {x} /\ checked' = checked + 1
       /\ UNCHANGED <<dirty, autoSync, call, phase, used, unsaved, spoiled,
                      unchecked, doubled, promised>>

RebuildDone ==
    /\ phase = "rebuilding" /\ unread = {}
    /\ \/ flushPins /\ UNCHANGED faults
       \/ flushNotCleaned
    /\ phase' = "running"
    /\ UNCHANGED <<dirty, autoSync, call, unread, checked, used, spoiled,
                   unchecked, doubled>>

-----------------------------------------------------------------------------
PinnerInit ==
    /\ store = [recs |-> {}, idx |-> {}, flag |-> FALSE] /\ durable = {store}
    /\ dirty = 0 /\ clean = 0 /\ autoSync = TRUE
    /\ call = [w \in Client |-> Idle]
    /\ phase = "running" /\ unread = {} /\ checked = 0
    /\ used = 0 /\ faults = 0 /\ unsaved = FALSE
    /\ spoiled = {} /\ unchecked = {} /\ doubled = {} /\ promised = {}

PinnerNext ==
    \/ \E w \in Client, c \in Cid :
         \/ PinRecursive(w, c) \/ PinWithMode(w, c) \/ PinDirect(w, c)
         \/ \E recursive \in BOOLEAN : Unpin(w, c, recursive)
         \/ \E to \in Cid, unpin \in BOOLEAN : Update(w, c, to, unpin)
    \/ \E w \in Client :
         \/ Fetched(w) \/ Diffed(w) \/ FetchFails(w) \/ Write(w) \/ WriteFails(w)
         \/ Finish(w) \/ Flush(w) \/ SetAutosync(w)
    \/ Restart
    \/ \E x \in unread : RebuildOne(x)
    \/ RebuildDone

PinnerSpec == PinnerInit /\ [][PinnerNext]_pinnerVars

-----------------------------------------------------------------------------
(* Properties.                                                             *)

CidsIn(ps) == {x.cid : x \in ps}

\* Whatever a restart finds, an index entry has its record, and with the dirty
\* flag clear a record has its index entry: New may trust the indexes then.
\* Left out are pins between whose writes the datastore failed, and, as the
\* intermediate flushes of a rebuild clear the flag, the time of the rebuild
\* and the records it had not repaired when it was cut short.
IndexesTrusted ==
    \A s \in durable :
        /\ s.idx \subseteq s.recs
        /\ ~s.flag /\ phase = "running" =>
              s.recs \subseteq s.idx \cup spoiled \cup unchecked

\* The same without the second exception: rebuildIndexes "resolves any
\* discrepancy between secondary indexes and pins that could result from a
\* program termination between saving the two".
RebuildResolves ==
    \A s \in durable : ~s.flag => s.recs \subseteq s.idx \cup spoiled

\* A CID that was pinned at a flush and that nobody has begun to unpin, or to
\* pin recursively instead of directly, is pinned after a restart at any
\* moment; and Update, which moves a pin, never leaves neither CID pinned.
PinsSurvive ==
    \A s \in durable :
        /\ promised \subseteq CidsIn(s.recs)
        /\ ~s.flag => promised \subseteq CidsIn(s.idx)
        /\ \A w \in Client : call[w].at = "writing" =>
             \A c \in call[w].from : ({c} \cup call[w].to) \cap CidsIn(s.recs) # {}

\* Concurrent calls do not pin a CID recursively twice: doPinRecursive looks
\* again after its fetch.  Update does not, and a failed or cut short write
\* leaves a record nothing finds.
RecursiveOnce ==
    \A x \in store.recs, y \in store.recs :
        (x.mode = "recursive" /\ y.mode = "recursive" /\ x.cid = y.cid /\ x # y) =>
            x.cid \in doubled \/ {x, y} \cap (spoiled \cup unchecked) # {}
=============================================================================
