---------------------------- MODULE PinnerProofs ----------------------------
(***************************************************************************)
(* The pinner's inductive invariant, for any CIDs, clients and bounds, the *)
(* steps that keep it (the writes of a call, the flush, a restart, the     *)
(* rebuilding of the indexes, the calls that start), and what follows.     *)
(***************************************************************************)
EXTENDS Pinner, TLAPS

-----------------------------------------------------------------------------
(* The inductive invariant.                                                *)

Step == [do : {"add", "remove"}, pin : Pin]

FetchingCall == [at : {"fetching"}, cid : Cid, before : Nat]
DiffingCall == [at : {"diffing"}, from : Cid, to : Cid, unpin : BOOLEAN]
WritingCall == [at : {"writing"}, todo : Seq(Step), half : BOOLEAN,
                from : SUBSET Cid, to : SUBSET Cid]

PinnerTypeOK ==
    /\ store \in Store /\ durable \in SUBSET Store
    /\ dirty \in Nat /\ clean \in Nat /\ autoSync \in BOOLEAN
    /\ call \in [Client -> {Idle} \cup FetchingCall \cup DiffingCall \cup WritingCall]
    /\ phase \in {"rebuilding", "running"}
    /\ unread \in SUBSET Pin /\ checked \in Nat /\ used \in Nat
    /\ unsaved \in BOOLEAN
    /\ spoiled \in SUBSET Pin /\ unchecked \in SUBSET Pin
    /\ doubled \in SUBSET Cid /\ promised \in SUBSET Cid

\* Nothing finds these records through an index.
Lost == spoiled \cup unchecked

\* What the datastore holds: every state a restart may find is finite, has a
\* record for every index entry and no identifier from the future; all that
\* is promised is in its indexes; and two recursive pins of a CID are excused.
OncePerCid(s) ==
    \A x \in s.recs, y \in s.recs :
        (x.mode = "recursive" /\ y.mode = "recursive" /\ x.cid = y.cid /\ x # y) =>
            x.cid \in doubled \/ x \in Lost \/ y \in Lost

StoresOK ==
    /\ store \in durable
    /\ \A s \in durable :
         /\ s.idx \subseteq s.recs
         /\ \A x \in s.recs : x.id <= used
         /\ promised \subseteq CidsIn(s.idx)
         /\ OncePerCid(s)
         /\ ~s.flag /\ phase = "running" => s.recs \subseteq s.idx \cup Lost

\* The lock, and the rebuild, which comes before all calls.
LockOK ==
    /\ \A v \in Client, w \in Client :
         call[v].at = "writing" /\ call[w].at = "writing" => v = w
    /\ phase = "rebuilding" =>
         /\ \A w \in Client : call[w] = Idle
         /\ unread \subseteq store.recs
         /\ store.recs \subseteq store.idx \cup unread
    /\ phase = "running" => unread = {}

\* The pin whose record and index entry do not agree because of the writer.
Between(x) ==
    \E w \in Client : /\ Writing(w) /\ call[w].half
                      /\ x = Head(call[w].todo).pin

\* While the program runs, every other record has its index entry, or is lost.
IndexesComplete ==
    phase = "running" =>
        \A x \in store.recs \ store.idx : x \in Lost \/ Between(x)

\* The dirty flag is there whenever it is needed, unless it is known to be
\* unsaved.
FlagOK ==
    ~unsaved /\ (dirty # clean \/ Locked) => store.flag

\* A call adds one pin.
OneAdd(todo) ==
    \A i \in DOMAIN todo, j \in DOMAIN todo :
        todo[i].do = "add" /\ todo[j].do = "add" => todo[i].pin = todo[j].pin

\* A write to come takes away nothing that is promised, and adds no recursive
\* pin to one that counts.
StepOK(step) ==
    /\ step.pin.id <= used
    /\ step.do = "remove" => step.pin.cid \notin promised
    /\ step.do = "add" =>
         \A y \in store.recs :
            /\ y # step.pin /\ y.mode = "recursive"
            /\ step.pin.mode = "recursive" /\ y.cid = step.pin.cid
            => y.cid \in doubled \/ y \in Lost

\* The writes under way.
WritesOK ==
    \A w \in Client : call[w].at = "writing" =>
        /\ call[w].half =>
             /\ Writing(w)
             /\ Head(call[w].todo).do = "add" => Head(call[w].todo).pin \in store.recs
             /\ unsaved => Head(call[w].todo).pin \in spoiled
        /\ OneAdd(call[w].todo)
        /\ \A i \in DOMAIN call[w].todo : StepOK(call[w].todo[i])

\* Update: until the new record is written the old one is everywhere; after
\* that, the new one is in the datastore, and stays there.
OldOrNew(w, s) ==
    \/ call[w].from \subseteq CidsIn(s.recs)
    \/ call[w].to \cap CidsIn(s.recs) # {}

NotRemoved(x, todo) == \A i \in DOMAIN todo : todo[i].do = "remove" => todo[i].pin # x

HasNew(w) ==
    \E x \in store.recs : x.cid \in call[w].to /\ NotRemoved(x, call[w].todo)

AddsNew(w) ==
    /\ Writing(w) /\ ~call[w].half /\ Head(call[w].todo).do = "add"
    /\ Head(call[w].todo).pin.cid \in call[w].to
    /\ NotRemoved(Head(call[w].todo).pin, call[w].todo)

UpdateOK ==
    \A w \in Client : call[w].at = "writing" /\ call[w].from # {} =>
        /\ \A s \in durable : OldOrNew(w, s)
        /\ HasNew(w) \/ AddsNew(w)

\* A graph being fetched: as long as the count of changes is what it was, the
\* CID is not pinned recursively.
FetchOK ==
    \A w \in Client : call[w].at = "fetching" =>
        /\ call[w].before <= dirty
        /\ dirty = call[w].before =>
             ~HasAny("recursive", call[w].cid) /\ \A v \in Client : ~Writing(v)

PinnerInv ==
    /\ PinnerTypeOK /\ StoresOK /\ LockOK /\ IndexesComplete /\ FlagOK
    /\ WritesOK /\ UpdateOK /\ FetchOK

-----------------------------------------------------------------------------
(* What the calls of the pinner are made of.                               *)

\* Which kind of call it is tells its fields.
LEMMA CallFacts ==
    ASSUME PinnerTypeOK, NEW w \in Client
    PROVE  /\ call[w].at = "writing" => call[w] \in WritingCall
           /\ call[w].at = "fetching" => call[w] \in FetchingCall
           /\ call[w].at = "diffing" => call[w] \in DiffingCall
           /\ call[w].at = "idle" => call[w] = Idle
BY DEF PinnerTypeOK, Idle, FetchingCall, DiffingCall, WritingCall

\* The first step of a writer.
LEMMA WritingFacts ==
    ASSUME PinnerTypeOK, NEW w \in Client, Writing(w)
    PROVE  /\ call[w] \in WritingCall
           /\ call[w].todo \in Seq(Step) /\ call[w].todo # <<>>
           /\ 1 \in DOMAIN call[w].todo /\ call[w].todo[1] = Head(call[w].todo)
           /\ Head(call[w].todo) \in Step
           /\ Tail(call[w].todo) \in Seq(Step)
           /\ \A i \in DOMAIN Tail(call[w].todo) :
                /\ i + 1 \in DOMAIN call[w].todo
                /\ Tail(call[w].todo)[i] = call[w].todo[i + 1]
  BY CallFacts DEF Writing, WritingCall

-----------------------------------------------------------------------------
(* The two writes of a step.                                               *)

\* A writer after its first write, and after its second.
LEMMA CallAfterWrite ==
    ASSUME NEW q \in WritingCall, NEW t \in Seq(Step)
    PROVE  LET h == [q EXCEPT !.half = TRUE]
               r == [q EXCEPT !.half = FALSE, !.todo = t]
           IN /\ h \in WritingCall /\ h.at = "writing" /\ h.half = TRUE
              /\ h.todo = q.todo /\ h.from = q.from /\ h.to = q.to
              /\ r \in WritingCall /\ r.at = "writing" /\ r.half = FALSE
              /\ r.todo = t /\ r.from = q.from /\ r.to = q.to
BY ZenonT(30) DEF WritingCall

\* What Write makes of the calls: the writer goes on, no other call moves.
LEMMA WriteCalls ==
    ASSUME PinnerInv, NEW w \in Client, Write(w)
    PROVE  /\ call'[w] \in WritingCall /\ call'[w].at = "writing"
           /\ call'[w].from = call[w].from /\ call'[w].to = call[w].to
           /\ \A v \in Client : v # w => call'[v] = call[v]
           /\ call[w].half => call'[w].half = FALSE /\ call'[w].todo = Tail(call[w].todo)
           /\ ~call[w].half => call'[w].half = TRUE /\ call'[w].todo = call[w].todo
           /\ call' \in [Client -> {Idle} \cup FetchingCall \cup DiffingCall \cup WritingCall]
<1>1. PinnerTypeOK /\ Writing(w)
  BY Zenon DEF PinnerInv, Write
<1>2. call[w] \in WritingCall /\ Tail(call[w].todo) \in Seq(Step)
  BY <1>1, WritingFacts, Zenon
<1> DEFINE r == [call[w] EXCEPT !.half = FALSE, !.todo = Tail(call[w].todo)]
           h == [call[w] EXCEPT !.half = TRUE]
<1>3. /\ h \in WritingCall /\ h.at = "writing" /\ h.half = TRUE
      /\ h.todo = call[w].todo /\ h.from = call[w].from /\ h.to = call[w].to
      /\ r \in WritingCall /\ r.at = "writing" /\ r.half = FALSE
      /\ r.todo = Tail(call[w].todo) /\ r.from = call[w].from /\ r.to = call[w].to
  BY <1>2, CallAfterWrite, Zenon
<1>4. call' = [call EXCEPT ![w] = IF call[w].half THEN r ELSE h]
  <2>1. CASE call[w].half
    BY <2>1, Zenon DEF Write
  <2>2. CASE ~call[w].half
    BY <2>2, Zenon DEF Write
  <2> QED
    BY <2>1, <2>2, Zenon
<1> HIDE DEF r, h
<1>5. call'[w] = (IF call[w].half THEN r ELSE h) /\ \A v \in Client : v # w => call'[v] = call[v]
  BY <1>1, <1>4, Zenon DEF PinnerTypeOK
<1>6. call' \in [Client -> {Idle} \cup FetchingCall \cup DiffingCall \cup WritingCall]
  BY <1>1, <1>3, <1>4, Zenon DEF PinnerTypeOK
<1> QED
  BY <1>3, <1>5, <1>6, Zenon

\* The first write: a record without its entry, or an entry less.
LEMMA FirstWrite ==
    ASSUME PinnerInv, NEW w \in Client, Write(w), ~call[w].half
    PROVE  PinnerInv'
<1> DEFINE step == Head(call[w].todo)
           p == step.pin
<1>1. /\ PinnerTypeOK /\ StoresOK /\ LockOK /\ IndexesComplete /\ FlagOK
      /\ WritesOK /\ UpdateOK /\ FetchOK /\ Writing(w)
  BY Zenon DEF PinnerInv, Write
<1>2. /\ call'[w].at = "writing" /\ call'[w].half = TRUE /\ call'[w].todo = call[w].todo
      /\ call'[w].from = call[w].from /\ call'[w].to = call[w].to
      /\ \A v \in Client : v # w => call'[v] = call[v]
      /\ call' \in [Client -> {Idle} \cup FetchingCall \cup DiffingCall \cup WritingCall]
  BY WriteCalls, ZenonT(30)
<1>3. /\ step \in Step /\ p \in Pin /\ step.do \in {"add", "remove"}
      /\ 1 \in DOMAIN call[w].todo /\ call[w].todo[1] = step
  BY <1>1, WritingFacts, Zenon DEF Step
<1>4. /\ store' = halfDone(store, step) /\ durable' = durable \cup {store'}
      /\ spoiled' = (IF unsaved THEN spoiled \cup {p} ELSE spoiled)
      /\ UNCHANGED <<dirty, clean, autoSync, phase, unread, checked, used,
                     unsaved, unchecked, doubled, promised>>
  BY Zenon DEF Write, Put
<1>5. store \in Store /\ store \in durable /\ spoiled \in SUBSET Pin
  BY <1>1, Zenon DEF PinnerTypeOK, StoresOK
<1>6. /\ store' \in Store /\ store'.flag = store.flag
      /\ step.do = "add" => store'.recs = store.recs \cup {p} /\ store'.idx = store.idx
      /\ step.do = "remove" => store'.recs = store.recs /\ store'.idx = store.idx \ {p}
  BY <1>3, <1>4, <1>5, Zenon DEF halfDone, Store
<1>7. /\ p.id <= used
      /\ step.do = "remove" => p.cid \notin promised
      /\ step.do = "add" =>
            \A y \in store.recs : y # p /\ y.mode = "recursive" /\ p.mode = "recursive"
                                  /\ y.cid = p.cid => y.cid \in doubled \/ y \in Lost
  BY <1>1, <1>3, Zenon DEF WritesOK, StepOK, Writing
<1>8. Lost \subseteq Lost' /\ (unsaved => p \in Lost') /\ (unsaved => p \in spoiled')
  BY <1>4, Zenon DEF Lost
<1>9. phase = "running" /\ \A v \in Client : call[v].at = "writing" => v = w
  BY <1>1, SMTT(30) DEF LockOK, PinnerTypeOK, Writing, Idle
<1> HIDE DEF step, p
<1>10. PinnerTypeOK'
  BY <1>1, <1>2, <1>3, <1>4, <1>6, Zenon DEF PinnerTypeOK
<1>11. StoresOK'
  BY <1>1, <1>4, <1>8, <1>3, <1>5, <1>6, <1>7, <1>9 DEF StoresOK, OncePerCid, CidsIn,
     FlagOK, Locked, Writing
<1>12. LockOK'
  BY <1>1, <1>2, <1>4, <1>9, SMTT(30) DEF LockOK, Writing
<1>13. Writing(w)' /\ call'[w].half /\ Head(call[w].todo)' = step
  BY <1>1, <1>2, Zenon DEF Writing, step
<1>14. IndexesComplete'
  <2> SUFFICES ASSUME NEW x \in store'.recs \ store'.idx
               PROVE  x \in Lost' \/ Between(x)'
    BY Zenon DEF IndexesComplete
  <2>1. CASE x = p
    BY <2>1, <1>13, Zenon DEF Between, p
  <2>2. CASE x # p
    BY <2>2, <1>3, <1>6, <1>9, <1>1, <1>8, Zenon DEF Between, Writing, IndexesComplete
  <2> QED
    BY <2>1, <2>2, Zenon
<1>15. FlagOK'
  BY <1>1, <1>4, <1>6, Zenon DEF FlagOK, Locked, Writing
<1>16. WritesOK'
  <2>1. \A v \in Client : call'[v].at = "writing" => v = w
    BY <1>2, <1>9, Zenon
  <2>2. step.do = "add" => p \in store'.recs
    BY <1>6, Zenon
  <2>3. OneAdd(call[w].todo)
    BY <1>1, Zenon DEF WritesOK, StepOK, Writing
  <2>4. ASSUME NEW i \in DOMAIN call[w].todo
        PROVE  LET st == call[w].todo[i]
               IN /\ st.pin.id <= used
                  /\ st.do = "remove" => st.pin.cid \notin promised
                  /\ st.do = "add" =>
                       \A y \in store'.recs :
                          /\ y # st.pin /\ y.mode = "recursive"
                          /\ st.pin.mode = "recursive" /\ y.cid = st.pin.cid
                          => y.cid \in doubled \/ y \in Lost'
    BY <1>1, <1>3, <2>3, <1>6, <1>8 DEF WritesOK, StepOK, Writing, OneAdd, p
  <2>5. /\ Head(call'[w].todo).do = "add" => Head(call'[w].todo).pin \in store'.recs
        /\ unsaved' => Head(call'[w].todo).pin \in spoiled'
    BY <1>2, <1>4, <1>8, <2>2, Zenon DEF step, p
  <2>6. OneAdd(call[w].todo)'
    BY <1>2, <2>3 DEF OneAdd
  <2>7. UNCHANGED <<used, promised, doubled>>
    BY <1>4, Zenon
  <2> QED
    BY <1>2, <1>13, <2>1, <2>4, <2>5, <2>6, <2>7 DEF WritesOK, StepOK
<1>17. UpdateOK'
  BY <1>2, <1>9, <1>1, <1>3, <1>6, <1>4 DEF UpdateOK, Writing, AddsNew, step, p, HasNew,
     CidsIn, OldOrNew
<1>18. FetchOK'
  BY <1>2, <1>1, <1>4, Zenon DEF FetchOK
<1> QED
  BY <1>10, <1>11, <1>12, <1>14, <1>15, <1>16, <1>17, <1>18, Zenon DEF PinnerInv

\* The second write: the entry of the record, or a record less.
LEMMA SecondWrite ==
    ASSUME PinnerInv, NEW w \in Client, Write(w), call[w].half
    PROVE  PinnerInv'
<1> DEFINE step == Head(call[w].todo)
           p == step.pin
<1>1. /\ PinnerTypeOK /\ StoresOK /\ LockOK /\ IndexesComplete /\ FlagOK
      /\ WritesOK /\ UpdateOK /\ FetchOK /\ Writing(w)
  BY Zenon DEF PinnerInv, Write
<1>2. /\ call'[w].at = "writing" /\ call'[w].half = FALSE
      /\ call'[w].todo = Tail(call[w].todo)
      /\ call'[w].from = call[w].from /\ call'[w].to = call[w].to
      /\ \A v \in Client : v # w => call'[v] = call[v]
      /\ call' \in [Client -> {Idle} \cup FetchingCall \cup DiffingCall \cup WritingCall]
  BY WriteCalls, Zenon
<1>3. /\ step \in Step /\ p \in Pin /\ step.do \in {"add", "remove"}
      /\ 1 \in DOMAIN call[w].todo /\ call[w].todo[1] = step
      /\ \A i \in DOMAIN Tail(call[w].todo) :
           /\ i + 1 \in DOMAIN call[w].todo
           /\ Tail(call[w].todo)[i] = call[w].todo[i + 1]
  BY <1>1, WritingFacts, Zenon DEF Step
<1>4. /\ store' = allDone(store, step) /\ durable' = durable \cup {store'}
      /\ UNCHANGED <<dirty, clean, autoSync, phase, unread, checked, used,
                     unsaved, spoiled, unchecked, doubled, promised>>
  BY Zenon DEF Write, Put
<1>5. store \in Store /\ store \in durable
  BY <1>1, Zenon DEF PinnerTypeOK, StoresOK
<1>6. /\ store' \in Store /\ store'.flag = store.flag
      /\ step.do = "add" => store'.recs = store.recs /\ store'.idx = store.idx \cup {p}
      /\ step.do = "remove" =>
           store'.recs = store.recs \ {p} /\ store'.idx = store.idx \ {p}
  BY <1>3, <1>4, <1>5, Zenon DEF allDone, Store
<1>7. /\ step.do = "remove" => p.cid \notin promised
      /\ step.do = "add" => p \in store.recs
  BY <1>1, <1>3, Zenon DEF WritesOK, StepOK, Writing
<1>8. Lost' = Lost
  BY <1>4, Zenon DEF Lost
<1>9. phase = "running" /\ \A v \in Client : call[v].at = "writing" => v = w
  BY <1>1 DEF LockOK, PinnerTypeOK, Writing, Idle
<1>19. store'.recs \subseteq store.recs
  BY <1>3, <1>6, Zenon
<1> HIDE DEF step, p
<1>10. PinnerTypeOK'
  BY <1>1, <1>2, <1>4, <1>6, ZenonT(30) DEF PinnerTypeOK
<1>11. StoresOK'
  <2>1. ASSUME NEW s \in durable
        PROVE  /\ s.idx \subseteq s.recs
               /\ \A x \in s.recs : x.id <= used'
               /\ promised' \subseteq CidsIn(s.idx)
               /\ OncePerCid(s)'
               /\ ~s.flag /\ phase' = "running" => s.recs \subseteq s.idx \cup Lost'
    BY <1>1, <1>4, <1>8, Zenon DEF StoresOK, OncePerCid
  <2>2. store.idx \subseteq store.recs
    BY <1>1, Zenon DEF StoresOK
  <2>4. store'.idx \subseteq store'.recs /\ \A x \in store'.recs : x.id <= used'
    BY <1>3, <1>5, <1>6, <1>7, <1>19, <2>1, <2>2, Zenon
  <2>5. promised' \subseteq CidsIn(store'.idx)
    BY <1>4, <1>5, <2>1, <1>3, <1>6, <1>7 DEF CidsIn
  <2>6. OncePerCid(store)'
    BY <1>1, <1>4, <1>5, <1>8, <1>19, ZenonT(30) DEF StoresOK, OncePerCid
  <2>7. ~store'.flag => store'.recs \subseteq store'.idx \cup Lost'
    BY <1>1, <1>5, <1>9, <1>3, <1>6, <1>8, Zenon DEF StoresOK
  <2> QED
    BY <1>4, <2>1, <2>4, <2>5, <2>6, <2>7, SMTT(30) DEF StoresOK, OncePerCid
<1>12. LockOK'
  BY <1>1, <1>2, <1>4, <1>9, SMTT(30) DEF LockOK, Writing
<1>14. IndexesComplete'
  BY <1>3, <1>6, <1>9, <1>1, <1>8 DEF IndexesComplete, Between, Writing, p, step
<1>15. FlagOK'
  BY <1>1, <1>4, <1>6, ZenonT(30) DEF FlagOK, Locked, Writing
<1>16. WritesOK'
  <2>1. \A v \in Client : call'[v].at = "writing" => v = w
    BY <1>2, <1>9, Zenon
  <2>3. OneAdd(call[w].todo)'
    BY <1>1, <1>2, <1>3 DEF WritesOK, StepOK, Writing, OneAdd
  <2>4. ASSUME NEW i \in DOMAIN call'[w].todo
        PROVE  StepOK(call[w].todo[i])'
    <3>1. i + 1 \in DOMAIN call[w].todo /\ call'[w].todo[i] = call[w].todo[i + 1]
      BY <1>2, <1>3, Zenon
    <3> DEFINE j == i + 1
    <3> HIDE DEF j
    <3>2. j \in DOMAIN call[w].todo /\ call'[w].todo[i] = call[w].todo[j]
      BY <3>1, Zenon DEF j
    <3>3. StepOK(call[w].todo[j])
      BY <1>1, <3>2, Zenon DEF WritesOK, Writing
    <3> QED
      BY <1>4, <1>8, <1>19, <3>2, <3>3, ZenonT(30) DEF StepOK
  <2> QED
    BY <1>2, <2>1, <2>3, <2>4, Zenon DEF WritesOK
<1>17. UpdateOK'
  <2> SUFFICES ASSUME call[w].from # {}
               PROVE  (\A s \in durable' : OldOrNew(w, s)') /\ HasNew(w)'
    BY <1>2, <1>9, Zenon DEF UpdateOK
  <2>1. \A s \in durable : OldOrNew(w, s)
    BY <1>1, Zenon DEF UpdateOK, Writing
  <2>2. HasNew(w)
    BY <1>1, Zenon DEF UpdateOK, AddsNew, Writing
  <2>3. PICK x \in store.recs : x.cid \in call[w].to /\ NotRemoved(x, call[w].todo)
    BY <2>2, Zenon DEF HasNew
  <2>4. step.do = "remove" => p # x
    BY <1>3, <2>3, Zenon DEF p, NotRemoved
  <2>5. x \in store'.recs
    BY <1>3, <1>6, <2>4, Zenon
  <2>6. NotRemoved(x, call'[w].todo)
    BY <1>2, <1>3, <2>3, SMTT(30) DEF NotRemoved
  <2>7. HasNew(w)'
    BY <1>2, <2>3, <2>5, <2>6, Zenon DEF HasNew
  <2>8. OldOrNew(w, store)'
    BY <2>7, Zenon DEF HasNew, CidsIn, OldOrNew
  <2>9. \A s \in durable : OldOrNew(w, s)'
    BY <1>2, <2>1, Zenon DEF OldOrNew
  <2> QED
    BY <1>4, <2>7, <2>8, <2>9, Zenon DEF OldOrNew
<1>18. FetchOK'
  BY <1>2, <1>1, <1>4, Zenon DEF FetchOK
<1> QED
  BY <1>10, <1>11, <1>12, <1>14, <1>15, <1>16, <1>17, <1>18, Zenon DEF PinnerInv

-----------------------------------------------------------------------------
(* The restart, the rebuild, the quiet steps and the flushes.              *)

\* New, when it trusts what it finds and when it does not.
LEMMA RestartStep ==
    ASSUME PinnerInv, Restart
    PROVE  PinnerInv'
<1>1. PinnerTypeOK /\ StoresOK /\ LockOK
  BY Zenon DEF PinnerInv
<1>2. PICK s \in durable :
         /\ store' = s /\ durable' = {s}
         /\ dirty' = IF s.flag THEN 1 ELSE 0
         /\ phase' = IF s.flag THEN "rebuilding" ELSE "running"
         /\ unread' = IF s.flag THEN s.recs ELSE {}
         /\ unchecked' = IF phase = "rebuilding" /\ ~s.flag
                         THEN unchecked \cup (s.recs \ s.idx) ELSE unchecked
  BY ZenonT(30) DEF Restart
<1>3. /\ clean' = 0 /\ autoSync' = TRUE /\ checked' = 0 /\ unsaved' = FALSE
      /\ call' = [v \in Client |-> Idle]
      /\ UNCHANGED <<used, spoiled, doubled, promised>>
  BY Zenon DEF Restart
<1>4. /\ s \in Store /\ s.recs \in SUBSET Pin /\ s.idx \subseteq s.recs
      /\ \A x \in s.recs : x.id <= used
      /\ promised \subseteq CidsIn(s.idx) /\ OncePerCid(s)
      /\ ~s.flag /\ phase = "running" => s.recs \subseteq s.idx \cup Lost
  BY <1>1, Zenon DEF PinnerTypeOK, StoresOK, Store
<1>5. Lost \subseteq Lost'
  BY <1>2, <1>3, ZenonT(30) DEF Lost
<1>6. ~s.flag => s.recs \subseteq s.idx \cup Lost'
  BY <1>4, <1>5, <1>2, <1>1, Zenon DEF Lost, PinnerTypeOK
<1>7. \A v \in Client : call'[v] = Idle
  BY <1>3, Zenon
<1>8. WritesOK' /\ UpdateOK' /\ FetchOK' /\ ~Locked'
  BY <1>7 DEF Idle, Locked, WritesOK, UpdateOK, FetchOK
<1>9. PinnerTypeOK'
  BY <1>1, <1>2, <1>4, <1>3, Zenon DEF PinnerTypeOK
<1>10. StoresOK'
  BY <1>2, <1>3, <1>4, <1>5, <1>6, Zenon DEF StoresOK, OncePerCid
<1>11. LockOK'
  BY <1>2, <1>7, SMTT(30) DEF LockOK, Idle
<1>12. IndexesComplete'
  BY <1>2, <1>6, Zenon DEF IndexesComplete
<1>13. FlagOK'
  BY <1>2, <1>3, <1>8, Zenon DEF FlagOK
<1> QED
  BY <1>8, <1>9, <1>10, <1>11, <1>12, <1>13, Zenon DEF PinnerInv

\* rebuildIndexes comes to a record: it is indexed, and saved now and then.
LEMMA RebuildOneStep ==
    ASSUME PinnerInv, NEW x \in unread, RebuildOne(x)
    PROVE  PinnerInv'
<1>1. PinnerTypeOK /\ StoresOK /\ LockOK /\ FlagOK
  BY Zenon DEF PinnerInv
<1>2. /\ phase = "rebuilding" /\ phase' = "rebuilding"
      /\ unread' = unread \ {x} /\ checked' = checked + 1
      /\ UNCHANGED <<dirty, autoSync, call, used, unsaved, spoiled, unchecked, doubled,
                     promised>>
  BY Zenon DEF RebuildOne
<1>3. /\ store \in Store /\ store \in durable /\ x \in store.recs /\ x \in Pin
      /\ store.idx \subseteq store.recs
  BY <1>1, <1>2, ZenonT(30) DEF PinnerTypeOK, StoresOK, LockOK
<1>4. /\ store' \in Store /\ store'.recs = store.recs /\ store'.idx = store.idx \cup {x}
      /\ store' \in durable' /\ \A s \in durable' : s \in durable \/ s = store'
      /\ clean' = dirty \/ (clean' = clean /\ store'.flag = store.flag)
  <2> DEFINE t == [store EXCEPT !.idx = @ \cup {x}]
             u == [t EXCEPT !.flag = IF dirty # clean THEN FALSE ELSE @]
  <2>1. /\ t \in Store /\ t.recs = store.recs /\ t.idx = store.idx \cup {x}
        /\ t.flag = store.flag
    BY <1>3, Zenon DEF Store
  <2>2. u \in Store /\ u.recs = store.recs /\ u.idx = store.idx \cup {x}
    <3> HIDE DEF t
    <3>1. CASE dirty # clean
      BY <2>1, <3>1, ZenonT(30) DEF Store
    <3>2. CASE dirty = clean
      BY <2>1, <3>2, Zenon DEF Store
    <3> QED
      BY <3>1, <3>2, Zenon
  <2>3. \/ clean' = dirty /\ store' = u /\ durable' = {u}
        \/ clean' = clean /\ store' = t /\ durable' = durable \cup {t}
    BY Zenon DEF RebuildOne, Sync, Put
  <2> HIDE DEF t, u
  <2> QED
    BY <2>1, <2>2, <2>3, Zenon
<1>5. \A v \in Client : call[v] = Idle /\ call'[v] = Idle
  BY <1>1, <1>2, ZenonT(60) DEF LockOK
<1>6. WritesOK' /\ UpdateOK' /\ FetchOK' /\ ~Locked'
  BY <1>5, SMTT(30) DEF Idle, Locked, WritesOK, UpdateOK, FetchOK
<1>7. PinnerTypeOK'
  BY <1>1, <1>2, <1>4, SMTT(30) DEF PinnerTypeOK
<1>8. StoresOK'
  BY <1>1, <1>2, <1>3, <1>4, SMTT(30) DEF StoresOK, OncePerCid, Lost, CidsIn
<1>9. LockOK'
  BY <1>1, <1>2, <1>4, <1>5, ZenonT(30) DEF LockOK, Idle
<1>10. IndexesComplete'
  BY <1>2, Zenon DEF IndexesComplete
<1>11. FlagOK'
  BY <1>1, <1>2, <1>4, <1>6, Zenon DEF FlagOK
<1> QED
  BY <1>6, <1>7, <1>8, <1>9, <1>10, <1>11, Zenon DEF PinnerInv

\* A call begins that does not write yet, or ends without a flush; a pin it
\* leaves between its two writes is spoiled.
LEMMA QuietStep ==
    ASSUME PinnerInv, NEW w \in Client,
           NEW new \in {Idle} \cup FetchingCall \cup DiffingCall,
           call' = [call EXCEPT ![w] = new], phase = "running",
           autoSync' \in BOOLEAN, spoiled \subseteq spoiled', spoiled' \in SUBSET Pin,
           call[w].at = "writing" /\ call[w].half => Head(call[w].todo).pin \in spoiled',
           new.at = "fetching" =>
              new.before = dirty /\ ~HasAny("recursive", new.cid) /\ ~Locked,
           UNCHANGED <<store, durable, dirty, clean, phase, unread, checked, used,
                       unsaved, unchecked, doubled, promised>>
    PROVE  PinnerInv'
<1>1. /\ PinnerTypeOK /\ StoresOK /\ LockOK /\ IndexesComplete /\ FlagOK
      /\ WritesOK /\ UpdateOK /\ FetchOK
  BY Zenon DEF PinnerInv
<1>2. /\ call'[w] = new /\ new.at # "writing"
      /\ \A v \in Client : v # w => call'[v] = call[v]
  BY <1>1 DEF PinnerTypeOK, Idle, FetchingCall, DiffingCall
<1>3. Lost \subseteq Lost'
  BY Zenon DEF Lost
<1>4. PinnerTypeOK'
  BY <1>1, Zenon DEF PinnerTypeOK
<1>5. StoresOK'
  BY <1>1, <1>3, Zenon DEF StoresOK, OncePerCid
<1>6. LockOK'
  BY <1>1, <1>2, SMTT(60) DEF LockOK
<1>7. IndexesComplete'
  <2> SUFFICES ASSUME NEW x \in store.recs \ store.idx
               PROVE  x \in Lost' \/ Between(x)'
    BY Zenon DEF IndexesComplete
  <2>1. CASE x \in Lost
    BY <2>1, <1>3, Zenon
  <2>2. CASE Between(x)
    <3>1. PICK v \in Client : Writing(v) /\ call[v].half /\ x = Head(call[v].todo).pin
      BY <2>2, Zenon DEF Between
    <3>2. CASE v = w
      BY <3>1, <3>2, Zenon DEF Lost, Writing
    <3>3. CASE v # w
      BY <3>1, <3>3, <1>2, Zenon DEF Between, Writing
    <3> QED
      BY <3>2, <3>3, Zenon
  <2> QED
    BY <1>1, <2>1, <2>2, Zenon DEF IndexesComplete
<1>8. FlagOK'
  BY <1>1, <1>2, Zenon DEF FlagOK, Locked
<1>9. WritesOK'
  <2>1. \A v \in Client : call'[v].at = "writing" => call'[v] = call[v]
    BY <1>2, Zenon
  <2>2. ASSUME NEW v \in Client, call'[v].at = "writing", NEW i \in DOMAIN call[v].todo
        PROVE  StepOK(call[v].todo[i])'
    <3>1. StepOK(call[v].todo[i])
      BY <1>1, <2>1, <2>2, Zenon DEF WritesOK
    <3> QED
      BY <1>3, <2>1, <2>2, <3>1, SMTT(60) DEF StepOK
  <2> QED
    BY <1>1, <2>1, <2>2 DEF WritesOK, OneAdd, Writing
<1>10. UpdateOK'
  <2>1. \A v \in Client : call'[v].at = "writing" => call'[v] = call[v]
    BY <1>2, Zenon
  <2> QED
    BY <1>1, <2>1 DEF UpdateOK, OldOrNew, HasNew, AddsNew, Writing
<1>11. FetchOK'
  BY <1>2, <1>1 DEF FetchOK, Writing, PinnerTypeOK, HasAny, Locked
<1> QED
  BY <1>4, <1>5, <1>6, <1>7, <1>8, <1>9, <1>10, <1>11, Zenon DEF PinnerInv

\* A flush when no call has a write to come: all that is pinned is promised.
LEMMA FlushStep ==
    ASSUME PinnerInv, flushPins \/ flushNotCleaned,
           \A v \in Client : ~Writing(v),
           call' \in [Client -> {Idle} \cup FetchingCall \cup DiffingCall \cup WritingCall],
           \A v \in Client : /\ call'[v].at # "writing"
                             /\ call'[v].at = "fetching" => call'[v] = call[v],
           unread = {}, phase' = "running",
           UNCHANGED <<dirty, autoSync, unread, checked, used, spoiled, unchecked, doubled>>
    PROVE  PinnerInv'
<1>1. /\ PinnerTypeOK /\ StoresOK /\ LockOK /\ IndexesComplete /\ FlagOK
      /\ WritesOK /\ UpdateOK /\ FetchOK
  BY Zenon DEF PinnerInv
<1>2. /\ store \in Store /\ store \in durable /\ store.idx \subseteq store.recs /\ \A x \in store.recs : x.id <= used
      /\ OncePerCid(store)
  BY <1>1, Zenon DEF PinnerTypeOK, StoresOK
<1>3. /\ promised' = CidsIn(store.idx) /\ promised' \in SUBSET Cid
      /\ clean' \in Nat /\ unsaved' \in BOOLEAN
  <2>1. promised' = CidsIn(store.idx)
    BY Zenon DEF flushPins, flushNotCleaned, CidsIn
  <2>2. store.idx \subseteq Pin
    BY <1>2, Zenon DEF Store
  <2>3. CidsIn(store.idx) \in SUBSET Cid
    BY <2>2, Zenon DEF CidsIn, Pin
  <2>4. clean' \in Nat /\ unsaved' \in BOOLEAN
    BY <1>1, Zenon DEF flushPins, flushNotCleaned, PinnerTypeOK
  <2> QED
    BY <2>1, <2>3, <2>4, Zenon
<1>4. /\ store' \in durable'
      /\ \A s \in durable' : s \in Store /\ s.recs = store.recs /\ s.idx = store.idx
  <2> DEFINE t(f) == [store EXCEPT !.flag = f]
  <2>1. \A f \in BOOLEAN : t(f) \in Store /\ t(f).recs = store.recs /\ t(f).idx = store.idx
    BY <1>2, Zenon DEF Store
  <2>2. store.flag \in BOOLEAN
    BY <1>2, Zenon DEF Store
  <2>3. \/ \E f \in BOOLEAN : store' = t(f) /\ durable' = {t(f)}
        \/ store' = store /\ durable' = {store}
        \/ store' = t(FALSE) /\ durable' = {store, t(FALSE)}
    <3>1. CASE flushPins
      BY <3>1, <2>2, Zenon DEF flushPins, Sync
    <3>2. CASE flushNotCleaned
      BY <3>2, Zenon DEF flushNotCleaned, Sync
    <3> QED
      BY <3>1, <3>2, Zenon
  <2> HIDE DEF t
  <2> QED
    BY <1>2, <2>1, <2>3, Zenon
<1>5. ~unsaved' /\ dirty # clean' => store'.flag
  BY <1>1, ZenonT(30) DEF flushPins, flushNotCleaned, Sync, FlagOK
<1>6. Lost' = Lost
  BY Zenon DEF Lost
<1>7. store.recs \subseteq store.idx \cup Lost
  BY <1>1, Zenon DEF IndexesComplete, Between, LockOK, PinnerTypeOK
<1>8. PinnerTypeOK'
  BY <1>1, <1>3, <1>4, Zenon DEF PinnerTypeOK
<1>9. StoresOK'
  BY <1>2, <1>3, <1>4, <1>6, <1>7, Zenon DEF StoresOK, OncePerCid
<1>10. LockOK'
  BY <1>1, Zenon DEF LockOK
<1>11. IndexesComplete'
  BY <1>4, <1>6, <1>7, Zenon DEF IndexesComplete
<1>12. FlagOK'
  BY <1>5, Zenon DEF FlagOK, Locked
<1>13. WritesOK' /\ UpdateOK'
  BY ZenonT(30) DEF WritesOK, UpdateOK
<1>14. FetchOK'
  BY <1>1, <1>4 DEF FetchOK, HasAny, Writing
<1> QED
  BY <1>8, <1>9, <1>10, <1>11, <1>12, <1>13, <1>14, Zenon DEF PinnerInv

\* The flushes: Flush, the end of a call that syncs, the end of a rebuild.
LEMMA FlushSteps ==
    ASSUME PinnerInv, (\E w \in Client : Flush(w) \/ Finish(w)) \/ RebuildDone
    PROVE  PinnerInv'
<1>1. PinnerTypeOK /\ LockOK /\ WritesOK
  BY Zenon DEF PinnerInv
<1>2. ASSUME NEW w \in Client, Flush(w) PROVE PinnerInv'
  BY <1>2, <1>1, FlushStep, Zenon DEF Flush, Ready, LockOK, Locked, Writing, PinnerTypeOK
<1>3. CASE RebuildDone
  BY <1>3, <1>1, FlushStep DEF RebuildDone, LockOK, Idle, Writing, PinnerTypeOK
<1>4. ASSUME NEW w \in Client, Finish(w) PROVE PinnerInv'
  <2>1. /\ call[w].at = "writing" /\ call[w].todo = <<>>
        /\ call' = [call EXCEPT ![w] = Idle]
        /\ UNCHANGED <<dirty, autoSync, phase, unread, checked, used, spoiled,
                       unchecked, doubled>>
    BY <1>4, Zenon DEF Finish
  <2>2. phase = "running" /\ \A v \in Client : call[v].at = "writing" => v = w
    BY <1>1, <2>1, SMTT(30) DEF LockOK, PinnerTypeOK, Idle
  <2>3. \A v \in Client : ~Writing(v)
    BY <2>1, <2>2, Zenon DEF Writing
  <2>4. /\ call' \in [Client -> {Idle} \cup FetchingCall \cup DiffingCall \cup WritingCall]
        /\ call'[w] = Idle /\ \A v \in Client : v # w => call'[v] = call[v]
    BY <1>1, <2>1, ZenonT(30) DEF PinnerTypeOK
  <2>5. CASE flushPins \/ flushNotCleaned
    BY <2>2, <2>4, <1>1, <2>1, <2>3, <2>5, FlushStep, Zenon DEF Idle, LockOK
  <2>6. CASE UNCHANGED <<store, durable, clean, unsaved, promised>>
    BY <1>1, <2>1, <2>3, <2>2, <2>6, QuietStep, Zenon DEF WritesOK, Idle, PinnerTypeOK
  <2> QED
    BY <1>4, <2>5, <2>6, Zenon DEF Finish
<1> QED
  BY <1>2, <1>3, <1>4, Zenon

\* New on an empty datastore.
LEMMA PinnerInitInv == PinnerInit => PinnerInv
<1> SUFFICES ASSUME PinnerInit PROVE PinnerInv
  BY Zenon
<1>1. /\ store \in Store /\ store.recs = {} /\ store.idx = {} /\ ~store.flag
      /\ durable = {store}
  BY Zenon DEF PinnerInit, Store
<1>2. \A v \in Client : call[v] = Idle
  BY Zenon DEF PinnerInit
<1>3. PinnerTypeOK
  BY <1>1, Zenon DEF PinnerInit, PinnerTypeOK
<1>4. StoresOK
  BY <1>1, ZenonT(30) DEF PinnerInit, StoresOK, OncePerCid, CidsIn
<1>5. LockOK
  BY <1>2, Zenon DEF PinnerInit, LockOK, Idle
<1>6. IndexesComplete
  BY <1>1, Zenon DEF IndexesComplete
<1>7. FlagOK /\ WritesOK /\ UpdateOK /\ FetchOK
  BY <1>2, Zenon DEF PinnerInit, FlagOK, Locked, WritesOK, UpdateOK, FetchOK, Idle
<1> QED
  BY <1>3, <1>4, <1>5, <1>6, <1>7, Zenon DEF PinnerInv

-----------------------------------------------------------------------------
(* The calls that write nothing yet, and those that end early.             *)

\* A Pin or an Update that has to fetch, a fetch that fails, SetAutosync, and
\* a call that gives up on a failed write.
LEMMA QuietSteps ==
    ASSUME PinnerInv, NEW w \in Client,
           \/ \E c \in Cid : PinRecursive(w, c)
           \/ \E c \in Cid, to \in Cid, unpin \in BOOLEAN : Update(w, c, to, unpin)
           \/ FetchFails(w) \/ SetAutosync(w) \/ WriteFails(w)
    PROVE  PinnerInv'
<1>1. PinnerTypeOK /\ LockOK
  BY Zenon DEF PinnerInv
<1>2. ASSUME NEW c \in Cid, PinRecursive(w, c)
      PROVE  PinnerInv'
  <2> DEFINE new == [at |-> "fetching", cid |-> c, before |-> dirty]
  <2>1. new \in FetchingCall /\ new.before = dirty /\ new.cid = c
    BY <1>1, Zenon DEF PinnerTypeOK, FetchingCall
  <2>2. /\ call' = [call EXCEPT ![w] = new] /\ phase = "running" /\ ~Locked
        /\ ~HasAny("recursive", c) /\ call[w].at # "writing"
        /\ UNCHANGED <<store, durable, dirty, clean, autoSync, phase, unread, checked, used,
                       unsaved, spoiled, unchecked, doubled, promised>>
    BY <1>2, Zenon DEF PinRecursive, Ready, histories
  <2> HIDE DEF new
  <2> QED
    BY <1>1, <2>1, <2>2, QuietStep, Zenon DEF PinnerTypeOK
<1>3. ASSUME NEW c \in Cid, NEW to \in Cid, NEW unpin \in BOOLEAN, Update(w, c, to, unpin)
      PROVE  PinnerInv'
  <2> DEFINE new == [at |-> "diffing", from |-> c, to |-> to, unpin |-> unpin]
  <2>1. new \in DiffingCall /\ new.at # "fetching"
    BY Zenon DEF DiffingCall
  <2>2. /\ call' = [call EXCEPT ![w] = new] /\ phase = "running" /\ call[w].at # "writing"
        /\ UNCHANGED <<store, durable, dirty, clean, autoSync, phase, unread, checked, used,
                       unsaved, spoiled, unchecked, doubled, promised>>
    BY <1>3, Zenon DEF Update, Ready, histories
  <2> HIDE DEF new
  <2> QED
    BY <1>1, <2>1, <2>2, QuietStep, Zenon DEF PinnerTypeOK
<1>4. Idle.at # "fetching"
  BY Zenon DEF Idle
<1>5. CASE FetchFails(w)
  BY <1>5, <1>1, <1>4, QuietStep, Zenon DEF FetchFails, Ready, histories, PinnerTypeOK
<1>6. CASE SetAutosync(w)
  BY <1>6, <1>1, CallFacts, <1>4, QuietStep, Zenon DEF SetAutosync, Ready, histories,
     PinnerTypeOK
<1>7. CASE WriteFails(w)
  <2>1. /\ Writing(w) /\ call' = [call EXCEPT ![w] = Idle]
        /\ spoiled' = IF call[w].half THEN spoiled \cup {Head(call[w].todo).pin} ELSE spoiled
        /\ UNCHANGED <<store, durable, dirty, clean, autoSync, phase, unread, checked, used,
                       unsaved, unchecked, doubled, promised>>
    BY <1>7, Zenon DEF WriteFails
  <2>2. phase = "running"
    BY <1>1, <2>1, SMTT(60) DEF LockOK, PinnerTypeOK, Writing, Idle
  <2>3. Head(call[w].todo).pin \in Pin
    BY <1>1, <2>1, WritingFacts, Zenon DEF Step
  <2>4. spoiled \subseteq spoiled' /\ spoiled' \in SUBSET Pin /\ autoSync' \in BOOLEAN
    BY <1>1, <2>1, <2>3, Zenon DEF PinnerTypeOK
  <2>5. call[w].half => Head(call[w].todo).pin \in spoiled'
    BY <2>1, Zenon
  <2> QED
    BY <1>4, <2>1, <2>2, <2>4, <2>5, QuietStep, ZenonT(60)
<1> QED
  BY <1>2, <1>3, <1>5, <1>6, <1>7, Zenon

-----------------------------------------------------------------------------
(* A call that starts to write.                                            *)

\* What the calls that write have in common when they take the lock: they
\* remove what the indexes have, add a pin with a new identifier, and, but for
\* Update, no second recursive one.
StartOK(w, todo, from, to) ==
    /\ StartWrites(w, todo, from, to)
    /\ phase = "running" /\ ~Locked
    /\ doubled \subseteq doubled' /\ doubled' \in SUBSET Cid
    /\ OneAdd(todo)
    /\ \A i \in DOMAIN todo :
         /\ todo[i].do = "remove" => todo[i].pin \in store.idx
         /\ todo[i].do = "add" =>
              /\ todo[i].pin.id = used + 1
              /\ todo[i].pin.mode = "recursive" =>
                   todo[i].pin.cid \in doubled' \/ ~HasAny("recursive", todo[i].pin.cid)
    /\ from # {} => /\ from \subseteq promised /\ Len(todo) > 0
                    /\ todo[1].do = "add" /\ todo[1].pin.cid \in to

\* What setDirty leaves: the pins as they are, and the flag set unless it
\* could not be written.
LEMMA SetDirtyFacts ==
    ASSUME PinnerInv, NEW n \in Nat, setDirty(n)
    PROVE  /\ dirty' \in Nat /\ dirty' = dirty + n
           /\ store' \in Store /\ store'.recs = store.recs /\ store'.idx = store.idx
           /\ store.flag => store'.flag
           /\ store' \in durable'
           /\ \A s \in durable' : s \in durable \/ s = store'
           /\ unsaved' \in BOOLEAN /\ (unsaved => unsaved')
           /\ ~unsaved' => store'.flag \/ (dirty # clean /\ store' = store /\ unsaved' = unsaved)
<1>1. store \in Store /\ store \in durable
  BY Zenon DEF PinnerInv, PinnerTypeOK, StoresOK
<1> DEFINE t == [store EXCEPT !.flag = TRUE]
<1>2. t \in Store /\ t.recs = store.recs /\ t.idx = store.idx /\ t.flag = TRUE
  BY <1>1, Zenon DEF Store
<1>3. \/ store' = t /\ durable' = {t} /\ unsaved' = unsaved
      \/ store' = t /\ durable' = durable \cup {t} /\ unsaved' = unsaved
      \/ store' = store /\ durable' = durable /\ unsaved' = TRUE
      \/ store' = store /\ durable' = durable /\ unsaved' = unsaved /\ dirty # clean
  BY Zenon DEF setDirty, Sync, Put
<1>4. dirty' = dirty + n
  BY Zenon DEF setDirty
<1>5. unsaved \in BOOLEAN /\ dirty \in Nat
  BY Zenon DEF PinnerInv, PinnerTypeOK
<1>6. dirty' \in Nat
  BY <1>4, <1>5
<1> HIDE DEF t
<1>7. /\ store' \in Store /\ store'.recs = store.recs /\ store'.idx = store.idx
      /\ store' \in durable'
      /\ \A s \in durable' : s \in durable \/ s = store'
  BY <1>1, <1>2, <1>3, Zenon
<1>8. /\ unsaved' \in BOOLEAN /\ (unsaved => unsaved')
      /\ store.flag => store'.flag
      /\ ~unsaved' => store'.flag \/ (dirty # clean /\ store' = store /\ unsaved' = unsaved)
  BY <1>2, <1>3, <1>5, Zenon
<1> QED
  BY <1>4, <1>6, <1>7, <1>8, Zenon

\* A call takes the lock with its writes to come, and sets the dirty flag.
LEMMA StartStep ==
    ASSUME PinnerInv, NEW w \in Client, NEW todo \in Seq(Step),
           NEW from \in SUBSET Cid, NEW to \in SUBSET Cid, StartOK(w, todo, from, to)
    PROVE  PinnerInv'
<1> DEFINE new == [at |-> "writing", todo |-> todo, half |-> FALSE, from |-> from, to |-> to]
           gone == {todo[i].pin.cid : i \in {i \in DOMAIN todo : todo[i].do = "remove"}}
<1>1. /\ PinnerTypeOK /\ StoresOK /\ LockOK /\ IndexesComplete /\ FlagOK
      /\ WritesOK /\ UpdateOK /\ FetchOK
  BY Zenon DEF PinnerInv
<1>2. /\ phase = "running" /\ phase' = "running" /\ ~Locked
      /\ clean' = clean /\ autoSync' = autoSync /\ unread' = unread /\ checked' = checked
      /\ spoiled' = spoiled /\ unchecked' = unchecked
      /\ doubled \subseteq doubled' /\ doubled' \in SUBSET Cid
      /\ promised' = promised \ gone
      /\ call' = [call EXCEPT ![w] = new]
      /\ setDirty(Len(todo))
  BY Zenon DEF StartOK, StartWrites
<1>3. Len(todo) \in Nat
  BY SMTT(60)
<1>4. /\ dirty' \in Nat /\ dirty' = dirty + Len(todo)
      /\ store' \in Store /\ store'.recs = store.recs /\ store'.idx = store.idx
      /\ store.flag => store'.flag
      /\ store' \in durable'
      /\ \A s \in durable' : s \in durable \/ s = store'
      /\ unsaved' \in BOOLEAN /\ (unsaved => unsaved')
      /\ ~unsaved' => store'.flag \/ (dirty # clean /\ store' = store /\ unsaved' = unsaved)
  BY <1>2, <1>3, SetDirtyFacts, Zenon
<1>5. /\ used \in Nat /\ used' \in Nat /\ used <= used'
      /\ (\E i \in DOMAIN todo : todo[i].do = "add") => used' = used + 1
  BY <1>1, SMTT(60) DEF StartOK, StartWrites, PinnerTypeOK
<1>6. new \in WritingCall
  BY Zenon DEF WritingCall
<1>7. /\ call'[w] = new
      /\ \A v \in Client : v # w => call'[v] = call[v] /\ call[v].at # "writing"
      /\ \A v \in Client : call[v].at # "writing"
  BY <1>1, <1>2, Zenon DEF PinnerTypeOK, Locked
<1>8. /\ new.at = "writing" /\ new.todo = todo /\ new.half = FALSE
      /\ new.from = from /\ new.to = to
  OBVIOUS
<1>9. Lost' = Lost /\ promised' \subseteq promised
  BY <1>2, Zenon DEF Lost
<1>10. call' \in [Client -> {Idle} \cup FetchingCall \cup DiffingCall \cup WritingCall]
  BY <1>1, <1>2, <1>6, Zenon DEF PinnerTypeOK
<1>11. \A i \in DOMAIN todo :
         /\ todo[i] \in Step
         /\ todo[i].do = "remove" => todo[i].pin \in store.idx
         /\ todo[i].do = "add" =>
              /\ todo[i].pin.id = used + 1
              /\ todo[i].pin.mode = "recursive" =>
                   todo[i].pin.cid \in doubled' \/ ~HasAny("recursive", todo[i].pin.cid)
  BY SMTT(60) DEF StartOK
<1>12. /\ store \in durable
       /\ store.idx \subseteq store.recs /\ \A x \in store.recs : x.id <= used
  BY <1>1, Zenon DEF StoresOK
<1>22. OneAdd(todo)
  BY Zenon DEF StartOK
<1>13. from # {} => /\ from \subseteq promised /\ Len(todo) > 0
                    /\ todo[1].do = "add" /\ todo[1].pin.cid \in to
  BY Zenon DEF StartOK
<1> HIDE DEF new, gone
<1>14. PinnerTypeOK'
  BY <1>1, <1>2, <1>4, <1>5, <1>10, Zenon DEF PinnerTypeOK
<1>15. StoresOK'
  <2> SUFFICES ASSUME NEW s \in durable'
               PROVE  /\ s.idx \subseteq s.recs
                      /\ \A x \in s.recs : x.id <= used'
                      /\ promised' \subseteq CidsIn(s.idx)
                      /\ OncePerCid(s)'
                      /\ ~s.flag /\ phase' = "running" => s.recs \subseteq s.idx \cup Lost'
    BY <1>4, Zenon DEF StoresOK
  <2>1. PICK r \in durable : r.recs = s.recs /\ r.idx = s.idx /\ (~s.flag => ~r.flag)
    BY <1>4, <1>12, Zenon
  <2>2. /\ r.idx \subseteq r.recs
        /\ \A x \in r.recs : x.id <= used
        /\ promised \subseteq CidsIn(r.idx)
        /\ OncePerCid(r)
        /\ ~r.flag => r.recs \subseteq r.idx \cup Lost
    BY <1>1, <1>2, Zenon DEF StoresOK
  <2>3. OncePerCid(s)'
    BY <1>2, <1>9, <2>1, <2>2, Zenon DEF OncePerCid
  <2>4. s.recs \subseteq Pin
    BY <1>4, <1>1, Zenon DEF PinnerTypeOK, Store
  <2>5. \A x \in s.recs : x.id <= used'
    BY <1>5, <2>1, <2>2, <2>4, SMTT(60) DEF Pin
  <2> QED
    BY <1>2, <1>9, <2>1, <2>2, <2>3, <2>5, Zenon
<1>16. LockOK'
  BY <1>1, <1>2, <1>7, Zenon DEF LockOK
<1>17. IndexesComplete'
  BY <1>1, <1>2, <1>4, <1>7, <1>9, Zenon DEF IndexesComplete, Between, Writing
<1>18. FlagOK'
  BY <1>1, <1>2, <1>4, Zenon DEF FlagOK
<1>19. WritesOK'
  <2> SUFFICES ASSUME NEW i \in DOMAIN todo
               PROVE  /\ todo[i].pin.id <= used'
                      /\ todo[i].do = "remove" => todo[i].pin.cid \notin promised'
                      /\ todo[i].do = "add" =>
                           \A y \in store'.recs :
                             /\ y # todo[i].pin /\ y.mode = "recursive"
                             /\ todo[i].pin.mode = "recursive" /\ y.cid = todo[i].pin.cid
                             => y.cid \in doubled' \/ y \in Lost'
    BY <1>7, <1>8, <1>22, SMTT(60) DEF WritesOK, StepOK, OneAdd
  <2>1. todo[i].pin \in Pin /\ todo[i].do \in {"add", "remove"}
    BY <1>11, Zenon DEF Step
  <2>2. todo[i].do = "add" => todo[i].pin.id <= used'
    BY <1>5, <1>11, <2>1 DEF Pin
  <2>3. todo[i].do = "remove" => todo[i].pin.id <= used'
    BY <1>5, <1>11, <1>12, <2>1, SMTT(60) DEF Pin
  <2>4. todo[i].do = "remove" => todo[i].pin.cid \notin promised'
    BY <1>2, Zenon DEF gone
  <2>5. ASSUME todo[i].do = "add", NEW y \in store'.recs,
               y # todo[i].pin, y.mode = "recursive",
               todo[i].pin.mode = "recursive", y.cid = todo[i].pin.cid
        PROVE  y.cid \in doubled' \/ y \in Lost'
    BY <2>5, <1>11, <1>1, <1>2, <1>4, <1>7, <1>9 DEF HasAny, IndexesComplete, Between,
       Writing
  <2> QED
    BY <2>1, <2>2, <2>3, <2>4, <2>5, Zenon
<1>20. UpdateOK'
  BY <1>7, <1>8, <1>1, <1>4, <1>12, <1>13, <1>11, <1>5 DEF UpdateOK, StoresOK, CidsIn,
     NotRemoved, AddsNew, Writing, OldOrNew
<1>21. FetchOK'
  BY <1>1, <1>7, <1>8, CallFacts, <1>3, <1>4 DEF FetchOK, FetchingCall, PinnerTypeOK,
     HasAny, Writing
<1> QED
  BY <1>14, <1>15, <1>16, <1>17, <1>18, <1>19, <1>20, <1>21, Zenon DEF PinnerInv

-----------------------------------------------------------------------------
(* What the calls write.                                                   *)

\* The pins of a set in any order are a sequence.
LEMMA OrdersAreSequences ==
    ASSUME NEW S, NEW ps \in Orders(S)
    PROVE  /\ ps \in Seq(S)
           /\ DOMAIN ps = 1..Len(ps)
           /\ \A i \in DOMAIN ps : ps[i] \in S
<1>1. PICK n \in 0..MaxPins : ps \in [1..n -> S]
  BY Zenon DEF Orders
<1>2. n \in Nat
  BY PinnerAssumption
<1>3. ps \in Seq(S)
  BY <1>1, <1>2
<1> QED
  BY <1>1, <1>2, <1>3

\* removePinsForCid removes the pins in the order in which it found them.
LEMMA DropFacts ==
    ASSUME NEW ps \in Seq(Pin)
    PROVE  /\ Drop(ps) \in Seq(Step) /\ Len(Drop(ps)) = Len(ps)
           /\ \A i \in 1..Len(ps) : Drop(ps)[i] = [do |-> "remove", pin |-> ps[i]]
<1>1. PICK n \in Nat : n = Len(ps) /\ DOMAIN ps = 1..n /\ \A i \in 1..n : ps[i] \in Pin
  OBVIOUS
<1> DEFINE d(i) == [do |-> "remove", pin |-> ps[i]]
<1>2. \A i \in 1..n : d(i) \in Step
  BY <1>1, Zenon DEF Step
<1>3. Drop(ps) = [i \in 1..n |-> d(i)]
  BY <1>1, Zenon DEF Drop
<1> HIDE DEF d
<1>4. Drop(ps) \in [1..n -> Step]
  BY <1>2, <1>3, Zenon
<1>5. Drop(ps) \in Seq(Step) /\ Len(Drop(ps)) = n
  BY <1>4
<1>6. \A i \in 1..n : Drop(ps)[i] = d(i)
  BY <1>3, Zenon
<1> QED
  BY <1>1, <1>5, <1>6, Zenon DEF d

\* addPin adds one pin, with the next identifier.
LEMMA AddFacts ==
    ASSUME used \in Nat, NEW c \in Cid, NEW kind \in {"recursive", "direct"}
    PROVE  /\ AddPin(c, kind) \in Seq(Step) /\ Len(AddPin(c, kind)) = 1
           /\ AddPin(c, kind)[1] =
                [do |-> "add", pin |-> [id |-> used + 1, cid |-> c, mode |-> kind]]
           /\ AddPin(c, kind)[1].pin \in Pin
BY SMTT(60) DEF AddPin, Step, Pin

\* The pins found for a CID are index entries.
LEMMA PinsForFacts ==
    ASSUME PinnerTypeOK, StoresOK, NEW modes, NEW c,
           NEW ps \in Orders(PinsFor(modes, c))
    PROVE  /\ Drop(ps) \in Seq(Step)
           /\ \A i \in DOMAIN Drop(ps) :
                Drop(ps)[i].do = "remove" /\ Drop(ps)[i].pin \in store.idx
<1>1. PinsFor(modes, c) \subseteq store.recs /\ PinsFor(modes, c) \subseteq Pin
  BY Zenon DEF PinsFor, StoresOK, PinnerTypeOK, Store
<1>3. /\ ps \in Seq(PinsFor(modes, c)) /\ DOMAIN ps = 1..Len(ps)
      /\ \A i \in DOMAIN ps : ps[i] \in PinsFor(modes, c)
  BY OrdersAreSequences, Zenon
<1>4. ps \in Seq(Pin)
  BY <1>1, <1>3, SMTT(60)
<1>5. \A i \in 1..Len(ps) : ps[i] \in store.idx
  BY <1>3, Zenon DEF PinsFor
<1>6. /\ Drop(ps) \in Seq(Step) /\ Len(Drop(ps)) = Len(ps)
      /\ \A i \in 1..Len(ps) : Drop(ps)[i] = [do |-> "remove", pin |-> ps[i]]
  BY <1>4, DropFacts, Zenon
<1>7. DOMAIN Drop(ps) = 1..Len(ps)
  BY <1>6
<1> QED
  BY <1>5, <1>6, <1>7

\* Sequences one after the other.
LEMMA ConcatFacts ==
    ASSUME NEW S, NEW s \in Seq(S), NEW t \in Seq(S)
    PROVE  s \o t \in Seq(S) /\ Len(s \o t) = Len(s) + Len(t)
  OBVIOUS

\* A step after, or before, a sequence of others.
LEMMA OneMore ==
    ASSUME NEW S, NEW s \in Seq(S), NEW t \in Seq(S), Len(t) = 1
    PROVE  /\ s \o t \in Seq(S) /\ Len(s \o t) = Len(s) + 1
           /\ \A i \in DOMAIN (s \o t) :
                (i \in DOMAIN s /\ (s \o t)[i] = s[i]) \/ (s \o t)[i] = t[1]
           /\ t \o s \in Seq(S) /\ Len(t \o s) = Len(s) + 1
           /\ (t \o s)[1] = t[1]
           /\ \A i \in DOMAIN (t \o s) :
                (i - 1 \in DOMAIN s /\ (t \o s)[i] = s[i - 1]) \/ (t \o s)[i] = t[1]
<1>1. /\ s \o t \in Seq(S) /\ Len(s \o t) = Len(s) + 1 /\ Len(s) \in Nat
      /\ t \o s \in Seq(S) /\ Len(t \o s) = Len(s) + 1
  <2>1. Len(s) \in Nat
    OBVIOUS
  <2>2. s \o t \in Seq(S) /\ Len(s \o t) = Len(s) + Len(t)
    BY ConcatFacts, Zenon
  <2>3. t \o s \in Seq(S) /\ Len(t \o s) = Len(t) + Len(s)
    BY ConcatFacts, Zenon
  <2> QED
    BY <2>1, <2>2, <2>3
<1>2. /\ DOMAIN (s \o t) = 1..(Len(s) + 1) /\ DOMAIN s = 1..Len(s)
      /\ DOMAIN (t \o s) = 1..(Len(s) + 1)
  BY <1>1
<1>3. \A i \in 1..(Len(s) + 1) :
         /\ (s \o t)[i] = IF i <= Len(s) THEN s[i] ELSE t[i - Len(s)]
         /\ (t \o s)[i] = IF i <= 1 THEN t[i] ELSE s[i - 1]
  BY <1>1
<1>4. \A i \in 1..(Len(s) + 1) : ~(i <= Len(s)) => i - Len(s) = 1
  BY <1>1
<1>5. \A i \in 1..(Len(s) + 1) : ~(i <= 1) => i - 1 \in 1..Len(s)
  BY <1>1
<1>6. \A i \in 1..(Len(s) + 1) : i <= 1 => i = 1
  BY <1>1
<1>7. 1 \in 1..(Len(s) + 1)
  BY <1>1
<1>8. \A i \in 1..(Len(s) + 1) : i <= Len(s) => i \in 1..Len(s)
  BY <1>1, SMTT(60)
<1> QED
  BY <1>1, <1>2, <1>3, <1>4, <1>5, <1>6, <1>7, <1>8

\* doPinRecursive, once it has looked.
LEMMA PinRecursivelyStarts ==
    ASSUME PinnerInv, NEW w \in Client, NEW c \in Cid, PinRecursively(w, c),
           UNCHANGED doubled, phase = "running", ~Locked, ~HasAny("recursive", c)
    PROVE  \E todo \in Seq(Step), from \in SUBSET Cid, to \in SUBSET Cid :
              StartOK(w, todo, from, to)
<1>1. PICK ps \in Orders(PinsFor({"direct"}, c)) :
         StartWrites(w, Drop(ps) \o AddPin(c, "recursive"), {}, {})
  BY Zenon DEF PinRecursively
<1> DEFINE d == Drop(ps)
           a == AddPin(c, "recursive")
           todo == d \o a
<1>2. /\ d \in Seq(Step)
      /\ \A i \in DOMAIN d : d[i].do = "remove" /\ d[i].pin \in store.idx
  BY PinsForFacts, Zenon DEF PinnerInv
<1>3. /\ a \in Seq(Step) /\ Len(a) = 1
      /\ a[1] = [do |-> "add", pin |-> [id |-> used + 1, cid |-> c, mode |-> "recursive"]]
  BY AddFacts, ZenonT(60) DEF PinnerInv, PinnerTypeOK
<1> HIDE DEF d, a
<1>4. /\ todo \in Seq(Step) /\ Len(todo) = Len(d) + 1
      /\ \A i \in DOMAIN todo : (i \in DOMAIN d /\ todo[i] = d[i]) \/ todo[i] = a[1]
  BY <1>2, <1>3, OneMore, SMTT(60)
<1>5. \A i \in DOMAIN todo :
         /\ todo[i].do = "remove" => todo[i].pin \in store.idx
         /\ todo[i].do = "add" => todo[i].pin = a[1].pin /\ a[1].pin.cid = c
  BY <1>2, <1>3, <1>4
<1>6. StartWrites(w, todo, {}, {})
  BY <1>1, Zenon DEF d, a
<1> HIDE DEF todo
<1>7. StartOK(w, todo, {}, {})
  BY <1>3, <1>5, <1>6, SMTT(60) DEF StartOK, OneAdd, PinnerInv, PinnerTypeOK
<1> QED
  BY <1>4, <1>7, Zenon

\* doPinDirect, once it has looked.
LEMMA PinDirectStarts ==
    ASSUME PinnerInv, NEW w \in Client, NEW c \in Cid, PinDirect(w, c)
    PROVE  \E todo \in Seq(Step), from \in SUBSET Cid, to \in SUBSET Cid :
              StartOK(w, todo, from, to)
<1> DEFINE todo == AddPin(c, "direct")
<1>1. /\ todo \in Seq(Step) /\ Len(todo) = 1
      /\ todo[1] = [do |-> "add", pin |-> [id |-> used + 1, cid |-> c, mode |-> "direct"]]
  BY AddFacts, Zenon DEF PinnerInv, PinnerTypeOK
<1>2. StartWrites(w, todo, {}, {})
  BY Zenon DEF PinDirect
<1> HIDE DEF todo
<1>3. \A i \in DOMAIN todo : todo[i] = todo[1]
  BY <1>1, SMTT(60)
<1>4. StartOK(w, todo, {}, {})
  BY <1>1, <1>2, <1>3, SMTT(60) DEF StartOK, OneAdd, PinnerInv, PinnerTypeOK, PinDirect, Ready
<1> QED
  BY <1>1, <1>4, Zenon

\* Unpin, once it has found what to remove.
LEMMA UnpinStarts ==
    ASSUME PinnerInv, NEW w \in Client, NEW c \in Cid, NEW recursive \in BOOLEAN,
           Unpin(w, c, recursive)
    PROVE  \E todo \in Seq(Step), from \in SUBSET Cid, to \in SUBSET Cid :
              StartOK(w, todo, from, to)
<1>1. PICK ps \in Orders(PinsFor({"recursive", "direct"}, c)) :
         StartWrites(w, Drop(ps), {}, {})
  BY Zenon DEF Unpin
<1> DEFINE todo == Drop(ps)
<1>2. /\ todo \in Seq(Step)
      /\ \A i \in DOMAIN todo : todo[i].do = "remove" /\ todo[i].pin \in store.idx
  BY PinsForFacts, Zenon DEF PinnerInv
<1>3. StartWrites(w, todo, {}, {})
  BY <1>1, Zenon
<1> HIDE DEF todo
<1>4. StartOK(w, todo, {}, {})
  BY <1>2, <1>3, ZenonT(60) DEF StartOK, OneAdd, PinnerInv, PinnerTypeOK, Unpin, Ready
<1> QED
  BY <1>2, <1>4, Zenon

\* Update, once it has the difference of the graphs.
LEMMA DiffedStarts ==
    ASSUME PinnerInv, NEW w \in Client, Diffed(w)
    PROVE  \E todo \in Seq(Step), from \in SUBSET Cid, to \in SUBSET Cid :
              StartOK(w, todo, from, to)
<1> DEFINE old == IF call[w].unpin THEN PinsFor({"recursive"}, call[w].from) ELSE {}
           c == call[w].to
           from == {x.cid : x \in old} \cap promised
<1>0. c \in Cid /\ call[w] \in DiffingCall
  BY CallFacts, Zenon DEF Diffed, Ready, PinnerInv, DiffingCall
<1>1. PICK ps \in Orders(old) :
         StartWrites(w, AddPin(c, "recursive") \o Drop(ps), from, {c})
  BY Zenon DEF Diffed
<1> DEFINE d == Drop(ps)
           a == AddPin(c, "recursive")
           todo == a \o d
<1>2. /\ d \in Seq(Step)
      /\ \A i \in DOMAIN d : d[i].do = "remove" /\ d[i].pin \in store.idx
  <2>1. CASE call[w].unpin
    BY <2>1, PinsForFacts, Zenon DEF PinnerInv
  <2>2. CASE ~call[w].unpin
    BY <2>2, OrdersAreSequences, DropFacts
  <2> QED
    BY <2>1, <2>2, Zenon
<1>3. /\ a \in Seq(Step) /\ Len(a) = 1
      /\ a[1] = [do |-> "add", pin |-> [id |-> used + 1, cid |-> c, mode |-> "recursive"]]
  BY <1>0, AddFacts, ZenonT(60) DEF PinnerInv, PinnerTypeOK
<1>9. /\ doubled \subseteq doubled' /\ doubled' \in SUBSET Cid
      /\ c \in doubled' \/ ~HasAny("recursive", c)
  BY <1>0, ZenonT(60) DEF Diffed, PinnerInv, PinnerTypeOK
<1>10. from \subseteq promised /\ from \in SUBSET Cid
  BY Zenon DEF PinnerInv, PinnerTypeOK
<1> HIDE DEF d, a, from
<1>4. /\ todo \in Seq(Step) /\ Len(todo) = Len(d) + 1
      /\ todo[1] = a[1]
      /\ \A i \in DOMAIN todo :
           (i - 1 \in DOMAIN d /\ todo[i] = d[i - 1]) \/ todo[i] = a[1]
  BY <1>2, <1>3, OneMore, SMTT(60)
<1>5. /\ todo[1] = a[1] /\ Len(todo) > 0
      /\ \A i \in DOMAIN todo :
         /\ todo[i].do = "remove" => todo[i].pin \in store.idx
         /\ todo[i].do = "add" => todo[i].pin = a[1].pin /\ a[1].pin.cid = c
  BY <1>2, <1>3, <1>4
<1>6. StartWrites(w, todo, from, {c})
  BY <1>1, Zenon DEF d, a
<1> HIDE DEF todo, old, c
<1>7. StartOK(w, todo, from, {c})
  BY <1>3, <1>5, <1>6, <1>9, <1>10, SMTT(60) DEF StartOK, OneAdd, Diffed, Ready
<1> QED
  BY <1>0, <1>4, <1>7, <1>10, ZenonT(60)

\* Pin and Update when the graph is there, and the calls that do not fetch.
LEMMA StartSteps ==
    ASSUME PinnerInv, NEW w \in Client,
           \/ \E c \in Cid : PinWithMode(w, c) \/ PinDirect(w, c)
           \/ \E c \in Cid, recursive \in BOOLEAN : Unpin(w, c, recursive)
           \/ Fetched(w) \/ Diffed(w)
    PROVE  PinnerInv'
<1> DEFINE Starts == \E todo \in Seq(Step), from \in SUBSET Cid, to \in SUBSET Cid :
                        StartOK(w, todo, from, to)
<1>1. Starts => PinnerInv'
  BY StartStep, Zenon
<1>2. ASSUME NEW c \in Cid, PinWithMode(w, c) PROVE PinnerInv'
  BY <1>1, <1>2, PinRecursivelyStarts, Zenon DEF PinWithMode, Ready
<1>3. ASSUME NEW c \in Cid, PinDirect(w, c) PROVE PinnerInv'
  BY <1>1, <1>3, PinDirectStarts, Zenon
<1>4. ASSUME NEW c \in Cid, NEW recursive \in BOOLEAN, Unpin(w, c, recursive)
      PROVE  PinnerInv'
  BY <1>1, <1>4, UnpinStarts, Zenon
<1>5. CASE Diffed(w)
  BY <1>1, <1>5, DiffedStarts, Zenon
<1>6. CASE Fetched(w)
  <2>0. PinnerTypeOK /\ FetchOK
    BY Zenon DEF PinnerInv
  <2>1. phase = "running" /\ ~Locked /\ call[w].at = "fetching"
    BY <1>6, Zenon DEF Fetched, Ready
  <2>2. call[w].cid \in Cid
    BY <2>0, <2>1, CallFacts, Zenon DEF FetchingCall
  <2>3. CASE dirty # call[w].before /\ HasAny("recursive", call[w].cid)
    <3>1. /\ call' = [call EXCEPT ![w] = Idle]
          /\ UNCHANGED <<store, durable, dirty, clean, autoSync, phase, unread, checked,
                         used, unsaved, spoiled, unchecked, doubled, promised>>
      BY <1>6, <2>3, Zenon DEF Fetched, histories
    <3>2. Idle.at # "fetching"
      BY Zenon DEF Idle
    <3> QED
      BY <2>0, <2>1, <3>1, <3>2, QuietStep, ZenonT(60) DEF PinnerTypeOK
  <2>4. CASE ~(dirty # call[w].before /\ HasAny("recursive", call[w].cid))
    BY <1>6, <2>4, <2>0, <2>1, <1>1, <2>2, PinRecursivelyStarts, Zenon DEF Fetched, FetchOK
  <2> QED
    BY <2>3, <2>4, Zenon
<1> QED
  BY <1>2, <1>3, <1>4, <1>5, <1>6, Zenon

-----------------------------------------------------------------------------
(* The theorems about the pinner.                                          *)

\* PinnerInv is inductive: it holds after New on an empty datastore, and every
\* write, failed write, flush, restart and step of a rebuild keeps it.
THEOREM PinnerInvariance == PinnerSpec => []PinnerInv
<1>1. PinnerInv /\ [PinnerNext]_pinnerVars => PinnerInv'
  <2> SUFFICES ASSUME PinnerInv, [PinnerNext]_pinnerVars PROVE PinnerInv'
    BY Zenon
  <2>1. CASE UNCHANGED pinnerVars
    <3> USE <2>1 DEF pinnerVars, PinnerInv
    <3>1. PinnerTypeOK' /\ LockOK' /\ FlagOK'
      BY ZenonT(60) DEF PinnerTypeOK, LockOK, FlagOK, Locked
    <3>2. StoresOK' /\ IndexesComplete'
      BY SMTT(30) DEF StoresOK, OncePerCid, Lost, IndexesComplete, Between, Writing
    <3>3. WritesOK'
      BY DEF WritesOK, StepOK, Lost, OneAdd, Writing
    <3>4. UpdateOK' /\ FetchOK'
      BY Zenon DEF UpdateOK, OldOrNew, HasNew, AddsNew, FetchOK, HasAny, Writing
    <3> QED
      BY <3>1, <3>2, <3>3, <3>4, Zenon
  <2>2. ASSUME NEW w \in Client, NEW c \in Cid,
               \/ PinRecursive(w, c) \/ PinWithMode(w, c) \/ PinDirect(w, c)
               \/ \E recursive \in BOOLEAN : Unpin(w, c, recursive)
               \/ \E to \in Cid, unpin \in BOOLEAN : Update(w, c, to, unpin)
        PROVE  PinnerInv'
    BY <2>2, QuietSteps, StartSteps, Zenon
  <2>3. ASSUME NEW w \in Client,
               \/ Fetched(w) \/ Diffed(w) \/ FetchFails(w) \/ Write(w) \/ WriteFails(w)
               \/ Finish(w) \/ Flush(w) \/ SetAutosync(w)
        PROVE  PinnerInv'
    BY FirstWrite, SecondWrite, FlushSteps, QuietSteps, StartSteps, <2>3, Zenon
  <2>4. CASE Restart
    BY <2>4, RestartStep, Zenon
  <2>5. CASE \E x \in unread : RebuildOne(x)
    BY <2>5, RebuildOneStep, Zenon
  <2>6. CASE RebuildDone
    BY <2>6, FlushSteps, Zenon
  <2> QED
    BY <2>1, <2>2, <2>3, <2>4, <2>5, <2>6, Zenon DEF PinnerNext
<1> QED
  BY <1>1, PinnerInitInv, PTL DEF PinnerSpec

\* New may trust the indexes it finds with the dirty flag clear, whenever and
\* however often the program stopped: setDirty syncs the flag before the first
\* write, and setClean clears it after the last one is synced.
THEOREM IndexesAreTrusted == PinnerSpec => []IndexesTrusted
<1>1. PinnerInv => IndexesTrusted
  BY Zenon DEF PinnerInv, StoresOK, IndexesTrusted, Lost
<1> QED
  BY <1>1, PinnerInvariance, PTL

\* What a flush found pinned stays pinned through any restart until a call
\* begins to remove it, and Update, stopped anywhere, leaves one of its two
\* CIDs pinned.
THEOREM PinsAreKept == PinnerSpec => []PinsSurvive
<1>1. PinnerInv => PinsSurvive
  BY Zenon DEF PinsSurvive, PinnerInv, StoresOK, CidsIn, UpdateOK, OldOrNew
<1> QED
  BY <1>1, PinnerInvariance, PTL

\* Pin calls that fetch the same graph at the same time add one recursive pin:
\* the count of changes tells the later one to look again.
THEOREM PinnedOnce == PinnerSpec => []RecursiveOnce
<1>1. PinnerInv => RecursiveOnce
  BY Zenon DEF PinnerInv, StoresOK, OncePerCid, RecursiveOnce, Lost
<1> QED
  BY <1>1, PinnerInvariance, PTL

=============================================================================
