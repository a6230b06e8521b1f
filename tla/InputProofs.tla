---------------------------- MODULE InputProofs ----------------------------
(***************************************************************************)
(* Proofs about the path from the key to the screen of module Input, for   *)
(* every table of callbacks, every set of keys and however far the decoder *)
(* lags behind the keyboard.                                               *)
(***************************************************************************)
EXTENDS Input, NatLemmas, FiniteSetTheorems

(* The callbacks there are, what a slot of the array may hold, the         *)
(* complete entries, and those that a task registers.                      *)
Known == Callbacks \cup {First.callback}
Slots == [event_type : EventTypes \cup {NULL}, callback : Known \cup {NULL}, arg : Args \cup {NULL}]
Entries == [event_type : EventTypes, callback : Known, arg : Args \cup {NULL}]
TaskEntries == [event_type : EventTypes, callback : Callbacks, arg : Args]

(* The words of an entry that are stored at a stage of its copy. *)
Stored(stage, e, from) ==
  /\ stage \in {"callback", "arg", "count"} => e.event_type = from.event_type
  /\ stage \in {"arg", "count"} => e.callback = from.callback
  /\ stage = "count" => e.arg = from.arg

(* The copy that runs writes behind the table when it registers, and over  *)
(* an entry of the table whose successor it copies when it unregisters.    *)
JobInTable ==
  \/ job = NoJob
  \/ /\ job \in [stage : {"type", "callback", "arg", "count"}, shift : {FALSE},
                 from : TaskEntries, slot : Nat]
     /\ job.slot = callbacks_count + 1 /\ job.slot <= CALLBACKS_MAX_COUNT
     /\ Stored(job.stage, known_callbacks[job.slot], job.from)
  \/ /\ job \in [stage : {"type", "callback", "arg"}, shift : {TRUE}, from : Entries, slot : Nat]
     /\ 2 <= job.slot /\ job.slot < callbacks_count
     /\ job.from = known_callbacks[job.slot + 1]
     /\ Stored(job.stage, known_callbacks[job.slot], job.from)

(* The first entry of the table is the terminal's, the others are not, and *)
(* all of them are complete.                                               *)
TableComplete ==
  /\ callbacks_count >= 1
  /\ known_callbacks[1] = First
  /\ \A k \in 1 .. callbacks_count :
       known_callbacks[k].event_type \in EventTypes /\ known_callbacks[k].callback \in Known
  /\ \A k \in 2 .. callbacks_count : known_callbacks[k].callback # First.callback

(* f places what is registered into the table, in its order, and not into  *)
(* the slot that is being overwritten.                                     *)
Places(f) ==
  /\ f \in [1 .. Len(registered) -> 1 .. callbacks_count]
  /\ \A k \in 1 .. Len(registered) : known_callbacks[f[k]] = registered[k]
  /\ \A j, k \in 1 .. Len(registered) : j < k => f[j] < f[k]
  /\ job.shift => \A k \in 1 .. Len(registered) : f[k] # job.slot

(* The inductive invariant of the event bus. *)
BusInv ==
  /\ BusTypeOK
  /\ registered \in Seq(Entries)
  /\ JobInTable
  /\ TableComplete
  /\ \E f : Places(f)

-----------------------------------------------------------------------------
(* The entries of the array, and of the part of it that is in use. *)
LEMMA TableFacts ==
  ASSUME BusTypeOK
  PROVE  /\ Table \in Seq(Slots)
         /\ Len(Table) = callbacks_count
         /\ \A k \in 1 .. callbacks_count : Table[k] = known_callbacks[k]
<1>1. /\ known_callbacks \in [1 .. CALLBACKS_MAX_COUNT -> Slots]
      /\ callbacks_count \in 0 .. CALLBACKS_MAX_COUNT /\ CALLBACKS_MAX_COUNT \in Nat
  BY EventBusAssumption DEF BusTypeOK, Known, Slots
<1>2. known_callbacks \in Seq(Slots) /\ Len(known_callbacks) = CALLBACKS_MAX_COUNT
  BY <1>1
<1>3. Table = [k \in 1 .. callbacks_count |-> known_callbacks[k]]
  BY <1>1, <1>2 DEF Table
<1>4. QED
  BY <1>1, <1>3

(* unregister_event_callback finds the first entry of a callback. *)
LEMMA IndexOfFacts ==
  ASSUME NEW E, NEW s \in Seq(E), NEW c, NEW a
  PROVE  /\ IndexOf(s, c, a) \in 0 .. Len(s)
         /\ IndexOf(s, c, a) # 0 =>
              /\ Is(s[IndexOf(s, c, a)], c, a)
              /\ \A j \in 1 .. Len(s) : Is(s[j], c, a) => IndexOf(s, c, a) <= j
         /\ IndexOf(s, c, a) = 0 => \A j \in 1 .. Len(s) : ~Is(s[j], c, a)
<1>1. CASE \E k \in 1 .. Len(s) : Is(s[k], c, a)
  <2> DEFINE S == {k \in 1 .. Len(s) : Is(s[k], c, a)}
  <2>1. PICK m \in S : \A k \in S : m <= k
    <3>1. S \subseteq Nat /\ S # {}
      BY <1>1
    <3>2. QED
      BY <3>1, LeastNat
  <2>2. /\ m \in 1 .. Len(s) /\ Is(s[m], c, a)
        /\ \A j \in 1 .. (m - 1) : ~Is(s[j], c, a)
    BY <2>1
  <2>3. /\ IndexOf(s, c, a) \in 1 .. Len(s) /\ Is(s[IndexOf(s, c, a)], c, a)
        /\ \A j \in 1 .. (IndexOf(s, c, a) - 1) : ~Is(s[j], c, a)
    BY <1>1, <2>2 DEF IndexOf
  <2>4. QED
    BY <2>3
<1>2. CASE ~\E k \in 1 .. Len(s) : Is(s[k], c, a)
  BY <1>2 DEF IndexOf
<1>3. QED
  BY <1>1, <1>2

(* Taking an element out of a sequence. *)
LEMMA WithoutFacts ==
  ASSUME NEW E, NEW s \in Seq(E), NEW i \in 1 .. Len(s)
  PROVE  /\ Without(s, i) \in Seq(E)
         /\ Len(Without(s, i)) = Len(s) - 1
         /\ \A k \in 1 .. Len(s) - 1 : Without(s, i)[k] = IF k < i THEN s[k] ELSE s[k + 1]
BY DEF Without

-----------------------------------------------------------------------------
(* The steps of the event bus keep its invariant.                          *)

(* What the invariant says in terms of types. *)
LEMMA BusTypes ==
  ASSUME BusInv
  PROVE  /\ known_callbacks \in [1 .. CALLBACKS_MAX_COUNT -> Slots]
         /\ callbacks_count \in Nat /\ CALLBACKS_MAX_COUNT \in Nat
         /\ 1 <= callbacks_count /\ callbacks_count <= CALLBACKS_MAX_COUNT
         /\ panicked \in BOOLEAN
         /\ registered \in Seq(Entries) /\ Len(registered) \in Nat
BY EventBusAssumption DEF BusInv, BusTypeOK, TableComplete, Known, Slots

LEMMA BusStutter ==
  ASSUME BusInv, UNCHANGED <<known_callbacks, callbacks_count, job, panicked, registered>>
  PROVE  BusInv'
<1>1. PICK f : Places(f)
  BY DEF BusInv
<1>2. Places(f)'
  BY <1>1 DEF Places
<1>3. BusTypeOK' /\ JobInTable' /\ TableComplete'
  BY DEF BusInv, BusTypeOK, JobInTable, TableComplete
<1>4. QED
  BY <1>2, <1>3 DEF BusInv

(* register_event_callback starts to copy behind the table, or panics. *)
LEMMA RegisterInv ==
  ASSUME BusInv, NEW ty \in EventTypes, NEW c \in Callbacks, NEW a \in Args,
         register_event_callback(Entry(ty, c, a))
  PROVE  BusInv'
<1>1. PICK f : Places(f)
  BY DEF BusInv
<1>2. UNCHANGED <<known_callbacks, callbacks_count, registered>> /\ job = NoJob
  BY DEF register_event_callback, tableVars
<1>3. CASE TableFull
  <2>1. panicked' = TRUE /\ job' = job
    BY <1>3 DEF register_event_callback
  <2>2. Places(f)' /\ BusTypeOK' /\ JobInTable' /\ TableComplete'
    BY <1>1, <1>2, <2>1 DEF BusInv, Places, BusTypeOK, JobInTable, TableComplete
  <2>3. QED
    BY <1>2, <2>2 DEF BusInv
<1>4. CASE ~TableFull
  <2>1. /\ job' = [stage |-> "type", shift |-> FALSE, from |-> Entry(ty, c, a),
                   slot |-> callbacks_count + 1]
        /\ panicked' = panicked
        /\ callbacks_count < CALLBACKS_MAX_COUNT
    BY <1>4, BusTypes DEF register_event_callback, Job, TableFull
  <2>2. JobInTable'
    BY <1>2, <2>1, BusTypes DEF JobInTable, Entry, TaskEntries, Stored
  <2>3. BusTypeOK'
    BY <1>2, <2>1, BusTypes DEF BusInv, BusTypeOK
  <2>4. Places(f)' /\ TableComplete'
    BY <1>1, <1>2, <2>1 DEF BusInv, Places, TableComplete
  <2>5. QED
    BY <1>2, <2>2, <2>3, <2>4 DEF BusInv
<1>5. QED
  BY <1>3, <1>4

(* unregister_event_callback drops an entry from the history and starts to *)
(* shift the table over the first entry of that callback, which is not the *)
(* place of any other that is registered.                                  *)
LEMMA UnregisterInv ==
  ASSUME BusInv, NEW c \in Callbacks, NEW a \in Args, unregister_event_callback(c, a)
  PROVE  BusInv'
<1> DEFINE i == IndexOf(Table, c, a)
           j == IndexOf(registered, c, a)
<1>1. PICK f : Places(f)
  BY DEF BusInv
<1>2. /\ UNCHANGED <<known_callbacks, callbacks_count, panicked>> /\ job = NoJob
      /\ i # 0 /\ remove_callback(i + 1)
      /\ registered' = IF j = 0 THEN registered ELSE Without(registered, j)
  BY DEF unregister_event_callback, tableVars
<1>3. /\ i \in 1 .. callbacks_count /\ Is(known_callbacks[i], c, a)
      /\ \A k \in 1 .. callbacks_count : Is(known_callbacks[k], c, a) => i <= k
  BY <1>2, TableFacts, IndexOfFacts DEF BusInv
<1>4. /\ j \in 0 .. Len(registered)
      /\ j # 0 => /\ Is(registered[j], c, a)
                  /\ \A k \in 1 .. Len(registered) : Is(registered[k], c, a) => j <= k
      /\ j = 0 => \A k \in 1 .. Len(registered) : ~Is(registered[k], c, a)
  BY IndexOfFacts, BusTypes
<1> HIDE DEF i, j
<1>5. i >= 2
  BY <1>3, EventBusAssumption DEF BusInv, TableComplete, Is
<1>6. job' = IF i + 1 <= callbacks_count
               THEN [stage |-> "type", shift |-> TRUE, from |-> known_callbacks[i + 1], slot |-> i]
               ELSE NoJob
  <2>1. (i + 1) - 1 = i
    BY <1>3
  <2>2. QED
    BY <1>2, <2>1 DEF remove_callback, Job
<1>7. JobInTable'
  <2>1. CASE i + 1 <= callbacks_count
    <3>1. i + 1 \in 1 .. callbacks_count /\ i + 1 \in 1 .. CALLBACKS_MAX_COUNT
      BY <1>3, <2>1, BusTypes
    <3>2. known_callbacks[i + 1] \in Entries
      <4>1. /\ known_callbacks[i + 1] \in Slots
            /\ known_callbacks[i + 1].event_type \in EventTypes
            /\ known_callbacks[i + 1].callback \in Known
        BY <3>1, BusTypes DEF BusInv, TableComplete
      <4>2. QED
        BY <4>1 DEF Entries, Slots
    <3>3. /\ job' \in [stage : {"type", "callback", "arg"}, shift : {TRUE}, from : Entries, slot : Nat]
          /\ job'.slot = i /\ job'.from = known_callbacks[i + 1] /\ job'.stage = "type"
      BY <1>3, <1>6, <2>1, <3>2
    <3>4. i < callbacks_count
      BY <1>3, <2>1, BusTypes
    <3>5. QED
      BY <1>2, <1>5, <3>3, <3>4 DEF JobInTable, Stored
  <2>2. CASE ~(i + 1 <= callbacks_count)
    BY <1>6, <2>2 DEF JobInTable
  <2>3. QED
    BY <2>1, <2>2
<1>8. BusTypeOK'
  BY <1>2, <1>3, <1>6, BusTypes DEF BusInv, BusTypeOK, NoJob
<1>9. TableComplete'
  BY <1>2 DEF BusInv, TableComplete
<1>10. registered' \in Seq(Entries) /\ \E g : Places(g)'
  <2>1. CASE j = 0
    <3>1. registered' = registered
      BY <1>2, <2>1
    <3>2. \A k \in 1 .. Len(registered) : f[k] # i
      BY <1>1, <1>3, <1>4, <2>1 DEF Places
    <3>3. job'.shift => job'.slot = i
      BY <1>6 DEF NoJob
    <3>4. Places(f)'
      BY <1>1, <1>2, <3>1, <3>2, <3>3 DEF Places
    <3>5. QED
      BY <3>1, <3>4, BusTypes
  <2>2. CASE j # 0
    <3> DEFINE g == [k \in 1 .. Len(registered) - 1 |-> IF k < j THEN f[k] ELSE f[k + 1]]
    <3>1. j \in 1 .. Len(registered) /\ Len(registered) \in Nat
      BY <1>4, <2>2, BusTypes
    <3>2. /\ registered' \in Seq(Entries)
          /\ Len(registered') = Len(registered) - 1
          /\ \A k \in 1 .. Len(registered) - 1 :
               registered'[k] = IF k < j THEN registered[k] ELSE registered[k + 1]
      BY <1>2, <2>2, <3>1, WithoutFacts, BusTypes
    <3>3. f \in [1 .. Len(registered) -> 1 .. callbacks_count]
      BY <1>1 DEF Places
    <3>4. f[j] >= i
      BY <1>1, <1>3, <1>4, <2>2, <3>1 DEF Places
    <3>5. \A k \in 1 .. Len(registered) : k < j => f[k] # i
      BY <1>1, <1>3, <1>4, <2>2, <3>1, <3>3 DEF Places
    <3>6. \A k \in 1 .. Len(registered) : k > j => f[k] # i
      <4>1. ASSUME NEW k \in 1 .. Len(registered), k > j PROVE f[k] # i
        <5>1. f[j] < f[k]
          BY <1>1, <3>1, <4>1 DEF Places
        <5>2. QED
          BY <1>3, <3>1, <3>3, <3>4, <5>1, BusTypes
      <4>2. QED
        BY <4>1
    <3>7. g \in [1 .. Len(registered') -> 1 .. callbacks_count]
      BY <3>1, <3>2, <3>3
    <3>8. \A k \in 1 .. Len(registered') : known_callbacks[g[k]] = registered'[k]
      <4>1. \A k \in 1 .. Len(registered) : known_callbacks[f[k]] = registered[k]
        BY <1>1 DEF Places
      <4>2. QED
        BY <3>1, <3>2, <4>1
    <3>9. \A m, k \in 1 .. Len(registered') : m < k => g[m] < g[k]
      <4>1. \A m, k \in 1 .. Len(registered) : m < k => f[m] < f[k]
        BY <1>1 DEF Places
      <4>2. QED
        BY <3>1, <3>2, <3>3, <4>1
    <3>10. \A k \in 1 .. Len(registered') : g[k] # i
      BY <3>1, <3>2, <3>5, <3>6
    <3>11. job'.shift => job'.slot = i
      BY <1>6 DEF NoJob
    <3> HIDE DEF g
    <3>12. ASSUME NEW h, h = g PROVE Places(h)'
      BY <1>2, <3>7, <3>8, <3>9, <3>10, <3>11, <3>12 DEF Places
    <3>13. QED
      BY <3>2, <3>12
  <2>3. QED
    BY <2>1, <2>2
<1>11. QED
  BY <1>7, <1>8, <1>9, <1>10 DEF BusInv

(* A job that is under way, by its kind. *)
LEMMA JobKinds ==
  ASSUME BusInv, job.stage # "none"
  PROVE  /\ job.slot \in 2 .. CALLBACKS_MAX_COUNT
         /\ job.from.event_type \in EventTypes /\ job.from.callback \in Known
         /\ job.from.arg \in Args \cup {NULL}
         /\ Stored(job.stage, known_callbacks[job.slot], job.from)
         /\ job.shift \in BOOLEAN
         /\ job = [stage |-> job.stage, shift |-> job.shift, from |-> job.from, slot |-> job.slot]
         /\ ~job.shift =>
              /\ job.stage \in {"type", "callback", "arg", "count"}
              /\ job.slot = callbacks_count + 1
              /\ job.from \in TaskEntries
         /\ job.shift =>
              /\ job.stage \in {"type", "callback", "arg"}
              /\ job.slot < callbacks_count
              /\ job.from = known_callbacks[job.slot + 1]
              /\ job.from \in Entries
<1>1. job # NoJob
  BY DEF NoJob
<1>2. CASE job \in [stage : {"type", "callback", "arg", "count"}, shift : {FALSE},
                    from : TaskEntries, slot : Nat]
  <2>1. /\ job.shift = FALSE /\ job.stage \in {"type", "callback", "arg", "count"} /\ job.slot \in Nat
        /\ job.from \in TaskEntries
        /\ job = [stage |-> job.stage, shift |-> job.shift, from |-> job.from, slot |-> job.slot]
    BY <1>2
  <2>2. /\ job.from.event_type \in EventTypes /\ job.from.callback \in Known
        /\ job.from.arg \in Args \cup {NULL}
    BY <2>1 DEF Known, TaskEntries
  <2>3. /\ job.slot = callbacks_count + 1 /\ job.slot <= CALLBACKS_MAX_COUNT
        /\ Stored(job.stage, known_callbacks[job.slot], job.from)
    BY <1>1, <2>1 DEF BusInv, JobInTable
  <2>4. job.slot \in 2 .. CALLBACKS_MAX_COUNT
    BY <2>1, <2>3, BusTypes
  <2>5. QED
    BY <2>1, <2>2, <2>3, <2>4, Zenon
<1>3. CASE job \in [stage : {"type", "callback", "arg"}, shift : {TRUE}, from : Entries, slot : Nat]
  <2>1. /\ job.shift = TRUE /\ job.stage \in {"type", "callback", "arg"} /\ job.slot \in Nat
        /\ job.from \in Entries
        /\ job = [stage |-> job.stage, shift |-> job.shift, from |-> job.from, slot |-> job.slot]
    BY <1>3
  <2>2. /\ job.from.event_type \in EventTypes /\ job.from.callback \in Known
        /\ job.from.arg \in Args \cup {NULL}
    BY <2>1 DEF Entries
  <2>3. /\ 2 <= job.slot /\ job.slot < callbacks_count
        /\ job.from = known_callbacks[job.slot + 1]
        /\ Stored(job.stage, known_callbacks[job.slot], job.from)
    BY <1>1, <2>1 DEF BusInv, JobInTable
  <2>4. job.slot \in 2 .. CALLBACKS_MAX_COUNT
    BY <2>1, <2>3, BusTypes
  <2>5. QED
    BY <2>1, <2>2, <2>3, <2>4, Zenon
<1>4. QED
  BY <1>1, <1>2, <1>3 DEF BusInv, JobInTable

(* A word but the last is stored, and the next one is up: the slot is not  *)
(* the place of anything that is registered.                               *)
LEMMA StoreWordInv ==
  ASSUME BusInv, job.stage \in {"type", "callback"}, NEW stage \in {"callback", "arg"},
         job' = [job EXCEPT !.stage = stage],
         known_callbacks' \in [1 .. CALLBACKS_MAX_COUNT -> Slots],
         \A k \in 1 .. CALLBACKS_MAX_COUNT : k # job.slot => known_callbacks'[k] = known_callbacks[k],
         Stored(stage, known_callbacks'[job.slot], job.from),
         known_callbacks'[job.slot].event_type \in {job.from.event_type, known_callbacks[job.slot].event_type},
         known_callbacks'[job.slot].callback \in {job.from.callback, known_callbacks[job.slot].callback},
         UNCHANGED <<callbacks_count, panicked, registered>>
  PROVE  BusInv'
<1>1. PICK f : Places(f)
  BY DEF BusInv
<1>2. job.stage # "none"
  OBVIOUS
<1>3. /\ job.slot \in 2 .. CALLBACKS_MAX_COUNT /\ job.slot \in Nat
      /\ job.from.event_type \in EventTypes /\ job.from.callback \in Known
  BY <1>2, JobKinds
<1>4. job.slot \in 1 .. CALLBACKS_MAX_COUNT
  BY <1>3, BusTypes
<1>5. /\ job'.slot = job.slot /\ job'.from = job.from /\ job'.shift = job.shift
      /\ job'.stage = stage
      /\ job' = [stage |-> stage, shift |-> job.shift, from |-> job.from, slot |-> job.slot]
  <2>1. job = [stage |-> job.stage, shift |-> job.shift, from |-> job.from, slot |-> job.slot]
    BY <1>2, JobKinds
  <2>2. QED
    BY <2>1
<1>6. BusTypeOK'
  BY <1>4, <1>5, BusTypes DEF BusTypeOK, Known, Slots
<1>7. TableComplete'
  <2>1. job.shift => job.from.callback # First.callback
    <3>1. ASSUME job.shift PROVE job.slot + 1 \in 2 .. callbacks_count
      BY <1>2, <1>3, <3>1, JobKinds, BusTypes
    <3>2. QED
      BY <1>2, <3>1, JobKinds DEF BusInv, TableComplete
  <2>2. ~job.shift => job.slot = callbacks_count + 1
    BY <1>2, JobKinds
  <2>3. \A k \in 1 .. callbacks_count : k \in 1 .. CALLBACKS_MAX_COUNT
    BY BusTypes
  <2>4. ASSUME NEW k \in 1 .. callbacks_count
        PROVE  /\ known_callbacks'[k].event_type \in EventTypes
               /\ known_callbacks'[k].callback \in Known
               /\ k # 1 => known_callbacks'[k].callback # First.callback
    <3>1. /\ known_callbacks[k].event_type \in EventTypes /\ known_callbacks[k].callback \in Known
          /\ k # 1 => known_callbacks[k].callback # First.callback
      BY BusTypes DEF BusInv, TableComplete
    <3>2. CASE k # job.slot
      BY <2>3, <3>1, <3>2
    <3>3. CASE k = job.slot
      <4>1. job.shift
        BY <2>2, <3>3, BusTypes
      <4>2. QED
        BY <1>3, <2>1, <3>1, <3>3, <4>1
    <3>4. QED
      BY <3>2, <3>3
  <2>5. known_callbacks'[1] = First /\ callbacks_count >= 1
    BY <1>3, BusTypes DEF BusInv, TableComplete
  <2>6. QED
    BY <2>4, <2>5, BusTypes DEF TableComplete
<1>8. JobInTable'
  <2>1. CASE job.shift
    <3>1. /\ job.slot < callbacks_count /\ job.from = known_callbacks[job.slot + 1]
          /\ job.from \in Entries /\ job.shift = TRUE
      BY <1>2, <2>1, JobKinds
    <3>2. known_callbacks'[job.slot + 1] = known_callbacks[job.slot + 1]
      BY <1>3, <3>1, BusTypes
    <3>3. job' \in [stage : {"type", "callback", "arg"}, shift : {TRUE}, from : Entries, slot : Nat]
      BY <1>3, <1>5, <3>1
    <3>4. /\ 2 <= job'.slot /\ job'.slot < callbacks_count'
          /\ job'.from = known_callbacks'[job'.slot + 1]
          /\ Stored(job'.stage, known_callbacks'[job'.slot], job'.from)
      BY <1>3, <1>5, <3>1, <3>2
    <3>5. QED
      BY <3>3, <3>4 DEF JobInTable
  <2>2. CASE ~job.shift
    <3>1. /\ job.slot = callbacks_count + 1 /\ job.shift = FALSE /\ job.slot \in Nat
          /\ job.from \in TaskEntries
      BY <1>2, <1>3, <2>2, JobKinds
    <3>2. job' \in [stage : {"type", "callback", "arg", "count"}, shift : {FALSE},
                    from : TaskEntries, slot : Nat]
      BY <1>5, <3>1
    <3>3. /\ job'.slot = callbacks_count' + 1 /\ job'.slot <= CALLBACKS_MAX_COUNT
          /\ Stored(job'.stage, known_callbacks'[job'.slot], job'.from)
      BY <1>3, <1>5, <3>1
    <3>4. QED
      BY <3>2, <3>3 DEF JobInTable
  <2>3. QED
    BY <2>1, <2>2
<1>9. Places(f)'
  <2>1. \A k \in 1 .. Len(registered) : f[k] # job.slot /\ f[k] \in 1 .. CALLBACKS_MAX_COUNT
    BY <1>1, <1>2, <1>3, JobKinds, BusTypes DEF Places
  <2>2. QED
    BY <1>1, <1>5, <2>1 DEF Places
<1>10. QED
  BY <1>6, <1>7, <1>8, <1>9, BusTypes DEF BusInv

(* The type of the event is stored. *)
LEMMA CopyTypeInv ==
  ASSUME BusInv, CopyType
  PROVE  BusInv'
<1>1. /\ job.stage = "type" /\ job' = [job EXCEPT !.stage = "callback"]
      /\ known_callbacks' = [known_callbacks EXCEPT ![job.slot].event_type = job.from.event_type]
      /\ UNCHANGED <<callbacks_count, panicked, registered>>
  BY DEF CopyType
<1>2. job.slot \in 1 .. CALLBACKS_MAX_COUNT /\ job.from.event_type \in EventTypes \cup {NULL}
  BY <1>1, JobKinds, BusTypes
<1>3. /\ known_callbacks' \in [1 .. CALLBACKS_MAX_COUNT -> Slots]
      /\ \A k \in 1 .. CALLBACKS_MAX_COUNT : k # job.slot => known_callbacks'[k] = known_callbacks[k]
      /\ known_callbacks'[job.slot].event_type = job.from.event_type
      /\ known_callbacks'[job.slot].callback = known_callbacks[job.slot].callback
  <2>1. known_callbacks \in [1 .. CALLBACKS_MAX_COUNT -> Slots]
    BY BusTypes
  <2>2. PICK e : e = [known_callbacks[job.slot] EXCEPT !.event_type = job.from.event_type]
    OBVIOUS
  <2>3. /\ e \in Slots /\ e.event_type = job.from.event_type
        /\ e.callback = known_callbacks[job.slot].callback /\ e.arg = known_callbacks[job.slot].arg
    BY <1>2, <2>1, <2>2 DEF Slots
  <2>4. known_callbacks' = [known_callbacks EXCEPT ![job.slot] = e]
    BY <1>1, <2>2
  <2>5. QED
    BY <1>2, <2>1, <2>3, <2>4
<1>4. Stored("callback", known_callbacks'[job.slot], job.from)
  BY <1>3 DEF Stored
<1>5. QED
  BY <1>1, <1>3, <1>4, StoreWordInv

(* The callback is stored. *)
LEMMA CopyCallbackInv ==
  ASSUME BusInv, CopyCallback
  PROVE  BusInv'
<1>1. /\ job.stage = "callback" /\ job' = [job EXCEPT !.stage = "arg"]
      /\ known_callbacks' = [known_callbacks EXCEPT ![job.slot].callback = job.from.callback]
      /\ UNCHANGED <<callbacks_count, panicked, registered>>
  BY DEF CopyCallback
<1>2. /\ job.slot \in 1 .. CALLBACKS_MAX_COUNT /\ job.from.callback \in Known \cup {NULL}
      /\ known_callbacks[job.slot].event_type = job.from.event_type
  BY <1>1, JobKinds, BusTypes DEF Stored
<1>3. /\ known_callbacks' \in [1 .. CALLBACKS_MAX_COUNT -> Slots]
      /\ \A k \in 1 .. CALLBACKS_MAX_COUNT : k # job.slot => known_callbacks'[k] = known_callbacks[k]
      /\ known_callbacks'[job.slot].callback = job.from.callback
      /\ known_callbacks'[job.slot].event_type = known_callbacks[job.slot].event_type
  <2>1. known_callbacks \in [1 .. CALLBACKS_MAX_COUNT -> Slots]
    BY BusTypes
  <2>2. PICK e : e = [known_callbacks[job.slot] EXCEPT !.callback = job.from.callback]
    OBVIOUS
  <2>3. /\ e \in Slots /\ e.callback = job.from.callback
        /\ e.event_type = known_callbacks[job.slot].event_type /\ e.arg = known_callbacks[job.slot].arg
    BY <1>2, <2>1, <2>2 DEF Slots
  <2>4. known_callbacks' = [known_callbacks EXCEPT ![job.slot] = e]
    BY <1>1, <2>2
  <2>5. QED
    BY <1>2, <2>1, <2>3, <2>4
<1>4. Stored("arg", known_callbacks'[job.slot], job.from)
  BY <1>2, <1>3 DEF Stored
<1>5. QED
  BY <1>1, <1>3, <1>4, StoreWordInv

(* The argument is stored.  When a table is shifted the entry is complete  *)
(* now, and what was registered behind it is found here.                   *)
LEMMA CopyArgInv ==
  ASSUME BusInv, CopyArg
  PROVE  BusInv'
<1>1. PICK f : Places(f)
  BY DEF BusInv
<1>2. /\ job.stage = "arg"
      /\ known_callbacks' = [known_callbacks EXCEPT ![job.slot].arg = job.from.arg]
      /\ IF job.shift THEN remove_callback(job.slot + 2) ELSE job' = [job EXCEPT !.stage = "count"]
      /\ UNCHANGED <<callbacks_count, panicked, registered>>
  BY DEF CopyArg
<1>3. /\ job.slot \in 2 .. CALLBACKS_MAX_COUNT
      /\ job.from.event_type \in EventTypes /\ job.from.callback \in Known
      /\ job.from.arg \in Args \cup {NULL}
      /\ known_callbacks[job.slot].event_type = job.from.event_type
      /\ known_callbacks[job.slot].callback = job.from.callback
      /\ job.shift \in BOOLEAN
  BY <1>2, JobKinds DEF Stored
<1>4. job.slot \in 1 .. CALLBACKS_MAX_COUNT
  BY <1>3, BusTypes
<1>5. /\ known_callbacks' \in [1 .. CALLBACKS_MAX_COUNT -> Slots]
      /\ \A k \in 1 .. CALLBACKS_MAX_COUNT : k # job.slot => known_callbacks'[k] = known_callbacks[k]
      /\ known_callbacks'[job.slot].callback = job.from.callback
      /\ known_callbacks'[job.slot].event_type = job.from.event_type
      /\ known_callbacks'[job.slot].arg = job.from.arg
  <2>1. known_callbacks \in [1 .. CALLBACKS_MAX_COUNT -> Slots]
    BY BusTypes
  <2>2. PICK e : e = [known_callbacks[job.slot] EXCEPT !.arg = job.from.arg]
    OBVIOUS
  <2>3. /\ e \in Slots /\ e.arg = job.from.arg
        /\ e.event_type = known_callbacks[job.slot].event_type /\ e.callback = known_callbacks[job.slot].callback
    BY <1>3, <1>4, <2>1, <2>2 DEF Slots
  <2>4. known_callbacks' = [known_callbacks EXCEPT ![job.slot] = e]
    BY <1>2, <2>2
  <2>5. QED
    BY <1>3, <1>4, <2>1, <2>3, <2>4
<1>6. /\ f \in [1 .. Len(registered) -> 1 .. callbacks_count]
      /\ \A k \in 1 .. Len(registered) : known_callbacks[f[k]] = registered[k]
      /\ \A j, k \in 1 .. Len(registered) : j < k => f[j] < f[k]
      /\ job.shift => \A k \in 1 .. Len(registered) : f[k] # job.slot
  BY <1>1 DEF Places
<1>7. CASE ~job.shift
  <2>1. /\ job.slot = callbacks_count + 1 /\ job.shift = FALSE /\ job.slot \in Nat
        /\ job.from \in TaskEntries
        /\ job = [stage |-> job.stage, shift |-> job.shift, from |-> job.from, slot |-> job.slot]
    BY <1>2, <1>3, <1>7, JobKinds
  <2>2. job' = [stage |-> "count", shift |-> FALSE, from |-> job.from, slot |-> job.slot]
    BY <1>2, <1>7, <2>1
  <2>3. /\ job'.slot = job.slot /\ job'.from = job.from /\ job'.shift = FALSE
        /\ job' \in [stage : {"type", "callback", "arg", "count"}, shift : {FALSE},
                     from : TaskEntries, slot : Nat]
    BY <2>1, <2>2
  <2>4. /\ job'.slot = callbacks_count' + 1 /\ job'.slot <= CALLBACKS_MAX_COUNT
        /\ Stored(job'.stage, known_callbacks'[job'.slot], job'.from)
    BY <1>2, <1>3, <1>5, <2>1, <2>3 DEF Stored
  <2>5. JobInTable'
    BY <2>3, <2>4 DEF JobInTable
  <2>6. BusTypeOK'
    BY <1>2, <1>4, <1>5, <2>3, BusTypes DEF BusTypeOK, Known, Slots
  <2>7. TableComplete'
    BY <1>2, <1>3, <1>5, <2>1, BusTypes DEF BusInv, TableComplete
  <2>8. Places(f)'
    <3>1. \A k \in 1 .. Len(registered) : f[k] # job.slot /\ f[k] \in 1 .. CALLBACKS_MAX_COUNT
      BY <1>6, <2>1, BusTypes
    <3>2. QED
      BY <1>2, <1>5, <1>6, <2>3, <3>1 DEF Places
  <2>9. QED
    BY <1>2, <2>5, <2>6, <2>7, <2>8 DEF BusInv
<1>8. CASE job.shift
  <2> DEFINE g == [k \in 1 .. Len(registered) |-> IF f[k] = job.slot + 1 THEN job.slot ELSE f[k]]
  <2>1. /\ job.slot < callbacks_count /\ job.from = known_callbacks[job.slot + 1]
        /\ job.from \in Entries
    BY <1>2, <1>8, JobKinds
  <2>2. known_callbacks'[job.slot] = known_callbacks[job.slot + 1]
    <3>1. known_callbacks'[job.slot] \in Slots
      BY <1>4, <1>5
    <3>2. QED
      BY <1>5, <2>1, <3>1 DEF Entries, Slots
  <2>3. job' = IF job.slot + 2 <= callbacks_count
                 THEN [stage |-> "type", shift |-> TRUE, from |-> known_callbacks[job.slot + 2],
                       slot |-> job.slot + 1]
                 ELSE NoJob
    <3>1. (job.slot + 2) - 1 = job.slot + 1
      BY <1>4
    <3>2. remove_callback(job.slot + 2)
      BY <1>2, <1>8
    <3>3. QED
      BY <3>1, <3>2 DEF remove_callback, Job
  <2>4. JobInTable'
    <3>1. CASE job.slot + 2 <= callbacks_count
      <4>1. /\ job.slot + 2 \in 1 .. callbacks_count
            /\ job.slot + 2 \in 1 .. CALLBACKS_MAX_COUNT /\ job.slot + 2 # job.slot
        BY <1>4, <3>1, BusTypes
      <4>2. known_callbacks[job.slot + 2] \in Entries
        <5>1. /\ known_callbacks[job.slot + 2] \in Slots
              /\ known_callbacks[job.slot + 2].event_type \in EventTypes
              /\ known_callbacks[job.slot + 2].callback \in Known
          BY <4>1, BusTypes DEF BusInv, TableComplete
        <5>2. QED
          BY <5>1 DEF Entries, Slots
      <4>3. /\ job' \in [stage : {"type", "callback", "arg"}, shift : {TRUE}, from : Entries, slot : Nat]
            /\ job'.slot = job.slot + 1 /\ job'.from = known_callbacks[job.slot + 2]
            /\ job'.stage = "type"
        BY <1>4, <2>3, <3>1, <4>2
      <4>4. /\ 2 <= job'.slot /\ job'.slot < callbacks_count' /\ job'.slot + 1 = job.slot + 2
        BY <1>2, <1>3, <3>1, <4>3, BusTypes
      <4>5. job'.from = known_callbacks'[job'.slot + 1]
        BY <1>5, <4>1, <4>3, <4>4
      <4>6. QED
        BY <4>3, <4>4, <4>5 DEF JobInTable, Stored
    <3>2. CASE ~(job.slot + 2 <= callbacks_count)
      BY <2>3, <3>2 DEF JobInTable
    <3>3. QED
      BY <3>1, <3>2
  <2>5. job'.slot \in 0 .. CALLBACKS_MAX_COUNT /\ (job'.shift => job'.slot = job.slot + 1)
    BY <1>4, <2>1, <2>3, BusTypes DEF NoJob
  <2>6. BusTypeOK'
    BY <1>2, <1>5, <2>5, BusTypes DEF BusTypeOK, Known, Slots
  <2>7. TableComplete'
    <3>1. job.slot + 1 \in 2 .. callbacks_count
      BY <1>3, <2>1, BusTypes
    <3>2. QED
      BY <1>2, <1>3, <1>5, <2>1, <2>2, <3>1, BusTypes DEF BusInv, TableComplete
  <2>8. g \in [1 .. Len(registered) -> 1 .. callbacks_count]
    BY <1>3, <1>6, <2>1, BusTypes
  <2>9. \A k \in 1 .. Len(registered) : known_callbacks'[g[k]] = registered[k]
    <3>1. ASSUME NEW k \in 1 .. Len(registered), f[k] = job.slot + 1
          PROVE  known_callbacks'[g[k]] = registered[k]
      BY <1>6, <2>2, <3>1
    <3>2. ASSUME NEW k \in 1 .. Len(registered), f[k] # job.slot + 1
          PROVE  known_callbacks'[g[k]] = registered[k]
      <4>1. g[k] = f[k] /\ f[k] \in 1 .. CALLBACKS_MAX_COUNT /\ f[k] # job.slot
        BY <1>6, <1>8, <3>2, BusTypes
      <4>2. QED
        BY <1>5, <1>6, <4>1
    <3>3. QED
      BY <3>1, <3>2
  <2>10. ASSUME NEW j \in 1 .. Len(registered), NEW k \in 1 .. Len(registered), j < k
         PROVE  g[j] < g[k]
    <3>1. /\ f[j] \in Nat /\ f[k] \in Nat /\ f[j] < f[k]
          /\ f[j] # job.slot /\ f[k] # job.slot /\ job.slot \in Nat
      BY <1>3, <1>6, <1>8, <2>10, BusTypes
    <3>2. QED
      BY <3>1
  <2>11. \A k \in 1 .. Len(registered) : g[k] # job.slot + 1
    BY <1>3, <1>6
  <2> HIDE DEF g
  <2>12. ASSUME NEW h, h = g PROVE Places(h)'
    BY <1>2, <2>5, <2>8, <2>9, <2>10, <2>11, <2>12 DEF Places
  <2>13. QED
    BY <1>2, <2>4, <2>6, <2>7, <2>12, BusTypes DEF BusInv
<1>9. QED
  BY <1>3, <1>7, <1>8

(* A new last element goes to a new last place. *)
LEMMA ExtendPlaces ==
  ASSUME NEW n \in Nat, NEW m \in Nat, NEW f \in [1 .. n -> 1 .. m],
         \A j, k \in 1 .. n : j < k => f[j] < f[k],
         NEW h, \A k \in 1 .. n : h[k] = f[k], h[n + 1] = m + 1
  PROVE  \A j, k \in 1 .. n + 1 : j < k => h[j] < h[k]
<1>1. SUFFICES ASSUME NEW j \in 1 .. n + 1, NEW k \in 1 .. n + 1, j < k
               PROVE  h[j] < h[k]
  OBVIOUS
<1>2. j \in 1 .. n /\ h[j] = f[j] /\ f[j] \in 1 .. m
  BY <1>1
<1>3. CASE k \in 1 .. n
  BY <1>1, <1>2, <1>3
<1>4. CASE k = n + 1
  BY <1>2, <1>4
<1>5. QED
  BY <1>3, <1>4

(* The new entry is counted, and from now on it is called. *)
LEMMA CountEntryInv ==
  ASSUME BusInv, CountEntry
  PROVE  BusInv'
<1> DEFINE g(f) == [k \in 1 .. Len(registered) + 1 |->
                      IF k <= Len(registered) THEN f[k] ELSE callbacks_count + 1]
<1>1. PICK f : Places(f)
  BY DEF BusInv
<1>2. /\ job.stage = "count" /\ callbacks_count' = callbacks_count + 1 /\ job' = NoJob
      /\ registered' = Append(registered, job.from)
      /\ UNCHANGED <<known_callbacks, panicked>>
  BY DEF CountEntry
<1>3. /\ job.slot = callbacks_count + 1 /\ job.slot \in 2 .. CALLBACKS_MAX_COUNT
      /\ job.from \in TaskEntries
      /\ known_callbacks[job.slot].event_type = job.from.event_type
      /\ known_callbacks[job.slot].callback = job.from.callback
      /\ known_callbacks[job.slot].arg = job.from.arg
  <2>1. job.stage # "none" /\ job.stage \notin {"type", "callback", "arg"}
    BY <1>2
  <2>2. job.shift = FALSE
    BY <2>1, JobKinds
  <2>3. QED
    BY <1>2, <2>1, <2>2, JobKinds DEF Stored
<1>4. job.from \in Entries /\ job.from.callback \in Callbacks /\ job.from.event_type \in EventTypes
  BY <1>3 DEF Entries, Known, TaskEntries
<1>5. known_callbacks[callbacks_count + 1] = job.from
  <2>1. known_callbacks[job.slot] \in Slots
    BY <1>3, BusTypes
  <2>2. QED
    BY <1>3, <2>1 DEF Slots, TaskEntries
<1>6. /\ registered' \in Seq(Entries) /\ Len(registered') = Len(registered) + 1
      /\ \A k \in 1 .. Len(registered) : registered'[k] = registered[k]
      /\ registered'[Len(registered) + 1] = job.from
  BY <1>2, <1>4, BusTypes
<1>7. BusTypeOK'
  BY <1>2, <1>3, BusTypes DEF BusInv, BusTypeOK, NoJob
<1>8. TableComplete'
  <2>1. job.from.callback # First.callback
    BY <1>4, EventBusAssumption
  <2>2. QED
    BY <1>2, <1>4, <1>5, <2>1, BusTypes DEF BusInv, TableComplete, Known
<1>9. JobInTable' /\ job'.shift = FALSE
  BY <1>2 DEF JobInTable, NoJob
<1>10. ASSUME NEW h, h = g(f) PROVE Places(h)'
  <2>1. /\ f \in [1 .. Len(registered) -> 1 .. callbacks_count]
        /\ \A k \in 1 .. Len(registered) : known_callbacks[f[k]] = registered[k]
        /\ \A j, k \in 1 .. Len(registered) : j < k => f[j] < f[k]
    BY <1>1 DEF Places
  <2>2. /\ h \in [1 .. Len(registered') -> 1 .. callbacks_count']
        /\ \A k \in 1 .. Len(registered) : h[k] = f[k]
        /\ h[Len(registered) + 1] = callbacks_count + 1
        /\ \A j, k \in 1 .. Len(registered') : j < k => h[j] < h[k]
    <3>1. Len(registered) \in Nat /\ callbacks_count \in Nat
      BY BusTypes
    <3>2. h = [k \in 1 .. Len(registered) + 1 |->
                 IF k <= Len(registered) THEN f[k] ELSE callbacks_count + 1]
      BY <1>10
    <3>3. Len(registered') = Len(registered) + 1 /\ callbacks_count' = callbacks_count + 1
      BY <1>2, <1>6
    <3>4. /\ h \in [1 .. Len(registered) + 1 -> 1 .. callbacks_count + 1]
          /\ \A k \in 1 .. Len(registered) : h[k] = f[k]
          /\ h[Len(registered) + 1] = callbacks_count + 1
      BY <2>1, <3>1, <3>2
    <3>5. \A j, k \in 1 .. Len(registered) + 1 : j < k => h[j] < h[k]
      BY <2>1, <3>1, <3>4, ExtendPlaces
    <3>6. QED
      BY <3>3, <3>4, <3>5
  <2>3. ASSUME NEW k \in 1 .. Len(registered') PROVE known_callbacks[h[k]] = registered'[k]
    <3>1. k \in 1 .. Len(registered) \/ k = Len(registered) + 1
      BY <1>6, BusTypes
    <3>2. QED
      BY <1>5, <1>6, <2>1, <2>2, <3>1
  <2>4. QED
    BY <1>2, <1>9, <2>2, <2>3 DEF Places
<1>11. QED
  BY <1>6, <1>7, <1>8, <1>9, <1>10 DEF BusInv

(* The event bus within the whole: the other steps leave the table alone.  *)
LEMMA InputBusInv ==
  ASSUME BusInv, [InputNext]_inputVars
  PROVE  BusInv'
<1>1. CASE KeyboardIrq
  BY <1>1, BusStutter DEF KeyboardIrq, fire_event, tableVars
<1>2. CASE BusCall
  BY <1>2, RegisterInv, UnregisterInv DEF BusCall
<1>3. CASE BusStep
  BY <1>3, CopyTypeInv, CopyCallbackInv, CopyArgInv, CountEntryInv DEF BusStep
<1>4. CASE UserStep \/ BootStep \/ UNCHANGED inputVars
  BY <1>4, BusStutter DEF UserStep, BootStep, inputVars, busVars, tableVars
<1>5. QED
  BY <1>1, <1>2, <1>3, <1>4 DEF InputNext

LEMMA InputInitBus == InputInit => BusInv
<1>1. SUFFICES ASSUME InputInit PROVE BusInv
  OBVIOUS
<1>2. /\ known_callbacks = [k \in 1 .. CALLBACKS_MAX_COUNT |-> IF k = 1 THEN First ELSE NoEntry]
      /\ callbacks_count = 1 /\ job = NoJob /\ panicked = FALSE /\ registered = <<First>>
  BY <1>1 DEF InputInit, BusInit
<1>3. First \in Entries /\ CALLBACKS_MAX_COUNT \in Nat /\ 1 \in 1 .. CALLBACKS_MAX_COUNT
  BY EventBusAssumption DEF Entries, Entry, Known
<1>4. BusTypeOK
  <2> DEFINE R == [event_type : EventTypes \cup {NULL},
                   callback : Callbacks \cup {First.callback, NULL}, arg : Args \cup {NULL}]
  <2>1. First \in R /\ NoEntry \in R
    <3>1. First \in R
      BY <1>3 DEF Entries, Known
    <3>2. NoEntry \in R
      BY DEF NoEntry, Entry
    <3>3. QED
      BY <3>1, <3>2
  <2>2. job.slot = 0
    BY <1>2 DEF NoJob
  <2> HIDE DEF R
  <2>3. known_callbacks \in [1 .. CALLBACKS_MAX_COUNT -> R]
    BY <1>2, <2>1
  <2>4. /\ callbacks_count \in 0 .. CALLBACKS_MAX_COUNT
        /\ job.slot \in 0 .. CALLBACKS_MAX_COUNT /\ panicked \in BOOLEAN
    <3>1. callbacks_count = 1 /\ panicked \in BOOLEAN
      BY <1>2
    <3>2. 0 \in 0 .. CALLBACKS_MAX_COUNT /\ 1 \in 0 .. CALLBACKS_MAX_COUNT
      BY <1>3
    <3>3. QED
      BY <2>2, <3>1, <3>2
  <2>5. QED
    BY <2>3, <2>4, Zenon DEF BusTypeOK, R
<1>5. JobInTable /\ registered \in Seq(Entries)
  BY <1>2, <1>3 DEF JobInTable
<1>6. TableComplete
  <2>1. First.event_type \in EventTypes /\ First.callback \in Known
    BY <1>3 DEF Entries
  <2>2. QED
    BY <1>2, <1>3, <2>1 DEF TableComplete
<1>7. Places([k \in 1 .. 1 |-> 1])
  BY <1>2, <1>3 DEF Places, NoJob
<1>8. QED
  BY <1>4, <1>5, <1>6, <1>7 DEF BusInv

(* The inductive invariant of the event bus holds whenever a task is       *)
(* interrupted in register_event_callback or unregister_event_callback.    *)
THEOREM BusInvariant == InputSpec => []BusInv
<1>1. InputInit => BusInv
  BY InputInitBus
<1>2. BusInv /\ [InputNext]_inputVars => BusInv'
  BY InputBusInv
<1>3. QED
  BY <1>1, <1>2, PTL DEF InputSpec

(* The table of event_bus.c stays within its array, for every size of it,  *)
(* and so does every store of register_event_callback and remove_callback. *)
THEOREM BusTypeCorrect == InputSpec => []BusTypeOK
<1>1. BusInv => BusTypeOK
  BY DEF BusInv
<1>2. QED
  BY <1>1, BusInvariant, PTL

(* fire_event never calls through an entry that is not complete.           *)
THEOREM BusNoNullCallback == InputSpec => []NoNullCallback
<1>1. ASSUME BusInv PROVE NoNullCallback
  <2>1. NULL \notin EventTypes \cup Known
    BY EventBusAssumption DEF Known
  <2>2. QED
    BY <1>1, <2>1 DEF BusInv, TableComplete, NoNullCallback
<1>2. BusInv => NoNullCallback
  BY <1>1
<1>3. QED
  BY <1>2, BusInvariant, PTL

(* Every callback that is registered is called for every event of its      *)
(* type, in the order of registration, also by an interrupt in the middle  *)
(* of the shift of remove_callback.                                        *)
THEOREM BusRegisteredAreCalled == InputSpec => []RegisteredAreCalled
<1>1. ASSUME BusInv PROVE RegisteredAreCalled
  <2>1. PICK f : Places(f)
    BY <1>1 DEF BusInv
  <2>2. /\ f \in [1 .. Len(registered) -> 1 .. callbacks_count]
        /\ \A k \in 1 .. Len(registered) : known_callbacks[f[k]] = registered[k]
        /\ \A j, k \in 1 .. Len(registered) : j < k => f[j] < f[k]
    BY <2>1 DEF Places
  <2>3. Len(Table) = callbacks_count /\ \A k \in 1 .. callbacks_count : Table[k] = known_callbacks[k]
    BY <1>1, TableFacts DEF BusInv
  <2>4. ASSUME NEW ty \in EventTypes
        PROVE  Subsequence(CallsOf(registered, ty), CallsOf(Table, ty))
    <3> DEFINE A == {k \in 1 .. Len(registered) : registered[k].event_type = ty}
               B == {k \in 1 .. callbacks_count : known_callbacks[k].event_type = ty}
               g == [k \in A |-> f[k]]
    <3>1. /\ DOMAIN CallsOf(registered, ty) = A
          /\ \A k \in A : CallsOf(registered, ty)[k] = registered[k]
      BY DEF CallsOf
    <3>2. /\ DOMAIN CallsOf(Table, ty) = B
          /\ \A k \in B : CallsOf(Table, ty)[k] = known_callbacks[k]
      BY <2>3 DEF CallsOf
    <3>3. /\ g \in [A -> B]
          /\ \A k \in A : known_callbacks[g[k]] = registered[k]
          /\ \A j, k \in A : j < k => g[j] < g[k]
      BY <2>2
    <3> HIDE DEF A, B, g
    <3>4. \A k \in A : CallsOf(Table, ty)[g[k]] = CallsOf(registered, ty)[k]
      BY <3>1, <3>2, <3>3
    <3>5. QED
      BY <3>1, <3>2, <3>3, <3>4 DEF Subsequence
  <2>5. QED
    BY <2>4 DEF RegisteredAreCalled
<1>2. BusInv => RegisteredAreCalled
  BY <1>1
<1>3. QED
  BY <1>2, BusInvariant, PTL

(* handle_keypress is called exactly once for every key. *)
LEMMA OneHandler ==
  ASSUME BusInv
  PROVE  Handlers = 1
<1> DEFINE called == CallsOf(Table, EVENT_KEY_PRESS)
           S == {k \in DOMAIN called : called[k].callback = First.callback}
<1>1. Len(Table) = callbacks_count /\ \A k \in 1 .. callbacks_count : Table[k] = known_callbacks[k]
  BY TableFacts DEF BusInv
<1>2. S = {1}
  <2>1. DOMAIN called = {k \in 1 .. callbacks_count : known_callbacks[k].event_type = EVENT_KEY_PRESS}
    BY <1>1 DEF CallsOf
  <2>2. \A k \in DOMAIN called : called[k] = known_callbacks[k]
    BY <1>1, <2>1 DEF CallsOf
  <2>3. 1 \in S
    BY <2>1, <2>2, InputAssumption, BusTypes DEF BusInv, TableComplete
  <2>4. ASSUME NEW k \in S PROVE k = 1
    BY <2>1, <2>2, <2>4, BusTypes DEF BusInv, TableComplete
  <2>5. QED
    BY <2>3, <2>4
<1>3. Cardinality(S) = 1
  BY <1>2, FS_Singleton
<1>4. QED
  BY <1>3 DEF Handlers

-----------------------------------------------------------------------------
(* The keyboard.  The decoder works on bytes that were sent before; what   *)
(* it will have seen when it has caught up is followed by a history of     *)
(* shift over the bytes that are pending.                                  *)

Modifiers == {"SHIFT", "CTL", "ALT"}
Keycodes == {"a", "A", "^A", "1", "!", "end"}

(* h[k] is shift behind the first k bytes of p, when it is s now. *)
Decodes(h, s, p) ==
  /\ h[0] = s
  /\ \A k \in 1 .. Len(p) : h[k] = readcode(h[k - 1], p[k]).shift

(* c[k] of the characters of d are printed by the first k bytes of p. *)
Prints(h, c, p, d) ==
  /\ c \in [0 .. Len(p) -> Nat]
  /\ c[0] = 0 /\ c[Len(p)] = Len(d)
  /\ \A k \in 1 .. Len(p) :
       /\ readcode(h[k - 1], p[k]).keycode = "NO" => c[k] = c[k - 1]
       /\ readcode(h[k - 1], p[k]).keycode # "NO" =>
            c[k] = c[k - 1] + 1 /\ d[c[k]] = readcode(h[k - 1], p[k]).keycode
  /\ \A j, k \in 0 .. Len(p) : j <= k => c[j] <= c[k]

(* d with the character of a keycode behind it, if it has one. *)
Printed(d, code) == IF code = "NO" THEN d ELSE Append(d, code)

(* shift, when all bytes are decoded: no E0 is open and the modifiers are  *)
(* held; unless two keys of one were held at once, exactly those that are. *)
Settled(s, keys) == "E0ESC" \notin s /\ \A f \in Modifiers : f \in s => Held(keys, f)
Exact(s, keys, locked) ==
  (\A f \in Modifiers : Held(keys, f) => f \in s) /\ ("CAPSLOCK" \in s <=> locked)

KbdTypeOK ==
  /\ pending \in Seq(Nat) /\ due \in Seq(Keycodes) /\ down \subseteq Keys
  /\ irq1 \in BOOLEAN /\ unmasked \in BOOLEAN /\ booted \in BOOLEAN
  /\ twins \in BOOLEAN /\ caps \in BOOLEAN
  /\ garbled \in BOOLEAN

(* The inductive invariant of the keyboard. *)
KbdInv ==
  /\ KbdTypeOK
  /\ irq1 => pending # <<>>
  /\ ~booted => pending = <<>> /\ down = {}
  /\ ~twins => \A j, k \in down :
                 j # k => shiftcode(Index(j)) \cap shiftcode(Index(k)) = {}
  /\ \E h : /\ Decodes(h, shift, pending)
            /\ Settled(h[Len(pending)], down)
            /\ ~twins => /\ Exact(h[Len(pending)], down, caps)
                         /\ ~garbled
                         /\ \E c : Prints(h, c, pending, due)

-----------------------------------------------------------------------------
(* What readcode makes of the bytes of a key.                              *)

LEMMA KeyFacts ==
  ASSUME NEW k \in Keys
  PROVE  /\ k.code \in 1 .. 127 /\ k.code # 96 /\ k.ext \in BOOLEAN
         /\ Index(k) = IF k.ext THEN k.code + 128 ELSE k.code
         /\ k = [code |-> k.code, ext |-> k.ext]
BY KeyboardAssumption DEF Index, E0, Break

LEMMA ReadEscape ==
  ASSUME NEW s
  PROVE  readcode(s, E0).shift = s \cup {"E0ESC"} /\ readcode(s, E0).keycode = "NO"
BY DEF readcode

(* shift when the byte behind a possible E0 is decoded. *)
Opened(s, k) == IF k.ext THEN s \cup {"E0ESC"} ELSE s

LEMMA ShiftcodeFlags ==
  ASSUME NEW i
  PROVE  /\ shiftcode(i) \subseteq Modifiers
         /\ togglecode(i) \subseteq {"CAPSLOCK", "NUMLOCK", "SCROLLLOCK"}
         /\ "CAPSLOCK" \in togglecode(i) <=> i = 58
BY DEF shiftcode, togglecode, Modifiers

LEMMA ReadPress ==
  ASSUME NEW k \in Keys, NEW s, "E0ESC" \notin s
  PROVE  LET t == Toggle(s \cup shiftcode(Index(k)), togglecode(Index(k)))
         IN  /\ readcode(Opened(s, k), k.code).shift = t
             /\ readcode(Opened(s, k), k.code).keycode = keycodeOf(t, Index(k))
<1> DEFINE t == Toggle(s \cup shiftcode(Index(k)), togglecode(Index(k)))
           o == Opened(s, k)
<1>1. pressedIndex(o, k.code) = Index(k) /\ o \ {"E0ESC"} = s
  BY KeyFacts DEF pressedIndex, Opened, Break
<1>2. pressed(o, Index(k)) = t
  BY <1>1 DEF pressed
<1>3. k.code # E0 /\ ~(k.code >= Break)
  BY KeyFacts DEF E0, Break
<1> HIDE DEF o, t
<1>4. readcode(o, k.code) = [shift |-> t, keycode |-> keycodeOf(t, Index(k))]
  BY <1>1, <1>2, <1>3 DEF readcode
<1>5. QED
  BY <1>4 DEF o, t

LEMMA ReadRelease ==
  ASSUME NEW k \in Keys, NEW s, "E0ESC" \notin s
  PROVE  /\ readcode(Opened(s, k), k.code + Break).shift = s \ shiftcode(Index(k))
         /\ readcode(Opened(s, k), k.code + Break).keycode = "NO"
<1> DEFINE o == Opened(s, k)
<1>1. (IF "E0ESC" \in o THEN k.code + Break ELSE (k.code + Break) % Break) = Index(k)
  BY KeyFacts DEF Opened, Break
<1>2. released(o, k.code + Break) = s \ shiftcode(Index(k))
  <2>1. o \ {"E0ESC"} = s
    BY DEF Opened
  <2> HIDE DEF o
  <2>2. QED
    BY <1>1, <2>1 DEF released
<1>3. k.code + Break # E0 /\ k.code + Break >= Break
  BY KeyFacts DEF E0, Break
<1> HIDE DEF o
<1>4. readcode(o, k.code + Break) = [shift |-> s \ shiftcode(Index(k)), keycode |-> "NO"]
  BY <1>2, <1>3 DEF readcode
<1>5. QED
  BY <1>4 DEF o

(* A key that is decoded with the modifiers that were held when it was     *)
(* pressed prints what was meant.                                          *)
LEMMA PressPrints ==
  ASSUME NEW k \in Keys, NEW s, Settled(s, down), Exact(s, down, caps), caps \in BOOLEAN
  PROVE  /\ keycodeOf(Toggle(s \cup shiftcode(Index(k)), togglecode(Index(k))), Index(k)) = Meant(k)
         /\ Meant(k) \in Keycodes \cup {"NO"}
<1> DEFINE i == Index(k)
           t == Toggle(s \cup shiftcode(i), togglecode(i))
<1>1. Meant(k) \in Keycodes \cup {"NO"}
  BY DEF Meant, ctlmap, shiftmap, normalmap, SwapCase, Keycodes
<1>2. CASE i \in {2, 30, 79, 207}
  <2>1. shiftcode(i) = {} /\ togglecode(i) = {}
    BY <1>2 DEF shiftcode, togglecode
  <2>2. t = s
    BY <2>1 DEF Toggle
  <2>3. ("CTL" \in s <=> Held(down, "CTL")) /\ ("SHIFT" \in s <=> Held(down, "SHIFT"))
    BY DEF Settled, Exact, Modifiers
  <2> HIDE DEF i, t
  <2>4. charcode(s, i) = CASE Held(down, "CTL")   -> ctlmap(i)
                           [] Held(down, "SHIFT") -> shiftmap(i)
                           [] OTHER               -> normalmap(i)
    BY <2>3 DEF charcode
  <2>5. keycodeOf(s, i) = Meant(k)
    BY <2>4 DEF keycodeOf, Meant, Exact, i
  <2>6. QED
    BY <1>1, <2>2, <2>5 DEF i, t
<1>3. CASE i \notin {2, 30, 79, 207}
  <2>1. ctlmap(i) = "NO" /\ shiftmap(i) = "NO" /\ normalmap(i) = "NO"
    BY <1>3 DEF ctlmap, shiftmap, normalmap
  <2> HIDE DEF i, t
  <2>2. keycodeOf(t, i) = "NO"
    BY <2>1 DEF keycodeOf, charcode, SwapCase
  <2>3. Meant(k) = "NO"
    BY <2>1 DEF Meant, SwapCase, i
  <2>4. QED
    BY <1>1, <2>2, <2>3 DEF i, t
<1>4. QED
  BY <1>2, <1>3

-----------------------------------------------------------------------------
(* The history when a byte is sent and when one is decoded.                *)

LEMMA ReadKeycode ==
  ASSUME NEW s, NEW b
  PROVE  readcode(s, b).keycode \in Keycodes \cup {"NO"}
<1>1. ASSUME NEW t, NEW i PROVE keycodeOf(t, i) \in Keycodes \cup {"NO"}
  BY DEF keycodeOf, charcode, SwapCase, ctlmap, shiftmap, normalmap, Keycodes
<1>2. QED
  BY <1>1 DEF readcode

(* One more byte in the controller. *)
LEMMA AppendByte ==
  ASSUME NEW h, NEW s, NEW p \in Seq(Nat), NEW b \in Nat, Decodes(h, s, p)
  PROVE  \E g : /\ Decodes(g, s, Append(p, b))
                /\ g[Len(p) + 1] = readcode(h[Len(p)], b).shift
                /\ \A d \in Seq(Keycodes) : \A c : Prints(h, c, p, d) =>
                     \E e : Prints(g, e, Append(p, b), Printed(d, readcode(h[Len(p)], b).keycode))
<1> DEFINE n == Len(p)
           q == Append(p, b)
           r == readcode(h[n], b)
           g == [k \in 0 .. n + 1 |-> IF k <= n THEN h[k] ELSE r.shift]
<1>1. /\ n \in Nat /\ Len(q) = n + 1 /\ q[n + 1] = b
      /\ \A k \in 1 .. n : q[k] = p[k]
  OBVIOUS
<1>2. (\A k \in 0 .. n : g[k] = h[k]) /\ g[n + 1] = r.shift
  BY <1>1
<1>3. r.keycode \in Keycodes \cup {"NO"}
  BY ReadKeycode
<1> HIDE DEF n, q, r, g
<1>4. \A k \in 1 .. n : g[k - 1] = h[k - 1]
  BY <1>1, <1>2
<1>5. g[(n + 1) - 1] = h[n]
  BY <1>1, <1>2
<1>6. Decodes(g, s, q)
  <2>1. g[0] = s
    BY <1>1, <1>2 DEF Decodes
  <2>2. ASSUME NEW k \in 1 .. n + 1 PROVE g[k] = readcode(g[k - 1], q[k]).shift
    <3>1. CASE k \in 1 .. n
      BY <1>1, <1>2, <1>4, <3>1 DEF Decodes, n
    <3>2. CASE k = n + 1
      BY <1>1, <1>2, <1>5, <3>2 DEF r
    <3>3. QED
      BY <1>1, <3>1, <3>2
  <2>3. QED
    BY <1>1, <2>1, <2>2 DEF Decodes
<1>7. ASSUME NEW d \in Seq(Keycodes), NEW c, Prints(h, c, p, d)
      PROVE  \E e : Prints(g, e, q, Printed(d, r.keycode))
  <2> DEFINE m == IF r.keycode = "NO" THEN c[n] ELSE c[n] + 1
             e == [k \in 0 .. n + 1 |-> IF k <= n THEN c[k] ELSE m]
             d2 == Printed(d, r.keycode)
  <2>1. /\ c \in [0 .. n -> Nat] /\ c[0] = 0 /\ c[n] = Len(d) /\ c[n] \in Nat
        /\ \A j, k \in 0 .. n : j <= k => c[j] <= c[k]
    BY <1>1, <1>7 DEF Prints, n
  <2>2. /\ e \in [0 .. n + 1 -> Nat] /\ e[n + 1] = m
        /\ \A k \in 0 .. n : e[k] = c[k]
    BY <1>1, <2>1
  <2>3. Len(d2) = m /\ (r.keycode # "NO" => d2[m] = r.keycode) /\ m \in Nat /\ m >= c[n]
    BY <1>3, <2>1 DEF Printed
  <2>4. \A j \in 1 .. Len(d) : d2[j] = d[j]
    BY <1>3 DEF Printed
  <2>5. (r.keycode = "NO" => m = c[n]) /\ (r.keycode # "NO" => m = c[n] + 1)
    OBVIOUS
  <2> HIDE DEF m, e, d2
  <2>6. ASSUME NEW k \in 1 .. n + 1
        PROVE  /\ readcode(g[k - 1], q[k]).keycode = "NO" => e[k] = e[k - 1]
               /\ readcode(g[k - 1], q[k]).keycode # "NO" =>
                    e[k] = e[k - 1] + 1 /\ d2[e[k]] = readcode(g[k - 1], q[k]).keycode
    <3>1. CASE k \in 1 .. n
      <4>1. g[k - 1] = h[k - 1] /\ q[k] = p[k] /\ e[k] = c[k] /\ e[k - 1] = c[k - 1]
        BY <1>1, <1>4, <2>2, <3>1
      <4>2. /\ readcode(h[k - 1], p[k]).keycode = "NO" => c[k] = c[k - 1]
            /\ readcode(h[k - 1], p[k]).keycode # "NO" =>
                 c[k] = c[k - 1] + 1 /\ d[c[k]] = readcode(h[k - 1], p[k]).keycode
        BY <1>7, <3>1 DEF Prints, n
      <4>3. c[k] \in Nat /\ c[k - 1] \in Nat /\ c[k] <= Len(d) /\ Len(d) \in Nat
        BY <1>1, <2>1, <3>1
      <4>4. readcode(h[k - 1], p[k]).keycode # "NO" => c[k] \in 1 .. Len(d)
        BY <4>2, <4>3
      <4>5. QED
        BY <2>4, <4>1, <4>2, <4>4
    <3>2. CASE k = n + 1
      <4>1. g[k - 1] = h[n] /\ q[k] = b /\ e[k] = m /\ e[k - 1] = c[n]
        BY <1>1, <1>5, <2>2, <3>2
      <4>2. QED
        BY <2>3, <2>5, <4>1 DEF r
    <3>3. QED
      BY <1>1, <3>1, <3>2
  <2>7. ASSUME NEW j \in 0 .. n + 1, NEW k \in 0 .. n + 1, j <= k PROVE e[j] <= e[k]
    <3>1. CASE k \in 0 .. n
      BY <1>1, <2>1, <2>2, <2>7, <3>1
    <3>2. CASE k = n + 1 /\ j \in 0 .. n
      BY <1>1, <2>1, <2>2, <2>3, <3>2
    <3>3. CASE k = n + 1 /\ j = n + 1
      BY <2>2, <2>3, <3>3
    <3>4. QED
      BY <1>1, <3>1, <3>2, <3>3
  <2>8. e[0] = 0 /\ e[n + 1] = Len(d2)
    BY <1>1, <2>1, <2>2, <2>3
  <2>9. Prints(g, e, q, d2)
    BY <1>1, <2>2, <2>6, <2>7, <2>8 DEF Prints
  <2>10. QED
    BY <2>9 DEF d2
<1>8. QED
  BY <1>2, <1>6, <1>7 DEF n, q, r

(* The bytes of a key, with an E0 in front or not. *)
LEMMA SendKey ==
  ASSUME NEW h, NEW s, NEW p \in Seq(Nat), Decodes(h, s, p), NEW k \in Keys, NEW b \in Nat
  PROVE  LET q == p \o Bytes(k, b)
             r == readcode(Opened(h[Len(p)], k), b)
         IN  /\ q \in Seq(Nat) /\ q # <<>>
             /\ \E g : /\ Decodes(g, s, q) /\ g[Len(q)] = r.shift
                       /\ \A d \in Seq(Keycodes) : \A c : Prints(h, c, p, d) =>
                            \E e : Prints(g, e, q, Printed(d, r.keycode))
<1> DEFINE n == Len(p)
<1>1. CASE ~k.ext
  <2>1. p \o Bytes(k, b) = Append(p, b) /\ Len(Append(p, b)) = n + 1
    BY <1>1 DEF Bytes
  <2>2. Append(p, b) \in Seq(Nat) /\ Append(p, b) # <<>>
    <3>1. n \in Nat /\ n + 1 # 0 /\ Len(<<>>) = 0 /\ Append(p, b) \in Seq(Nat)
      OBVIOUS
    <3>2. QED
      BY <2>1, <3>1
  <2>3. Opened(h[n], k) = h[n]
    BY <1>1 DEF Opened
  <2>4. PICK g : /\ Decodes(g, s, Append(p, b)) /\ g[n + 1] = readcode(h[n], b).shift
                 /\ \A d \in Seq(Keycodes) : \A c : Prints(h, c, p, d) =>
                      \E e : Prints(g, e, Append(p, b), Printed(d, readcode(h[n], b).keycode))
    BY AppendByte
  <2>5. QED
    BY <2>1, <2>2, <2>3, <2>4, Zenon
<1>2. CASE k.ext
  <2> DEFINE p1 == Append(p, E0)
             p2 == Append(p1, b)
  <2>1. /\ p1 \in Seq(Nat) /\ Len(p1) = n + 1 /\ E0 \in Nat
        /\ p2 \in Seq(Nat) /\ Len(p2) = Len(p1) + 1 /\ p2 # <<>>
    BY DEF E0
  <2>2. p \o Bytes(k, b) = p2
    BY <1>2, <2>1 DEF Bytes
  <2>3. PICK f : /\ Decodes(f, s, p1) /\ f[n + 1] = readcode(h[n], E0).shift
                 /\ \A d \in Seq(Keycodes) : \A c : Prints(h, c, p, d) =>
                      \E e : Prints(f, e, p1, Printed(d, readcode(h[n], E0).keycode))
    BY <2>1, AppendByte
  <2>4. f[Len(p1)] = Opened(h[n], k)
    BY <1>2, <2>1, <2>3, ReadEscape DEF Opened
  <2>5. \A d \in Seq(Keycodes) : \A c : Prints(h, c, p, d) => \E e : Prints(f, e, p1, d)
    BY <2>3, ReadEscape DEF Printed
  <2> HIDE DEF p1
  <2>6. PICK g : /\ Decodes(g, s, p2) /\ g[Len(p1) + 1] = readcode(f[Len(p1)], b).shift
                 /\ \A d \in Seq(Keycodes) : \A c : Prints(f, c, p1, d) =>
                      \E e : Prints(g, e, p2, Printed(d, readcode(f[Len(p1)], b).keycode))
    BY <2>1, <2>3, AppendByte
  <2> HIDE DEF p2
  <2>7. g[Len(p2)] = readcode(Opened(h[n], k), b).shift
    BY <2>1, <2>4, <2>6
  <2>8. \A d \in Seq(Keycodes) : \A c : Prints(h, c, p, d) =>
          \E e : Prints(g, e, p2, Printed(d, readcode(Opened(h[n], k), b).keycode))
    BY <2>4, <2>5, <2>6
  <2>9. QED
    BY <2>1, <2>2, <2>6, <2>7, <2>8
<1>3. QED
  BY <1>1, <1>2

LEMMA CountUp ==
  ASSUME NEW a \in Nat, NEW b \in Nat, NEW n \in Nat, a <= b, b + 1 <= n
  PROVE  (b + 1) - a = (b - a) + 1 /\ b + 1 \in a + 1 .. n
OBVIOUS

LEMMA CountDown ==
  ASSUME NEW n \in Nat, NEW x \in 2 .. n
  PROVE  x - 1 \in 1 .. n - 1 /\ (x - 1) + 1 = x
OBVIOUS

(* The first byte is decoded: the rest of the history stays. *)
LEMMA DecodeByte ==
  ASSUME NEW h, NEW s, NEW p \in Seq(Nat), p # <<>>, Decodes(h, s, p)
  PROVE  LET r == readcode(s, Head(p))
         IN  \E g : /\ Decodes(g, r.shift, Tail(p))
                    /\ g[Len(Tail(p))] = h[Len(p)]
                    /\ \A d \in Seq(Keycodes) : \A c : Prints(h, c, p, d) =>
                         /\ r.keycode = "NO" => \E e : Prints(g, e, Tail(p), d)
                         /\ r.keycode # "NO" =>
                              /\ d # <<>> /\ Head(d) = r.keycode
                              /\ \E e : Prints(g, e, Tail(p), Tail(d))
<1> DEFINE n == Len(p)
           q == Tail(p)
           r == readcode(s, Head(p))
           g == [k \in 0 .. n - 1 |-> h[k + 1]]
<1>1. /\ n \in Nat /\ n >= 1 /\ Len(q) = n - 1 /\ Head(p) = p[1]
      /\ \A k \in 1 .. n - 1 : q[k] = p[k + 1]
  OBVIOUS
<1>2. \A k \in 0 .. n - 1 : g[k] = h[k + 1]
  OBVIOUS
<1>3. h[0] = s /\ \A k \in 1 .. n : h[k] = readcode(h[k - 1], p[k]).shift
  BY DEF Decodes
<1> HIDE DEF n, q, g
<1>4. h[1] = r.shift /\ r = readcode(h[0], p[1])
  <2>1. 1 \in 1 .. n /\ 1 - 1 = 0
    BY <1>1
  <2>2. QED
    BY <1>1, <1>3, <2>1
<1> HIDE DEF r
<1>5. ASSUME NEW k \in 1 .. n - 1
      PROVE  /\ k + 1 \in 1 .. n /\ (k + 1) - 1 = k
             /\ g[k] = h[k + 1] /\ g[k - 1] = h[k] /\ q[k] = p[k + 1]
  BY <1>1, <1>2
<1>6. Decodes(g, r.shift, q) /\ g[n - 1] = h[n]
  <2>1. g[0] = r.shift /\ g[n - 1] = h[n]
    BY <1>1, <1>2, <1>4
  <2>2. \A k \in 1 .. n - 1 : g[k] = readcode(g[k - 1], q[k]).shift
    BY <1>3, <1>5
  <2>3. QED
    BY <1>1, <2>1, <2>2 DEF Decodes
<1>7. ASSUME NEW d \in Seq(Keycodes), NEW c, Prints(h, c, p, d)
      PROVE  /\ r.keycode = "NO" => \E e : Prints(g, e, q, d)
             /\ r.keycode # "NO" =>
                  d # <<>> /\ Head(d) = r.keycode /\ \E e : Prints(g, e, q, Tail(d))
  <2>1. /\ c \in [0 .. n -> Nat] /\ c[0] = 0 /\ c[n] = Len(d)
        /\ \A j, k \in 0 .. n : j <= k => c[j] <= c[k]
        /\ Len(d) \in Nat
    BY <1>7 DEF Prints, n
  <2>2. \A k \in 1 .. n :
          /\ readcode(h[k - 1], p[k]).keycode = "NO" => c[k] = c[k - 1]
          /\ readcode(h[k - 1], p[k]).keycode # "NO" =>
               c[k] = c[k - 1] + 1 /\ d[c[k]] = readcode(h[k - 1], p[k]).keycode
    BY <1>7 DEF Prints, n
  <2>3. /\ r.keycode = "NO" => c[1] = 0
        /\ r.keycode # "NO" => c[1] = 1 /\ d[1] = r.keycode
    <3>1. 1 \in 1 .. n /\ 1 - 1 = 0
      BY <1>1
    <3>2. /\ readcode(h[0], p[1]).keycode = "NO" => c[1] = c[0]
          /\ readcode(h[0], p[1]).keycode # "NO" =>
               c[1] = c[0] + 1 /\ d[c[1]] = readcode(h[0], p[1]).keycode
      BY <2>2, <3>1
    <3>3. QED
      BY <1>4, <2>1, <3>2
  <2>4. \A k \in 1 .. n : c[k] \in Nat /\ c[1] <= c[k] /\ c[k] <= Len(d)
    BY <1>1, <2>1
  <2> DEFINE e == [k \in 0 .. n - 1 |-> c[k + 1] - c[1]]
  <2>5. e \in [0 .. n - 1 -> Nat] /\ \A k \in 0 .. n - 1 : e[k] = c[k + 1] - c[1]
    BY <1>1, <2>4
  <2> HIDE DEF e
  <2>6. e[0] = 0 /\ e[n - 1] = Len(d) - c[1]
    BY <1>1, <2>1, <2>4, <2>5
  <2>7. ASSUME NEW j \in 0 .. n - 1, NEW k \in 0 .. n - 1, j <= k PROVE e[j] <= e[k]
    <3>1. c[j + 1] <= c[k + 1] /\ c[j + 1] \in Nat /\ c[k + 1] \in Nat /\ c[1] \in Nat
      BY <1>1, <2>1, <2>4, <2>7
    <3>2. QED
      BY <2>5, <3>1
  <2>8. ASSUME NEW k \in 1 .. n - 1
        PROVE  /\ readcode(g[k - 1], q[k]).keycode = "NO" => e[k] = e[k - 1]
               /\ readcode(g[k - 1], q[k]).keycode # "NO" =>
                    /\ e[k] = e[k - 1] + 1 /\ c[k + 1] \in c[1] + 1 .. Len(d)
                    /\ d[c[k + 1]] = readcode(g[k - 1], q[k]).keycode
    <3>1. /\ k \in 1 .. n /\ k \in 0 .. n - 1 /\ k - 1 \in 0 .. n - 1 /\ (k - 1) + 1 = k
      BY <1>1
    <3>2. /\ e[k] = c[k + 1] - c[1] /\ e[k - 1] = c[k] - c[1]
          /\ c[k + 1] \in Nat /\ c[k] \in Nat /\ c[1] \in Nat /\ c[1] <= c[k] /\ c[k + 1] <= Len(d)
      <4>1. k + 1 \in 1 .. n /\ 1 \in 1 .. n
        BY <1>1, <1>5
      <4>2. /\ c[k + 1] \in Nat /\ c[k] \in Nat /\ c[1] \in Nat
            /\ c[1] <= c[k] /\ c[k + 1] <= Len(d)
        BY <2>4, <3>1, <4>1
      <4>3. e[k] = c[k + 1] - c[1]
        BY <2>5, <3>1
      <4>4. e[k - 1] = c[(k - 1) + 1] - c[1]
        BY <2>5, <3>1
      <4>5. QED
        BY <3>1, <4>2, <4>3, <4>4
    <3>3. /\ readcode(h[k], p[k + 1]).keycode = "NO" => c[k + 1] = c[k]
          /\ readcode(h[k], p[k + 1]).keycode # "NO" =>
               c[k + 1] = c[k] + 1 /\ d[c[k + 1]] = readcode(h[k], p[k + 1]).keycode
      BY <1>5, <2>2
    <3> DEFINE K == readcode(h[k], p[k + 1]).keycode
    <3>4. readcode(g[k - 1], q[k]).keycode = K
      BY <1>5
    <3>5. (K = "NO" => c[k + 1] = c[k]) /\ (K # "NO" => c[k + 1] = c[k] + 1 /\ d[c[k + 1]] = K)
      BY <3>3
    <3> HIDE DEF K
    <3>6. K = "NO" => e[k] = e[k - 1]
      BY <3>2, <3>5
    <3>7. K # "NO" => e[k] = e[k - 1] + 1 /\ c[k + 1] \in c[1] + 1 .. Len(d)
      <4>1. Len(d) \in Nat
        OBVIOUS
      <4>2. K # "NO" => c[k + 1] = c[k] + 1 /\ c[k] + 1 <= Len(d)
        BY <3>2, <3>5
      <4>3. QED
        BY <3>2, <4>1, <4>2, CountUp
    <3>8. QED
      BY <3>4, <3>5, <3>6, <3>7
  <2>9. CASE r.keycode = "NO"
    <3>1. c[1] = 0
      BY <2>3, <2>9
    <3>2. ASSUME NEW k \in 1 .. n - 1 PROVE e[k] = c[k + 1]
      <4>1. e[k] = c[k + 1] - c[1] /\ c[k + 1] \in Nat
        BY <1>1, <1>5, <2>4, <2>5
      <4>2. QED
        BY <3>1, <4>1
    <3>3. \A k \in 1 .. n - 1 :
            /\ readcode(g[k - 1], q[k]).keycode = "NO" => e[k] = e[k - 1]
            /\ readcode(g[k - 1], q[k]).keycode # "NO" =>
                 e[k] = e[k - 1] + 1 /\ d[e[k]] = readcode(g[k - 1], q[k]).keycode
      BY <2>8, <3>2
    <3>4. e[n - 1] = Len(d)
      BY <2>1, <2>6, <3>1
    <3>5. Prints(g, e, q, d)
      BY <1>1, <2>5, <2>6, <2>7, <3>3, <3>4 DEF Prints
    <3>6. QED
      BY <2>9, <3>5
  <2>10. CASE r.keycode # "NO"
    <3>1. c[1] = 1 /\ d[1] = r.keycode /\ Len(d) >= 1
      BY <1>1, <2>3, <2>4, <2>10
    <3>2. /\ d # <<>> /\ Head(d) = r.keycode /\ Len(Tail(d)) = Len(d) - 1
          /\ \A j \in 1 .. Len(d) - 1 : Tail(d)[j] = d[j + 1]
      BY <3>1
    <3>3. ASSUME NEW k \in 1 .. n - 1, c[k + 1] \in 2 .. Len(d)
          PROVE  Tail(d)[e[k]] = d[c[k + 1]]
      <4>1. e[k] = c[k + 1] - 1
        <5>1. k \in 0 .. n - 1
          BY <1>1
        <5>2. QED
          BY <2>5, <3>1, <5>1
      <4>2. e[k] \in 1 .. Len(d) - 1 /\ e[k] + 1 = c[k + 1]
        <5>1. Len(d) \in Nat
          OBVIOUS
        <5>2. QED
          BY <3>3, <4>1, <5>1, CountDown
      <4>3. QED
        BY <3>2, <4>2
    <3>4. \A k \in 1 .. n - 1 :
            /\ readcode(g[k - 1], q[k]).keycode = "NO" => e[k] = e[k - 1]
            /\ readcode(g[k - 1], q[k]).keycode # "NO" =>
                 e[k] = e[k - 1] + 1 /\ Tail(d)[e[k]] = readcode(g[k - 1], q[k]).keycode
      <4>1. \A j : j \in c[1] + 1 .. Len(d) => j \in 2 .. Len(d)
        BY <2>1, <3>1
      <4>2. QED
        BY <2>8, <3>3, <4>1
    <3>5. e[n - 1] = Len(Tail(d))
      BY <2>6, <3>1, <3>2
    <3>6. Prints(g, e, q, Tail(d))
      BY <1>1, <2>5, <2>6, <2>7, <3>4, <3>5 DEF Prints
    <3>7. QED
      BY <2>10, <3>2, <3>6
  <2>11. QED
    BY <2>9, <2>10
<1>8. QED
  BY <1>1, <1>6, <1>7 DEF n, q, r

-----------------------------------------------------------------------------
(* The steps of keyboard and user keep the invariant.                      *)

(* The flags behind a pressed key. *)
LEMMA ToggleFlags ==
  ASSUME NEW s, NEW i
  PROVE  LET t == Toggle(s \cup shiftcode(i), togglecode(i))
         IN  /\ \A f \in Modifiers : f \in t <=> f \in s \/ f \in shiftcode(i)
             /\ "E0ESC" \in t <=> "E0ESC" \in s
             /\ "CAPSLOCK" \in t <=> ("CAPSLOCK" \in s <=> i # 58)
<1>1. /\ \A f \in Modifiers : f \notin togglecode(i)
      /\ "E0ESC" \notin togglecode(i) /\ "E0ESC" \notin shiftcode(i)
      /\ "CAPSLOCK" \notin shiftcode(i) /\ ("CAPSLOCK" \in togglecode(i) <=> i = 58)
  BY ShiftcodeFlags DEF Modifiers
<1>2. QED
  BY <1>1 DEF Toggle

LEMMA CapsKey ==
  ASSUME NEW k \in Keys
  PROVE  Index(k) = 58 <=> k = KeyCaps
<1>1. CASE k.ext
  BY <1>1, KeyFacts DEF KeyCaps, Key
<1>2. CASE ~k.ext
  <2>1. k.ext = FALSE /\ Index(k) = k.code
    BY <1>2, KeyFacts
  <2>2. k.code = 58 => k = [code |-> 58, ext |-> FALSE]
    BY <2>1, KeyFacts
  <2>3. QED
    BY <2>1, <2>2 DEF KeyCaps, Key
<1>3. QED
  BY <1>1, <1>2

(* A history for the next state makes the invariant hold there. *)
LEMMA KbdInvFrom ==
  ASSUME KbdTypeOK', irq1' => pending' # <<>>, ~booted' => pending' = <<>> /\ down' = {},
         ~twins' => \A j, k \in down' :
                      j # k => shiftcode(Index(j)) \cap shiftcode(Index(k)) = {},
         NEW g, Decodes(g, shift', pending'), Settled(g[Len(pending')], down'),
         ~twins' => /\ Exact(g[Len(pending')], down', caps') /\ ~garbled'
                    /\ \E c : Prints(g, c, pending', due')
  PROVE  KbdInv'
BY DEF KbdInv

(* A key is pressed: its modifier counts as held from now on, and what it  *)
(* prints is due behind what is due already.                               *)
LEMMA PressInv ==
  ASSUME ~BootKeys, KbdInv, NEW k \in Keys, Press(k)
  PROVE  KbdInv'
<1> DEFINE i == Index(k)
<1>1. /\ booted
      /\ down' = down \cup {k}
      /\ twins' = (twins \/ \E d \in down \ {k} : shiftcode(Index(d)) \cap shiftcode(i) # {})
      /\ caps' = IF k = KeyCaps THEN ~caps ELSE caps
      /\ due' = Printed(due, Meant(k))
      /\ pending' = pending \o Bytes(k, k.code) /\ irq1' = (irq1 \/ (unmasked /\ pending = <<>>))
      /\ UNCHANGED <<shift, unmasked, booted, event, garbled>>
  BY DEF Press, Send, Printed
<1>2. PICK h : /\ Decodes(h, shift, pending) /\ Settled(h[Len(pending)], down)
               /\ ~twins => /\ Exact(h[Len(pending)], down, caps) /\ ~garbled
                            /\ \E c : Prints(h, c, pending, due)
  BY DEF KbdInv
<1>3. /\ pending \in Seq(Nat) /\ due \in Seq(Keycodes) /\ down \subseteq Keys /\ caps \in BOOLEAN
      /\ irq1 \in BOOLEAN /\ twins \in BOOLEAN /\ garbled \in BOOLEAN
      /\ unmasked \in BOOLEAN /\ booted \in BOOLEAN
  BY DEF KbdInv, KbdTypeOK
<1>4. PICK s : s = h[Len(pending)]
  OBVIOUS
<1>5. PICK t : t = Toggle(s \cup shiftcode(i), togglecode(i))
  OBVIOUS
<1>6. "E0ESC" \notin s /\ k.code \in Nat
  <2>1. "E0ESC" \notin s
    BY <1>2, <1>4 DEF Settled
  <2>2. k.code \in Nat
    BY KeyFacts
  <2>3. QED
    BY <2>1, <2>2
<1>7. /\ readcode(Opened(s, k), k.code).shift = t
      /\ readcode(Opened(s, k), k.code).keycode = keycodeOf(t, i)
  BY <1>5, <1>6, ReadPress
<1> HIDE DEF i
<1>8. /\ pending' \in Seq(Nat) /\ pending' # <<>>
      /\ \E g : /\ Decodes(g, shift, pending') /\ g[Len(pending')] = t
                /\ \A d \in Seq(Keycodes) : \A c : Prints(h, c, pending, d) =>
                     \E e : Prints(g, e, pending', Printed(d, keycodeOf(t, i)))
  <2> DEFINE q == pending \o Bytes(k, k.code)
             r == readcode(Opened(h[Len(pending)], k), k.code)
  <2>1. /\ q \in Seq(Nat) /\ q # <<>>
        /\ \E g : /\ Decodes(g, shift, q) /\ g[Len(q)] = r.shift
                  /\ \A d \in Seq(Keycodes) : \A c : Prints(h, c, pending, d) =>
                       \E e : Prints(g, e, q, Printed(d, r.keycode))
    BY <1>2, <1>3, <1>6, SendKey
  <2>2. pending' = q /\ r.shift = t /\ r.keycode = keycodeOf(t, i)
    BY <1>1, <1>4, <1>7
  <2> HIDE DEF q, r
  <2>3. QED
    BY <2>1, <2>2
<1>9. PICK g : /\ Decodes(g, shift, pending') /\ g[Len(pending')] = t
               /\ \A d \in Seq(Keycodes) : \A c : Prints(h, c, pending, d) =>
                    \E e : Prints(g, e, pending', Printed(d, keycodeOf(t, i)))
  BY <1>8
<1>10. /\ \A f \in Modifiers : f \in t <=> f \in s \/ f \in shiftcode(i)
       /\ "E0ESC" \notin t
       /\ "CAPSLOCK" \in t <=> ("CAPSLOCK" \in s <=> k # KeyCaps)
  BY <1>5, <1>6, ToggleFlags, CapsKey DEF i
<1>11. \A f : Held(down', f) <=> Held(down, f) \/ f \in shiftcode(i)
  BY <1>1 DEF Held, i
<1>12. Settled(t, down')
  BY <1>2, <1>4, <1>10, <1>11 DEF Settled
<1>13. ASSUME ~twins'
       PROVE  /\ Exact(t, down', caps') /\ ~garbled' /\ \E c : Prints(g, c, pending', due')
  <2>1. ~twins
    BY <1>1, <1>3, <1>13
  <2>2. Exact(s, down, caps) /\ ~garbled
    BY <1>2, <1>4, <2>1
  <2>3. Exact(t, down', caps')
    BY <1>1, <1>3, <1>10, <1>11, <2>2 DEF Exact
  <2>4. keycodeOf(t, i) = Meant(k)
    BY <1>2, <1>3, <1>4, <1>5, <2>2, PressPrints DEF i
  <2>5. \E c : Prints(g, c, pending', due')
    BY <1>1, <1>2, <1>3, <1>9, <2>1, <2>4
  <2>6. QED
    BY <1>1, <2>2, <2>3, <2>5
<1>14. due' \in Seq(Keycodes)
  <2>1. Meant(k) \in Keycodes \cup {"NO"}
    BY DEF Meant, ctlmap, shiftmap, normalmap, SwapCase, Keycodes
  <2>2. QED
    BY <1>1, <1>3, <2>1 DEF Printed
<1>15. ASSUME ~twins', NEW a \in down', NEW b \in down', a # b
       PROVE  shiftcode(Index(a)) \cap shiftcode(Index(b)) = {}
  <2>1. ~twins /\ \A d \in down \ {k} : shiftcode(Index(d)) \cap shiftcode(i) = {}
    BY <1>1, <1>3, <1>15
  <2>2. \A x, y \in down : x # y => shiftcode(Index(x)) \cap shiftcode(Index(y)) = {}
    BY <2>1 DEF KbdInv
  <2>3. QED
    BY <1>1, <1>15, <2>1, <2>2 DEF i
<1>16. KbdTypeOK'
  <2>1. twins' \in BOOLEAN /\ caps' \in BOOLEAN /\ irq1' \in BOOLEAN
    BY <1>1, <1>3
  <2>2. QED
    BY <1>1, <1>3, <1>8, <1>14, <2>1 DEF KbdTypeOK
<1>17. QED
  BY <1>1, <1>8, <1>9, <1>12, <1>13, <1>15, <1>16, KbdInvFrom

(* A key is released: its modifier goes, unless it is still held. *)
LEMMA ReleaseInv ==
  ASSUME KbdInv, NEW k \in Keys, Release(k)
  PROVE  KbdInv'
<1> DEFINE i == Index(k)
<1>1. /\ k \in down /\ down' = down \ {k}
      /\ pending' = pending \o Bytes(k, k.code + Break) /\ irq1' = (irq1 \/ (unmasked /\ pending = <<>>))
      /\ UNCHANGED <<shift, unmasked, booted, event, twins, caps, due, garbled>>
  BY DEF Release, Send, checkVars
<1>2. PICK h : /\ Decodes(h, shift, pending) /\ Settled(h[Len(pending)], down)
               /\ ~twins => /\ Exact(h[Len(pending)], down, caps) /\ ~garbled
                            /\ \E c : Prints(h, c, pending, due)
  BY DEF KbdInv
<1>3. /\ pending \in Seq(Nat) /\ due \in Seq(Keycodes) /\ down \subseteq Keys /\ caps \in BOOLEAN
      /\ irq1 \in BOOLEAN /\ twins \in BOOLEAN /\ garbled \in BOOLEAN
      /\ unmasked \in BOOLEAN /\ booted \in BOOLEAN
  BY DEF KbdInv, KbdTypeOK
<1>4. PICK s : s = h[Len(pending)]
  OBVIOUS
<1>5. PICK t : t = s \ shiftcode(i)
  OBVIOUS
<1>6. "E0ESC" \notin s /\ k.code + Break \in Nat
  <2>1. "E0ESC" \notin s
    BY <1>2, <1>4 DEF Settled
  <2>2. k.code + Break \in Nat
    BY KeyFacts DEF Break
  <2>3. QED
    BY <2>1, <2>2
<1>7. /\ readcode(Opened(s, k), k.code + Break).shift = t
      /\ readcode(Opened(s, k), k.code + Break).keycode = "NO"
  BY <1>5, <1>6, ReadRelease
<1> HIDE DEF i
<1>8. /\ pending' \in Seq(Nat) /\ pending' # <<>>
      /\ \E g : /\ Decodes(g, shift, pending') /\ g[Len(pending')] = t
                /\ \A d \in Seq(Keycodes) : \A c : Prints(h, c, pending, d) =>
                     \E e : Prints(g, e, pending', Printed(d, "NO"))
  <2> DEFINE q == pending \o Bytes(k, k.code + Break)
             r == readcode(Opened(h[Len(pending)], k), k.code + Break)
  <2>1. /\ q \in Seq(Nat) /\ q # <<>>
        /\ \E g : /\ Decodes(g, shift, q) /\ g[Len(q)] = r.shift
                  /\ \A d \in Seq(Keycodes) : \A c : Prints(h, c, pending, d) =>
                       \E e : Prints(g, e, q, Printed(d, r.keycode))
    BY <1>2, <1>3, <1>6, SendKey
  <2>2. pending' = q /\ r.shift = t /\ r.keycode = "NO"
    BY <1>1, <1>4, <1>7
  <2> HIDE DEF q, r
  <2>3. QED
    BY <2>1, <2>2
<1>9. PICK g : /\ Decodes(g, shift, pending') /\ g[Len(pending')] = t
               /\ \A d \in Seq(Keycodes) : \A c : Prints(h, c, pending, d) =>
                    \E e : Prints(g, e, pending', d)
  BY <1>8 DEF Printed
<1>10. Settled(t, down')
  <2>1. ASSUME NEW f \in Modifiers, f \in t PROVE Held(down', f)
    <3>1. f \in s /\ f \notin shiftcode(i)
      BY <1>5, <2>1
    <3>2. PICK d \in down : f \in shiftcode(Index(d))
      BY <1>2, <1>4, <3>1 DEF Settled, Held
    <3>3. d # k
      BY <3>1, <3>2 DEF i
    <3>4. QED
      BY <1>1, <3>2, <3>3 DEF Held
  <2>2. QED
    BY <1>5, <1>6, <2>1 DEF Settled
<1>11. ASSUME ~twins'
       PROVE  /\ Exact(t, down', caps') /\ ~garbled' /\ \E c : Prints(g, c, pending', due')
  <2>1. ~twins
    BY <1>1, <1>11
  <2>2. Exact(s, down, caps) /\ ~garbled
    BY <1>2, <1>4, <2>1
  <2>3. ASSUME NEW f \in Modifiers, Held(down', f) PROVE f \in t
    <3>1. PICK d \in down : d # k /\ f \in shiftcode(Index(d))
      BY <1>1, <2>3 DEF Held
    <3>2. f \in s
      BY <2>2, <3>1 DEF Exact, Held
    <3>3. shiftcode(Index(d)) \cap shiftcode(i) = {}
      BY <1>1, <2>1, <3>1 DEF KbdInv, i
    <3>4. QED
      BY <1>5, <3>1, <3>2, <3>3
  <2>4. "CAPSLOCK" \in t <=> caps'
    <3>1. "CAPSLOCK" \notin shiftcode(i)
      BY ShiftcodeFlags DEF Modifiers
    <3>2. QED
      BY <1>1, <1>5, <2>2, <3>1 DEF Exact
  <2>5. \E c : Prints(g, c, pending', due')
    BY <1>1, <1>2, <1>3, <1>9, <2>1
  <2>6. QED
    BY <1>1, <2>2, <2>3, <2>4, <2>5 DEF Exact
<1>12. ~twins' => \A a, b \in down' : a # b => shiftcode(Index(a)) \cap shiftcode(Index(b)) = {}
  BY <1>1 DEF KbdInv
<1>13. KbdTypeOK'
  BY <1>1, <1>3, <1>8 DEF KbdTypeOK
<1>14. booted'
  BY <1>1, <1>3 DEF KbdInv
<1>15. /\ Settled(g[Len(pending')], down') /\ Decodes(g, shift', pending')
       /\ ~twins' => /\ Exact(g[Len(pending')], down', caps') /\ ~garbled'
                     /\ \E c : Prints(g, c, pending', due')
  BY <1>1, <1>9, <1>10, <1>11
<1>16. QED
  BY <1>8, <1>12, <1>13, <1>14, <1>15, KbdInvFrom

LEMMA TailFacts ==
  ASSUME NEW S, NEW p \in Seq(S), p # <<>>
  PROVE  Tail(p) \in Seq(S) /\ (Len(p) > 1 => Tail(p) # <<>>)
<1>1. Tail(p) \in Seq(S) /\ Len(Tail(p)) = Len(p) - 1 /\ Len(p) \in Nat
  OBVIOUS
<1>2. Len(<<>>) = 0
  OBVIOUS
<1>3. ASSUME NEW q, Len(q) = Len(p) - 1, Len(p) > 1 PROVE q # <<>>
  BY <1>1, <1>2, <1>3
<1>4. QED
  BY <1>1, <1>3

LEMMA MoreThanOne ==
  ASSUME NEW b, NEW n \in Nat, b = (FALSE \/ n > 1)
  PROVE  b \in BOOLEAN /\ (b => n > 1)
OBVIOUS

(* An interrupt decodes a byte and prints, when it prints, what is due. *)
LEMMA KeyIrqInv ==
  ASSUME KbdInv, keyboard_irq(1)
  PROVE  KbdInv'
<1>1. PICK r : r = readcode(shift, Head(pending))
  OBVIOUS
<1>2. booted /\ irq1 /\ pending # <<>>
  BY DEF keyboard_irq, KbdInv
<1>3. /\ shift' = r.shift /\ event' = r.keycode /\ Echo(event', 1)
      /\ pending' = Tail(pending) /\ irq1' = (FALSE \/ Len(pending) > 1)
      /\ UNCHANGED <<unmasked, booted, down, twins, caps>>
  BY <1>1, <1>2 DEF keyboard_irq, TakeByte, userVars
<1>4. /\ pending \in Seq(Nat) /\ due \in Seq(Keycodes) /\ down \subseteq Keys /\ caps \in BOOLEAN
      /\ irq1 \in BOOLEAN /\ twins \in BOOLEAN /\ garbled \in BOOLEAN
      /\ unmasked \in BOOLEAN /\ booted \in BOOLEAN
  BY DEF KbdInv, KbdTypeOK
<1>5. PICK h : /\ Decodes(h, shift, pending) /\ Settled(h[Len(pending)], down)
               /\ ~twins => /\ Exact(h[Len(pending)], down, caps) /\ ~garbled
                            /\ \E c : Prints(h, c, pending, due)
  BY DEF KbdInv
<1>6. PICK g : /\ Decodes(g, r.shift, pending') /\ g[Len(pending')] = h[Len(pending)]
               /\ \A d \in Seq(Keycodes) : \A c : Prints(h, c, pending, d) =>
                    /\ r.keycode = "NO" => \E e : Prints(g, e, pending', d)
                    /\ r.keycode # "NO" => /\ d # <<>> /\ Head(d) = r.keycode
                                           /\ \E e : Prints(g, e, pending', Tail(d))
  <2>1. pending \in Seq(Nat) /\ pending # <<>> /\ Decodes(h, shift, pending)
    BY <1>2, <1>4, <1>5
  <2>2. LET u == readcode(shift, Head(pending))
        IN  \E g : /\ Decodes(g, u.shift, Tail(pending))
                   /\ g[Len(Tail(pending))] = h[Len(pending)]
                   /\ \A d \in Seq(Keycodes) : \A c : Prints(h, c, pending, d) =>
                        /\ u.keycode = "NO" => \E e : Prints(g, e, Tail(pending), d)
                        /\ u.keycode # "NO" => /\ d # <<>> /\ Head(d) = u.keycode
                                               /\ \E e : Prints(g, e, Tail(pending), Tail(d))
    BY <2>1, DecodeByte
  <2>3. QED
    BY <1>1, <1>3, <2>2
<1>7. /\ r.keycode = "NO" => due' = due /\ garbled' = garbled
      /\ r.keycode # "NO" => /\ due' = IF due = <<>> THEN due ELSE Tail(due)
                             /\ garbled' = (garbled \/ due = <<>> \/ Head(due) # r.keycode)
  BY <1>3 DEF Echo, checkVars
<1>8. ASSUME ~twins'
      PROVE  /\ Exact(g[Len(pending')], down', caps') /\ ~garbled'
             /\ \E c : Prints(g, c, pending', due')
  <2>1. /\ Exact(h[Len(pending)], down, caps) /\ ~garbled
    BY <1>3, <1>5, <1>8
  <2>2. PICK c : Prints(h, c, pending, due)
    BY <1>3, <1>5, <1>8
  <2>3. /\ r.keycode = "NO" => \E e : Prints(g, e, pending', due)
        /\ r.keycode # "NO" => /\ due # <<>> /\ Head(due) = r.keycode
                               /\ \E e : Prints(g, e, pending', Tail(due))
    BY <1>4, <1>6, <2>2
  <2>4. ~garbled' /\ \E e : Prints(g, e, pending', due')
    <3>1. CASE r.keycode = "NO"
      BY <1>7, <2>1, <2>3, <3>1
    <3>2. CASE r.keycode # "NO"
      <4>1. due' = Tail(due) /\ \E e : Prints(g, e, pending', Tail(due))
        BY <1>7, <2>3, <3>2
      <4>2. garbled' = FALSE
        BY <1>7, <2>1, <2>3, <3>2
      <4>3. QED
        BY <4>1, <4>2
    <3>3. QED
      BY <3>1, <3>2
  <2>5. QED
    BY <1>3, <1>6, <2>1, <2>4
<1>9. KbdTypeOK' /\ (irq1' => pending' # <<>>)
  <2>1. pending' \in Seq(Nat) /\ (Len(pending) > 1 => pending' # <<>>)
    BY <1>2, <1>3, <1>4, TailFacts
  <2>2. due' \in Seq(Keycodes)
    <3>1. due # <<>> => Tail(due) \in Seq(Keycodes)
      BY <1>4, TailFacts
    <3>2. due' = due \/ (due # <<>> /\ due' = Tail(due))
      BY <1>7
    <3>3. QED
      BY <1>4, <3>1, <3>2
  <2>3. garbled' \in BOOLEAN
    BY <1>4, <1>7
  <2>4. irq1' \in BOOLEAN /\ (irq1' => pending' # <<>>)
    <3>1. irq1' = (FALSE \/ Len(pending) > 1)
      BY <1>3
    <3>2. Len(pending) \in Nat
      BY <1>4
    <3>3. irq1' \in BOOLEAN /\ (irq1' => Len(pending) > 1)
      BY <3>1, <3>2, MoreThanOne
    <3>4. QED
      BY <2>1, <3>3
  <2>5. QED
    BY <1>3, <1>4, <2>1, <2>2, <2>3, <2>4 DEF KbdTypeOK
<1>10. ~twins' => \A a, b \in down' : a # b => shiftcode(Index(a)) \cap shiftcode(Index(b)) = {}
  BY <1>3 DEF KbdInv
<1>11. Settled(g[Len(pending')], down') /\ Decodes(g, shift', pending') /\ booted'
  BY <1>2, <1>3, <1>5, <1>6
<1>12. QED
  BY <1>8, <1>9, <1>10, <1>11, KbdInvFrom

(* Without a key during the boot the delay of pit_prepare_sleep reads an   *)
(* empty controller.                                                       *)
LEMMA BootDelayInv ==
  ASSUME KbdInv, pit_prepare_sleep
  PROVE  KbdInv'
<1>1. /\ ~booted /\ pending = <<>> /\ ~irq1
  BY DEF pit_prepare_sleep, KbdInv
<1>2. /\ booted' = TRUE /\ pending' = pending /\ irq1' = irq1
      /\ UNCHANGED <<shift, unmasked, down, twins, caps, due, garbled>>
  <2>1. irq1 \in BOOLEAN
    BY DEF KbdInv, KbdTypeOK
  <2>2. Len(pending) = 0
    BY <1>1
  <2>3. QED
    BY <1>1, <2>1, <2>2 DEF pit_prepare_sleep, TakeByte, userVars, checkVars
<1>3. QED
  BY <1>1, <1>2 DEF KbdInv, KbdTypeOK

(* Its interrupt is unmasked. *)
LEMMA UnmaskInv ==
  ASSUME KbdInv, ioapic_enable
  PROVE  KbdInv'
<1>1. /\ unmasked' = TRUE
      /\ UNCHANGED <<shift, pending, irq1, booted, down, twins, caps, due, garbled>>
  BY DEF ioapic_enable, userVars, checkVars
<1>2. QED
  BY <1>1 DEF KbdInv, KbdTypeOK

LEMMA KbdStutter ==
  ASSUME KbdInv, UNCHANGED keyboardVars
  PROVE  KbdInv'
<1>1. UNCHANGED <<shift, pending, irq1, unmasked, booted, down, twins, caps, due, garbled>>
  BY DEF keyboardVars, kbdVars, userVars, checkVars
<1>2. QED
  BY <1>1 DEF KbdInv, KbdTypeOK

LEMMA InputInitKbd == InputInit => KbdInv
<1>1. SUFFICES ASSUME InputInit PROVE KbdInv
  OBVIOUS
<1>2. /\ shift = {} /\ pending = <<>> /\ irq1 = FALSE /\ unmasked = FALSE /\ booted = FALSE
      /\ down = {} /\ twins = FALSE /\ caps = FALSE /\ due = <<>> /\ garbled = FALSE
  BY <1>1 DEF InputInit, KbdInit
<1>3. PICK h : h = [k \in {0} |-> {}]
  OBVIOUS
<1>4. PICK c : c = [k \in 0 .. 0 |-> 0]
  OBVIOUS
<1>5. Len(pending) = 0 /\ Len(due) = 0 /\ pending \in Seq(Nat) /\ due \in Seq(Keycodes)
  BY <1>2
<1>6. Decodes(h, shift, pending) /\ h[Len(pending)] = {}
  BY <1>2, <1>3, <1>5 DEF Decodes
<1>7. Settled({}, down) /\ Exact({}, down, caps)
  BY <1>2 DEF Settled, Exact, Held
<1>8. Prints(h, c, pending, due)
  BY <1>4, <1>5 DEF Prints
<1>9. KbdTypeOK
  BY <1>2, <1>5 DEF KbdTypeOK
<1>10. QED
  BY <1>2, <1>6, <1>7, <1>8, <1>9 DEF KbdInv

LEMMA InputKbdInv ==
  ASSUME ~BootKeys, BusInv, KbdInv, [InputNext]_inputVars
  PROVE  KbdInv'
<1>1. CASE KeyboardIrq
  <2>1. keyboard_irq(1)
    BY <1>1, OneHandler DEF KeyboardIrq
  <2>2. QED
    BY <2>1, KeyIrqInv
<1>2. CASE BusCall \/ BusStep \/ UNCHANGED inputVars
  BY <1>2, KbdStutter DEF BusCall, BusStep, inputVars
<1>3. CASE UserStep
  BY <1>3, PressInv, ReleaseInv DEF UserStep
<1>4. CASE BootStep
  BY <1>4, UnmaskInv, BootDelayInv DEF BootStep
<1>5. QED
  BY <1>1, <1>2, <1>3, <1>4 DEF InputNext

(* The inductive invariant of the keyboard, when no key is pressed while   *)
(* interrupts are still off: the decoder, however far it lags behind, has  *)
(* a history that ends with the keys that are held.                        *)
THEOREM KbdInvariant ==
  ASSUME ~BootKeys
  PROVE  InputSpec => []KbdInv
<1>1. InputInit => KbdInv
  BY InputInitKbd
<1>2. BusInv /\ KbdInv /\ [InputNext]_inputVars => KbdInv'
  BY InputKbdInv
<1>3. QED
  BY <1>1, <1>2, BusInvariant, PTL DEF InputSpec

(* Once the bytes are decoded no modifier is stuck and no E0 is open, for  *)
(* every set of keys and any number of bytes in the controller.            *)
THEOREM InputNoStuckModifier ==
  ASSUME ~BootKeys
  PROVE  InputSpec => []NoStuckModifier
<1>1. ASSUME KbdInv PROVE NoStuckModifier
  <2>1. SUFFICES ASSUME pending = <<>> PROVE Settled(shift, down)
    BY DEF NoStuckModifier, Settled, Modifiers
  <2>2. PICK h : Decodes(h, shift, pending) /\ Settled(h[Len(pending)], down)
    BY <1>1 DEF KbdInv
  <2>3. h[Len(pending)] = shift
    BY <2>1, <2>2 DEF Decodes
  <2>4. QED
    BY <2>2, <2>3
<1>2. KbdInv => NoStuckModifier
  BY <1>1
<1>3. QED
  BY <1>2, KbdInvariant, PTL

(* Every key prints what its modifiers meant when it was pressed, once and *)
(* in order, unless two keys of one modifier were held at once.            *)
THEOREM InputEchoIsTyped ==
  ASSUME ~BootKeys
  PROVE  InputSpec => []EchoIsTyped
<1>1. ASSUME KbdInv PROVE EchoIsTyped
  <2>1. SUFFICES ASSUME ~twins PROVE ~garbled /\ (pending = <<>> => due = <<>>)
    BY DEF EchoIsTyped
  <2>2. PICK h, c : ~garbled /\ Prints(h, c, pending, due)
    BY <1>1, <2>1 DEF KbdInv
  <2>3. ASSUME pending = <<>> PROVE due = <<>>
    <3>1. Len(pending) = 0
      BY <2>3
    <3>2. Len(due) = 0
      BY <2>2, <3>1 DEF Prints
    <3>3. QED
      BY <1>1, <3>2 DEF KbdInv, KbdTypeOK
  <2>4. QED
    BY <2>2, <2>3
<1>2. KbdInv => EchoIsTyped
  BY <1>1
<1>3. QED
  BY <1>2, KbdInvariant, PTL
=============================================================================
