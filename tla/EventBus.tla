------------------------------ MODULE EventBus ------------------------------
(***************************************************************************)
(* The event bus of event_bus.c: the table of callbacks, and what          *)
(* registering, unregistering and firing do to it.                         *)
(*                                                                         *)
(* fire_event is called from interrupts, in one step.  The repository's    *)
(* only caller of register_event_callback is terminal_initialize, during   *)
(* the boot and with interrupts off (BusInit), and nobody unregisters; the *)
(* other actions are the interface, as a task with interrupts on would use *)
(* it, one call at a time: its stores into the table are separate steps,   *)
(* and an entry is copied word by word, its type, callback and argument.   *)
(***************************************************************************)
EXTENDS Naturals, Sequences

CONSTANTS
  CALLBACKS_MAX_COUNT,  \* the size of the array
  EventTypes,
  Callbacks,            \* the functions a task registers and unregisters
  Args,                 \* and what they are to be called with
  First                 \* the entry of terminal_initialize, made at boot

Entry(ty, c, a) == [event_type |-> ty, callback |-> c, arg |-> a]
NULL == "NULL"

(* Only terminal_initialize registers handle_keypress, which no header     *)
(* declares: it is not among the callbacks of the tasks.                   *)
ASSUME EventBusAssumption ==
  /\ CALLBACKS_MAX_COUNT \in Nat \ {0}
  /\ NULL \notin EventTypes \cup Callbacks
  /\ First.event_type \in EventTypes
  /\ First.callback \notin Callbacks \cup {NULL}
  /\ First.arg \in Args \cup {NULL}
  /\ First = Entry(First.event_type, First.callback, First.arg)

NoEntry == Entry(NULL, NULL, NULL)

VARIABLES
  known_callbacks,  \* the array
  callbacks_count,
  job,         \* the copy that runs: its stage, its source and the slot it goes to
  calls,       \* the entries that the last fire_event called, at their places
  panicked,    \* register_event_callback has given up
  registered   \* history: what was registered and not unregistered since

tableVars == <<known_callbacks, callbacks_count>>
busVars == <<tableVars, job, calls, panicked, registered>>

NoJob == [stage |-> "none", shift |-> FALSE, from |-> NoEntry, slot |-> 0]
Job(shift, from, slot) == [stage |-> "type", shift |-> shift, from |-> from, slot |-> slot]

BusInit ==
  /\ known_callbacks = [k \in 1 .. CALLBACKS_MAX_COUNT |-> IF k = 1 THEN First ELSE NoEntry]
  /\ callbacks_count = 1
  /\ job = NoJob
  /\ calls = <<>>
  /\ panicked = FALSE
  /\ registered = <<First>>

(* Mutant: the check lets one entry too many in. *)
TableFullLate == callbacks_count > CALLBACKS_MAX_COUNT

TableFull == callbacks_count >= CALLBACKS_MAX_COUNT

(* A panic when the array is used up. *)
register_event_callback(e) ==
  /\ job = NoJob
  /\ IF TableFull
       THEN panicked' = TRUE /\ UNCHANGED job
       ELSE job' = Job(FALSE, e, callbacks_count + 1) /\ UNCHANGED panicked
  /\ UNCHANGED <<tableVars, calls, registered>>

(* The first entry of table s with callback c and argument a; 0 when there *)
(* is none.                                                                *)
Is(e, c, a) == e.callback = c /\ e.arg = a
IndexOf(s, c, a) ==
  IF \E k \in 1 .. Len(s) : Is(s[k], c, a)
    THEN CHOOSE k \in 1 .. Len(s) :
           Is(s[k], c, a) /\ \A j \in 1 .. (k - 1) : ~Is(s[j], c, a)
    ELSE 0

(* The sequence without its i-th element. *)
Without(s, i) == [k \in 1 .. (Len(s) - 1) |-> IF k < i THEN s[k] ELSE s[k + 1]]

Table == SubSeq(known_callbacks, 1, callbacks_count)

(* Mutant: the index is advanced once too often, and the entry behind the  *)
(* removed one is lost instead of it.                                      *)
remove_callbackNext(k) ==
  job' = IF k < callbacks_count THEN Job(TRUE, known_callbacks[k + 1], k) ELSE NoJob

(* The loop of remove_callback: entry k moves down by one.  The count      *)
(* stays, so that the last entry is there twice from now on.               *)
remove_callback(k) ==
  job' = IF k <= callbacks_count THEN Job(TRUE, known_callbacks[k], k - 1) ELSE NoJob

unregister_event_callback(c, a) ==
  /\ job = NoJob
  /\ IndexOf(Table, c, a) # 0
  /\ remove_callback(IndexOf(Table, c, a) + 1)
  /\ registered' = IF IndexOf(registered, c, a) = 0 THEN registered
                   ELSE Without(registered, IndexOf(registered, c, a))
  /\ UNCHANGED <<tableVars, calls, panicked>>

(* known_callbacks[slot] = ..., its words in their order. *)
CopyType ==
  /\ job.stage = "type"
  /\ known_callbacks' = [known_callbacks EXCEPT ![job.slot].event_type = job.from.event_type]
  /\ job' = [job EXCEPT !.stage = "callback"]
  /\ UNCHANGED <<callbacks_count, calls, panicked, registered>>

(* Mutant: the entry is counted before it is complete, and a handler that  *)
(* comes in between calls what was there before.                           *)
CopyCallbackLate ==
  /\ job.stage = "callback"
  /\ IF job.shift
       THEN /\ known_callbacks' = [known_callbacks EXCEPT ![job.slot].callback = job.from.callback]
            /\ job' = [job EXCEPT !.stage = "arg"]
            /\ UNCHANGED <<callbacks_count, registered>>
       ELSE /\ callbacks_count' = callbacks_count + 1
            /\ registered' = Append(registered, job.from)
            /\ job' = NoJob
            /\ UNCHANGED known_callbacks
  /\ UNCHANGED <<calls, panicked>>

CopyCallback ==
  /\ job.stage = "callback"
  /\ known_callbacks' = [known_callbacks EXCEPT ![job.slot].callback = job.from.callback]
  /\ job' = [job EXCEPT !.stage = "arg"]
  /\ UNCHANGED <<callbacks_count, calls, panicked, registered>>

(* Until here the entry has a callback with another entry's argument.      *)
CopyArg ==
  /\ job.stage = "arg"
  /\ known_callbacks' = [known_callbacks EXCEPT ![job.slot].arg = job.from.arg]
  /\ IF job.shift THEN remove_callback(job.slot + 2) ELSE job' = [job EXCEPT !.stage = "count"]
  /\ UNCHANGED <<callbacks_count, calls, panicked, registered>>

(* ++callbacks_count *)
CountEntry ==
  /\ job.stage = "count"
  /\ callbacks_count' = callbacks_count + 1
  /\ registered' = Append(registered, job.from)
  /\ job' = NoJob
  /\ UNCHANGED <<known_callbacks, calls, panicked>>

(* The entries of table s for an event of type ty, at their places: they   *)
(* are called in the order of the places.                                  *)
CallsOf(s, ty) == [k \in {i \in 1 .. Len(s) : s[i].event_type = ty} |-> s[k]]

fire_event(ty) ==
  /\ calls' = CallsOf(Table, ty)
  /\ UNCHANGED <<tableVars, job, panicked, registered>>

-----------------------------------------------------------------------------
(* The table stays within the array, and so do the stores into it. *)
BusTypeOK ==
  /\ known_callbacks \in [1 .. CALLBACKS_MAX_COUNT ->
        [event_type : EventTypes \cup {NULL},
         callback : Callbacks \cup {First.callback, NULL}, arg : Args \cup {NULL}]]
  /\ callbacks_count \in 0 .. CALLBACKS_MAX_COUNT
  /\ job.slot \in 0 .. CALLBACKS_MAX_COUNT
  /\ panicked \in BOOLEAN

(* s is what is left of t when some elements are taken out; both are       *)
(* functions whose domains are sets of numbers.                            *)
Subsequence(s, t) ==
  \E f \in [DOMAIN s -> DOMAIN t] :
    /\ \A k \in DOMAIN s : t[f[k]] = s[k]
    /\ \A j, k \in DOMAIN s : j < k => f[j] < f[k]

(* Whenever an event is fired, also in the middle of a call that registers *)
(* or unregisters another one, every callback that is registered is called *)
(* for it with its own argument, in the order of registration: the shift   *)
(* of remove_callback overwrites an entry only when its copy is complete,  *)
(* and a new one is counted only when all its words are stored.            *)
RegisteredAreCalled ==
  \A ty \in EventTypes : Subsequence(CallsOf(registered, ty), CallsOf(Table, ty))

(* No event is delivered through an entry that is not complete: an entry   *)
(* is stored before it is counted, so that an interrupt in the middle of   *)
(* register_event_callback never calls NULL.                               *)
NoNullCallback ==
  \A k \in 1 .. callbacks_count :
    known_callbacks[k].callback # NULL /\ known_callbacks[k].event_type # NULL

(* "max callbacks are register": registration only fails when the table is *)
(* full of callbacks that are registered.                                  *)
PanicOnlyWhenFull == panicked => Len(registered) = CALLBACKS_MAX_COUNT
=============================================================================
