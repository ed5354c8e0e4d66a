-------------------------------- MODULE Gps ---------------------------------
(***************************************************************************)
(* The position of the gateway: the GPS driver (hardware/gps/              *)
(* gps.android.c), how the HAL opens it (hardware/hardware.c), and the     *)
(* framework module that serves its positions (framework/module/           *)
(* location.android.c).                                                    *)
(*                                                                         *)
(* on_load opens the driver and calls its init, which starts a reader      *)
(* thread.  The reader replays recorded messages: it puts the position of  *)
(* one into dev.fix, hands it to gps_location_cb, which copies it to       *)
(* last_location, and the listener thread copies that into its answers.    *)
(* Nothing locks anything: every store and every load of a word shared     *)
(* between the threads is a step of its own.                               *)
(***************************************************************************)
EXTENDS Integers, Sequences, FiniteSets

CONSTANTS
    Messages,    \* the recorded messages, by kind
    MaxInit      \* bound: calls of the driver's init

ASSUME MessagesAssumption == Messages \in Seq({"RMC", "other"}) /\ Messages # <<>>
ASSUME InitAssumption == MaxInit \in Nat \ {0}

Reader == 1 .. MaxInit       \* the reader threads there may be, one per init
N == Len(Messages)
Index == 0 .. N - 1
Nowhere == N                 \* a word of a location nothing was put into
Word == {"pos", "time"}      \* a location: where, and when
Zeroed == [w \in Word |-> Nowhere]

VARIABLES
    main,        \* the thread that loads the module: where it is
    handles,     \* how often libhw.gps.so is open
    todo,        \* the words init has still to clear
    inits,       \* calls of init so far
    running,     \* dev.running
    cb,          \* dev.callbacks was set
    flags,       \* dev.fix.flags says there is a position
    fix,         \* the rest of dev.fix: the message each word comes from
    fake_idx,    \* the next recorded message
    pc,          \* where each reader is
    rd,          \* its registers and locals
    last,        \* last_location
    srv,         \* the listener: the words of its answer, those to copy
    alone,       \* history: no other thread stored where this reader works
    sound,       \* history: last_location is the work of a reader alone
    heard,       \* history: the answer was copied from a sound last_location
    shown        \* history: the positions a lone reader delivered

driver == <<running, cb, flags, fix>>
opening == <<main, handles, todo, inits>>
reading == <<fake_idx, pc, rd>>
serving == <<last, srv>>
history == <<alone, sound, heard, shown>>
vars == <<opening, driver, reading, serving, history>>

MainPc == {"dlopen", "dlsym", "id", "failed", "open", "clear", "callbacks", "thread", "up", "crashed"}
ReaderPc == {"none", "start", "begin", "probe", "inc", "put", "skip", "step", "test",
             "flags", "pos", "time", "check", "copy", "done", "sleep"}

TypeOK ==
    /\ main \in MainPc
    /\ handles \in 0 .. 1
    /\ todo \subseteq Word \cup {"flags"}
    /\ inits \in 0 .. MaxInit
    /\ running \in BOOLEAN /\ cb \in BOOLEAN /\ flags \in BOOLEAN
    /\ fix \in [Word -> Index \cup {Nowhere}]
    /\ fake_idx \in Index
    /\ pc \in [Reader -> ReaderPc]
    /\ rd \in [Reader -> [fm : Index, reg : Index, start : Index, todo : SUBSET Word]]
    /\ last \in [Word -> Index \cup {Nowhere}]
    /\ srv \in [pc : {"off", "idle", "copy", "reply"}, out : [Word -> Index \cup {Nowhere}], todo : SUBSET Word]
    /\ alone \in [Reader -> BOOLEAN]
    /\ sound \in BOOLEAN /\ heard \in BOOLEAN
    /\ shown \subseteq Index

\* The locals of a reader; those it does not use any more are back at 0.
Fresh == [fm |-> 0, reg |-> 0, start |-> 0, todo |-> {}]

Init ==
    /\ main = "dlopen" /\ handles = 0 /\ todo = {} /\ inits = 0
    /\ running = FALSE /\ cb = FALSE /\ flags = FALSE /\ fix = Zeroed
    /\ fake_idx = 0
    /\ pc = [r \in Reader |-> "none"]
    /\ rd = [r \in Reader |-> Fresh]
    /\ last = Zeroed
    /\ srv = [pc |-> "off", out |-> Zeroed, todo |-> {}]
    /\ alone = [r \in Reader |-> TRUE]
    /\ sound = TRUE /\ heard = TRUE
    /\ shown = {}

\* Somebody stores into dev.fix or last_location: all but the readers R.
Disturbed(R) == [q \in Reader |-> q \in R /\ alone[q]]

-----------------------------------------------------------------------------
(***************************************************************************)
(* hardware.c, load: the library, its HAL_MODULE_INFO_SYM, the id in it.   *)
(* Whatever is wrong, the library is closed and the caller gets NULL.      *)
(***************************************************************************)
Main(from, to) == main = from /\ main' = to

hw_dlopen ==
    /\ \/ Main("dlopen", "dlsym") /\ handles' = handles + 1
       \/ Main("dlopen", "failed") /\ UNCHANGED handles
    /\ UNCHANGED <<todo, inits, driver, reading, serving, history>>

hw_check ==
    /\ \/ Main("dlsym", "id")
       \/ Main("id", "open")
       \/ Main("dlsym", "failed")
       \/ Main("id", "failed")
    /\ UNCHANGED <<handles, todo, inits, driver, reading, serving, history>>

\* on_load does not look at the result: it reads the methods of NULL.
hw_failed ==
    /\ Main("failed", "crashed")
    /\ handles' = 0
    /\ UNCHANGED <<todo, inits, driver, reading, serving, history>>

(***************************************************************************)
(* The driver's init: clears dev.fix, takes the callbacks, and starts a    *)
(* reader unless one has set running.  cleanup being disabled, a client    *)
(* that closes the interface and opens it again calls init once more.      *)
(***************************************************************************)
init ==
    /\ main \in {"open", "up"} /\ inits < MaxInit
    /\ main' = "clear"
    /\ todo' = Word \cup {"flags"}
    /\ inits' = inits + 1
    /\ UNCHANGED <<handles, driver, reading, serving, history>>

init_clear(w) ==
    /\ main = "clear" /\ w \in todo
    /\ todo' = todo \ {w}
    /\ main' = IF todo' = {} THEN "callbacks" ELSE main
    /\ IF w = "flags"
         THEN flags' = FALSE /\ UNCHANGED fix
         ELSE fix' = [fix EXCEPT ![w] = Nowhere] /\ UNCHANGED flags
    /\ alone' = Disturbed({})
    /\ UNCHANGED <<handles, inits, running, cb, reading, serving, sound, heard, shown>>

init_callbacks ==
    /\ Main("callbacks", "thread")
    /\ cb' = TRUE
    /\ UNCHANGED <<handles, todo, inits, running, flags, fix, reading, serving, history>>

\* The listener thread serves from the time on_load has returned.
Loaded == srv' = [srv EXCEPT !.pc = IF @ = "off" THEN "idle" ELSE @]

Readers == {r \in Reader : pc[r] # "none"}
NextReader == Cardinality(Readers) + 1

init_thread ==
    /\ Main("thread", "up")
    /\ IF running
         THEN UNCHANGED pc
         ELSE pc' = [pc EXCEPT ![NextReader] = "start"]
    /\ Loaded
    /\ UNCHANGED <<handles, todo, inits, driver, fake_idx, rd, last, history>>

-----------------------------------------------------------------------------
(***************************************************************************)
(* fastrax_reader.                                                         *)
(***************************************************************************)
Reads(r, from, to) == pc[r] = from /\ pc' = [pc EXCEPT ![r] = to]

reader_start(r) ==
    /\ Reads(r, "start", "begin")
    /\ running' = TRUE
    /\ UNCHANGED <<opening, cb, flags, fix, fake_idx, rd, serving, history>>

\* findFake: start = fake_idx.
find_begin(r) ==
    /\ Reads(r, "begin", "probe")
    /\ rd' = [rd EXCEPT ![r].start = fake_idx]
    /\ UNCHANGED <<opening, driver, fake_idx, serving, history>>

find_probe(r) ==
    /\ Reads(r, "probe", "inc")
    /\ rd' = [rd EXCEPT ![r].fm = fake_idx]
    /\ UNCHANGED <<opening, driver, fake_idx, serving, history>>

\* The two halves of fake_idx = (fake_idx + 1) % 57, once before the match and
\* once more behind it.
find_load(r) ==
    /\ Reads(r, "inc", "put") \/ Reads(r, "skip", "step")
    /\ rd' = [rd EXCEPT ![r].reg = fake_idx]
    /\ UNCHANGED <<opening, driver, fake_idx, serving, history>>

Matches(r) == Messages[rd[r].fm + 1] = "RMC"

\* Mutant: the second increment is missing, as the loop seems to be meant.
find_store_once(r) ==
    /\ \/ Reads(r, "put", IF Matches(r) THEN "flags" ELSE "test")
       \/ Reads(r, "step", "test")
    /\ fake_idx' = (rd[r].reg + 1) % N
    /\ rd' = [rd EXCEPT ![r].reg = 0, ![r].start = IF pc'[r] = "flags" THEN 0 ELSE @]
    /\ alone' = [alone EXCEPT ![r] = pc'[r] = "flags"]
    /\ UNCHANGED <<opening, driver, serving, sound, heard, shown>>

find_store(r) ==
    /\ \/ Reads(r, "put", IF Matches(r) THEN "flags" ELSE "skip")
       \/ Reads(r, "step", "test")
    /\ fake_idx' = (rd[r].reg + 1) % N
    /\ rd' = [rd EXCEPT ![r].reg = 0, ![r].start = IF pc'[r] = "flags" THEN 0 ELSE @]
    /\ alone' = [alone EXCEPT ![r] = pc'[r] = "flags"]
    /\ UNCHANGED <<opening, driver, serving, sound, heard, shown>>

\* Once round without a match the line itself is taken, and does not parse.
find_test(r) ==
    /\ Reads(r, "test", IF fake_idx = rd[r].start THEN "check" ELSE "probe")
    /\ rd' = [rd EXCEPT ![r].fm = 0, ![r].start = IF fake_idx = @ THEN 0 ELSE @]
    /\ UNCHANGED <<opening, driver, fake_idx, serving, history>>

\* Mutant: the position is stored, its flags are not.
fix_flags_unset(r) ==
    /\ Reads(r, "flags", "pos")
    /\ flags' = FALSE
    /\ alone' = Disturbed({r})
    /\ UNCHANGED <<opening, running, cb, fix, fake_idx, rd, serving, sound, heard, shown>>

\* The frame of an RMC message into dev.fix, the time behind the rest.
fix_flags(r) ==
    /\ Reads(r, "flags", "pos")
    /\ flags' = TRUE
    /\ alone' = Disturbed({r})
    /\ UNCHANGED <<opening, running, cb, fix, fake_idx, rd, serving, sound, heard, shown>>

\* Mutant: the time of the fix before is kept.
fix_pos_only(r) ==
    /\ Reads(r, "pos", "check")
    /\ fix' = [fix EXCEPT !["pos"] = rd[r].fm]
    /\ alone' = Disturbed({r})
    /\ UNCHANGED <<opening, running, cb, flags, fake_idx, rd, serving, sound, heard, shown>>

fix_pos(r) ==
    /\ Reads(r, "pos", "time")
    /\ fix' = [fix EXCEPT !["pos"] = rd[r].fm]
    /\ alone' = Disturbed({r})
    /\ UNCHANGED <<opening, running, cb, flags, fake_idx, rd, serving, sound, heard, shown>>

fix_time(r) ==
    /\ Reads(r, "time", "check")
    /\ fix' = [fix EXCEPT !["time"] = rd[r].fm]
    /\ alone' = Disturbed({r})
    /\ UNCHANGED <<opening, running, cb, flags, fake_idx, rd, serving, sound, heard, shown>>

check(r) ==
    /\ Reads(r, "check", IF flags /\ cb THEN "copy" ELSE "sleep")
    /\ rd' = [rd EXCEPT ![r] = [Fresh EXCEPT !.todo = IF flags /\ cb THEN Word ELSE {}]]
    /\ alone' = [alone EXCEPT ![r] = flags /\ cb /\ @]
    /\ UNCHANGED <<opening, driver, fake_idx, serving, sound, heard, shown>>

\* gps_location_cb: memcpy(&last_location, location), in whatever order.
gps_location_cb(r, w) ==
    /\ pc[r] = "copy" /\ w \in rd[r].todo
    /\ last' = [last EXCEPT ![w] = fix[w]]
    /\ rd' = [rd EXCEPT ![r].todo = @ \ {w}]
    /\ pc' = IF rd[r].todo = {w} THEN [pc EXCEPT ![r] = "done"] ELSE pc
    /\ alone' = Disturbed({r})
    /\ sound' = (rd[r].todo = {w} /\ alone[r])
    /\ heard' = FALSE
    /\ shown' = IF w = "pos" /\ Readers = {r} THEN shown \cup ({fix[w]} \cap Index) ELSE shown
    /\ UNCHANGED <<opening, driver, fake_idx, srv>>

clear_flags(r) ==
    /\ Reads(r, "done", "sleep")
    /\ flags' = FALSE
    /\ alone' = Disturbed({})
    /\ UNCHANGED <<opening, running, cb, fix, fake_idx, rd, serving, sound, heard, shown>>

wake(r) ==
    /\ Reads(r, "sleep", "begin")
    /\ UNCHANGED <<opening, driver, fake_idx, rd, serving, history>>

-----------------------------------------------------------------------------
(***************************************************************************)
(* get_current_location, in the listener thread: a memcpy of last_location. *)
(***************************************************************************)
get_current_location ==
    /\ srv.pc \in {"idle", "reply"}
    /\ srv' = [pc |-> "copy", out |-> Zeroed, todo |-> Word]
    /\ heard' = sound
    /\ UNCHANGED <<opening, driver, reading, last, alone, sound, shown>>

answer_word(w) ==
    /\ srv.pc = "copy" /\ w \in srv.todo
    /\ srv' = [pc |-> IF srv.todo = {w} THEN "reply" ELSE "copy",
               out |-> [srv.out EXCEPT ![w] = last[w]],
               todo |-> srv.todo \ {w}]
    /\ UNCHANGED <<opening, driver, reading, last, history>>

-----------------------------------------------------------------------------
Reads_on(r) ==
    \/ reader_start(r) \/ find_begin(r) \/ find_probe(r) \/ find_load(r) \/ find_store(r) \/ find_test(r)
    \/ fix_flags(r) \/ fix_pos(r) \/ fix_time(r) \/ check(r) \/ clear_flags(r) \/ wake(r)
    \/ \E w \in Word : gps_location_cb(r, w)

Loads_on ==
    \/ hw_dlopen \/ hw_check \/ hw_failed \/ init \/ init_callbacks \/ init_thread
    \/ \E w \in Word \cup {"flags"} : init_clear(w)

Next ==
    \/ Loads_on
    \/ \E r \in Reader : Reads_on(r)
    \/ get_current_location
    \/ \E w \in Word : answer_word(w)

Spec == Init /\ [][Next]_vars

\* The threads run: nothing blocks them but the sleep between two messages.  A
\* client need not open the interface a second time.
Fairness == WF_vars(main # "up" /\ Loads_on) /\ \A r \in Reader : WF_vars(Reads_on(r))

FairSpec == Spec /\ Fairness

-----------------------------------------------------------------------------
(***************************************************************************)
(* Properties.                                                             *)
(***************************************************************************)
\* No lock keeps the listener from copying last_location while a reader
\* writes it, nor two readers and init from dev.fix.  What can be relied on: an
\* answer that no callback overlapped, of a location one reader put together
\* undisturbed, has its place and its time from one message.
AnswersWhole ==
    srv.pc = "reply" /\ heard => srv.out["pos"] = srv.out["time"]

\* findFake steps over two messages for one that does not match, and the number
\* of messages is odd: for ever a lone reader finds the same position, and the
\* gateway seems to stand still.
ReplayStandsStill == Cardinality(shown) <= 1

\* With one reader a driver that was opened delivers a position in the end,
\* also when init clears dev.fix under it.  Two readers may keep each other from
\* finding any: each moves fake_idx while the other searches.
LocationArrives ==
    [](Cardinality(Readers) <= 1)
        => (main = "up" ~> last["pos"] # Nowhere /\ last["time"] # Nowhere)
=============================================================================
