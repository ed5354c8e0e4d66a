----------------------------- MODULE Gps_proofs -----------------------------
(***************************************************************************)
(* Proofs about Gps, for every recording and any number of calls of the    *)
(* driver's init, and so any number of readers; and, in the second half,   *)
(* about the parser of its sentences, Nmea, for every sentence.            *)
(***************************************************************************)
EXTENDS Gps, Nmea, TLAPS, FiniteSetTheorems, SequenceTheorems, WellFoundedInduction

LEMMA Recording == N \in Nat \ {0} /\ Messages \in Seq({"RMC", "other"})
<1>1. Len(Messages) \in Nat /\ Len(Messages) # 0
    BY MessagesAssumption
<1> QED
    BY <1>1, MessagesAssumption DEF N

\* The index of a recording stays inside it.
LEMMA StepIndex == ASSUME NEW i \in Index PROVE (i + 1) % N \in Index
<1>1. i + 1 \in Nat /\ N \in Nat /\ N > 0
    BY Recording DEF Index
<1> HIDE DEF N
<1>2. (i + 1) % N \in 0 .. N - 1
    BY <1>1
<1> QED
    BY <1>2 DEF Index

Register == [fm : Index, reg : Index, start : Index, todo : SUBSET Word]
Location == [Word -> Index \cup {Nowhere}]

LEMMA Typing == Fresh \in Register /\ Zeroed \in Location
<1>1. 0 \in Index
    BY Recording DEF Index
<1> QED
    BY <1>1 DEF Fresh, Register, Zeroed, Location

-----------------------------------------------------------------------------
(* Types. *)

LEMMA InitType == Init => TypeOK
<1>1. 0 \in Index /\ Zeroed \in Location /\ Fresh \in Register
    BY Recording, Typing DEF Index
<1> SUFFICES ASSUME Init PROVE TypeOK
    OBVIOUS
<1>2. /\ pc \in [Reader -> ReaderPc] /\ alone \in [Reader -> BOOLEAN]
      /\ rd \in [Reader -> Register]
    BY <1>1 DEF Init, ReaderPc
<1>3. srv \in [pc : {"off", "idle", "copy", "reply"}, out : Location, todo : SUBSET Word]
    BY <1>1 DEF Init
<1>4. handles \in 0 .. 1 /\ inits \in 0 .. MaxInit /\ main \in MainPc /\ todo = {} /\ shown = {}
    BY InitAssumption DEF Init, MainPc
<1>5. fix \in Location /\ last \in Location /\ fake_idx \in Index
    BY <1>1 DEF Init
<1>6. /\ running \in BOOLEAN /\ cb \in BOOLEAN /\ flags \in BOOLEAN
      /\ sound \in BOOLEAN /\ heard \in BOOLEAN
    BY DEF Init
<1> QED
    BY <1>2, <1>3, <1>4, <1>5, <1>6 DEF TypeOK, Location, Register

\* The library is opened once: the type of handles rests on it.
Opening == main = "dlopen" => handles = 0

LEMMA OpeningInvariant == Spec => []Opening
<1>1. Init => Opening
    BY DEF Init, Opening
<1>2. Opening /\ [Next]_vars => Opening'
    <2> SUFFICES ASSUME Opening, [Next]_vars, main' = "dlopen" PROVE handles' = 0
        BY DEF Opening
    <2>1. UNCHANGED opening
        <3>1. CASE Loads_on
            BY <3>1 DEF Loads_on, Main, hw_dlopen, hw_check, hw_failed, init, init_clear, init_callbacks,
                        init_thread
        <3>2. ASSUME NEW r \in Reader, Reads_on(r) PROVE UNCHANGED opening
            BY <3>2 DEF Reads_on, reader_start, find_begin, find_probe, find_load, find_store, find_test, fix_flags,
                        fix_pos, fix_time, check, clear_flags, wake, gps_location_cb
        <3> QED
            BY <3>1, <3>2 DEF Next, get_current_location, answer_word, vars
    <2> QED
        BY <2>1 DEF opening, Opening
<1> QED
    BY <1>1, <1>2, PTL DEF Spec

LEMMA LoadingType == TypeOK /\ Opening /\ Loads_on => TypeOK'
<1> SUFFICES ASSUME TypeOK, Opening, Loads_on PROVE TypeOK'
    OBVIOUS
<1> USE DEF TypeOK, driver, reading, serving, history, Main
<1>1. CASE hw_dlopen
    BY <1>1 DEF hw_dlopen, MainPc, Opening
<1>2. CASE hw_check
    BY <1>2 DEF hw_check, MainPc
<1>3. CASE hw_failed
    BY <1>3 DEF hw_failed, MainPc
<1>4. CASE init
    BY <1>4, InitAssumption DEF init, MainPc
<1>5. ASSUME NEW w \in Word \cup {"flags"}, init_clear(w) PROVE TypeOK'
    <2>1. main' \in MainPc /\ todo' \subseteq Word \cup {"flags"}
        BY <1>5 DEF init_clear, MainPc
    <2>2. flags' \in BOOLEAN /\ fix' \in Location
        BY <1>5 DEF init_clear, Location
    <2>3. alone' \in [Reader -> BOOLEAN]
        BY <1>5 DEF init_clear, Disturbed
    <2> QED
        BY <1>5, <2>1, <2>2, <2>3 DEF init_clear, Location
<1>6. CASE init_callbacks
    BY <1>6 DEF init_callbacks, MainPc
<1>7. CASE init_thread
    <2>1. pc' \in [Reader -> ReaderPc]
        BY <1>7 DEF init_thread, ReaderPc
    <2>2. srv' \in [pc : {"off", "idle", "copy", "reply"}, out : Location, todo : SUBSET Word]
        BY <1>7 DEF init_thread, Loaded, Location
    <2>3. main' \in MainPc
        BY <1>7 DEF init_thread, MainPc
    <2> QED
        BY <1>7, <2>1, <2>2, <2>3 DEF init_thread, Location
<1> QED
    BY <1>1, <1>2, <1>3, <1>4, <1>5, <1>6, <1>7 DEF Loads_on

\* One lemma for all steps of a reader: where it goes, and what it has in hand.
LEMMA ReadingType == ASSUME NEW r \in Reader, TypeOK, Reads_on(r) PROVE TypeOK'
<1> USE DEF TypeOK, opening, driver, serving
<1>1. rd[r] \in Register /\ fake_idx \in Index /\ 0 \in Index
    BY Recording DEF Register, Index
<1>2. CASE reader_start(r)
    BY <1>2 DEF reader_start, Reads, ReaderPc, history
<1>3. CASE find_begin(r)
    <2>1. pc' \in [Reader -> ReaderPc]
        BY <1>3 DEF find_begin, Reads, ReaderPc
    <2>2. rd' \in [Reader -> Register]
        BY <1>1, <1>3 DEF find_begin, Register
    <2> QED
        BY <1>3, <2>1, <2>2 DEF find_begin, history, Register
<1>4. CASE find_probe(r)
    BY <1>1, <1>4 DEF find_probe, Reads, ReaderPc, history, Register
<1>5. CASE find_load(r)
    <2>1. pc' \in [Reader -> ReaderPc]
        BY <1>5 DEF find_load, Reads, ReaderPc
    <2> QED
        BY <1>1, <1>5, <2>1 DEF find_load, history, Register
<1>6. CASE find_store(r)
    <2>1. pc' \in [Reader -> ReaderPc]
        BY <1>6 DEF find_store, Reads, ReaderPc
    <2>2. fake_idx' \in Index
        BY <1>1, <1>6, StepIndex DEF find_store, Register
    <2>3. rd' \in [Reader -> Register]
        BY <1>1, <1>6 DEF find_store, Register
    <2>4. alone' \in [Reader -> BOOLEAN]
        BY <1>6 DEF find_store
    <2> QED
        BY <1>6, <2>1, <2>2, <2>3, <2>4 DEF find_store, Register
<1>7. CASE find_test(r)
    <2>1. pc' \in [Reader -> ReaderPc]
        BY <1>7 DEF find_test, Reads, ReaderPc
    <2>2. rd' \in [Reader -> Register]
        BY <1>1, <1>7 DEF find_test, Register
    <2> QED
        BY <1>7, <2>1, <2>2 DEF find_test, history, Register
<1>8. CASE fix_flags(r)
    BY <1>8 DEF fix_flags, Reads, ReaderPc, Disturbed
<1>9. CASE fix_pos(r)
    BY <1>1, <1>9 DEF fix_pos, Reads, ReaderPc, Disturbed, Register, Word
<1>10. CASE fix_time(r)
    BY <1>1, <1>10 DEF fix_time, Reads, ReaderPc, Disturbed, Register, Word
<1>11. CASE check(r)
    <2>1. pc' \in [Reader -> ReaderPc]
        BY <1>11 DEF check, Reads, ReaderPc
    <2>2. [Fresh EXCEPT !.todo = IF flags /\ cb THEN Word ELSE {}] \in Register
        BY Typing DEF Register
    <2>3. rd' \in [Reader -> Register]
        BY <1>11, <2>2 DEF check, Register
    <2>4. alone' \in [Reader -> BOOLEAN]
        BY <1>11 DEF check
    <2> QED
        BY <1>11, <2>1, <2>3, <2>4 DEF check, Register
<1>12. CASE clear_flags(r)
    BY <1>12 DEF clear_flags, Reads, ReaderPc, Disturbed
<1>13. CASE wake(r)
    BY <1>13 DEF wake, Reads, ReaderPc, history
<1>14. ASSUME NEW w \in Word, gps_location_cb(r, w) PROVE TypeOK'
    <2>1. pc' \in [Reader -> ReaderPc]
        BY <1>14 DEF gps_location_cb, ReaderPc
    <2>2. rd' \in [Reader -> Register]
        BY <1>1, <1>14 DEF gps_location_cb, Register
    <2>3. last' \in Location
        BY <1>14 DEF gps_location_cb, Location
    <2>4. alone' \in [Reader -> BOOLEAN] /\ sound' \in BOOLEAN /\ heard' \in BOOLEAN
        BY <1>14 DEF gps_location_cb, Disturbed
    <2>5. shown' \subseteq Index
        BY <1>14 DEF gps_location_cb
    <2> QED
        BY <1>14, <2>1, <2>2, <2>3, <2>4, <2>5 DEF gps_location_cb, Register, Location
<1> QED
    BY <1>2, <1>3, <1>4, <1>5, <1>6, <1>7, <1>8, <1>9, <1>10, <1>11, <1>12, <1>13, <1>14 DEF Reads_on

LEMMA NextType == TypeOK /\ Opening /\ [Next]_vars => TypeOK'
<1> SUFFICES ASSUME TypeOK, Opening, [Next]_vars PROVE TypeOK'
    OBVIOUS
<1>1. CASE Loads_on
    BY <1>1, LoadingType
<1>2. ASSUME NEW r \in Reader, Reads_on(r) PROVE TypeOK'
    BY <1>2, ReadingType
<1>3. CASE get_current_location
    <2>1. srv' \in [pc : {"off", "idle", "copy", "reply"}, out : Location, todo : SUBSET Word]
        BY <1>3, Typing DEF get_current_location
    <2> QED
        BY <1>3, <2>1 DEF get_current_location, TypeOK, opening, driver, reading, Location
<1>4. ASSUME NEW w \in Word, answer_word(w) PROVE TypeOK'
    <2>1. srv' \in [pc : {"off", "idle", "copy", "reply"}, out : Location, todo : SUBSET Word]
        BY <1>4 DEF answer_word, TypeOK, Location
    <2> QED
        BY <1>4, <2>1 DEF answer_word, TypeOK, opening, driver, reading, history, Location
<1>5. CASE UNCHANGED vars
    BY <1>5 DEF TypeOK, vars, opening, driver, reading, serving, history
<1> QED
    BY <1>1, <1>2, <1>3, <1>4, <1>5 DEF Next

\* Type correctness: for every recording the readers stay inside it, and what
\* they, init and the listener store word by word are words of a location
\* (gps.android.c:455-707, location.android.c:51-158).
THEOREM TypeCorrect == Spec => []TypeOK
BY InitType, NextType, OpeningInvariant, PTL DEF Spec

-----------------------------------------------------------------------------
(* What an answer can be relied on for.                                    *)

\* A reader nobody disturbed has in dev.fix what it put there: first the place, then
\* the time, of the message in its hand.
OwnFix ==
    \A r \in Reader : alone[r] =>
        /\ pc[r] \notin {"skip", "step", "test"}
        /\ pc[r] = "time" => fix["pos"] = rd[r].fm
        /\ pc[r] \in {"check", "copy"} => fix["pos"] = fix["time"]

\* What it has copied so far is what dev.fix holds.
OwnCopy ==
    \A r \in Reader : alone[r] /\ pc[r] = "copy" =>
        \A w \in Word \ rd[r].todo : last[w] = fix[w]

\* last_location, and the part of an answer that is copied from it.
SoundLast == sound => last["pos"] = last["time"]
SoundAnswer ==
    heard =>
        /\ srv.pc = "copy" =>
             last["pos"] = last["time"] /\ \A w \in Word \ srv.todo : srv.out[w] = last[w]
        /\ srv.pc = "reply" => srv.out["pos"] = srv.out["time"]

WholeInv == OwnFix /\ OwnCopy /\ SoundLast /\ SoundAnswer

LEMMA InitWhole == Init => WholeInv
BY DEF Init, WholeInv, OwnFix, OwnCopy, SoundLast, SoundAnswer, Zeroed, Word

\* The loading thread stores into dev.fix only when it has marked every reader.
LEMMA LoadingWhole == TypeOK /\ WholeInv /\ Loads_on => WholeInv'
<1> SUFFICES ASSUME TypeOK, WholeInv, Loads_on PROVE WholeInv'
    OBVIOUS
<1>1. ASSUME UNCHANGED <<fix, pc, rd, last, srv, history>> PROVE WholeInv'
    BY <1>1 DEF WholeInv, OwnFix, OwnCopy, SoundLast, SoundAnswer, history
<1>2. CASE hw_dlopen \/ hw_check \/ hw_failed \/ init \/ init_callbacks
    BY <1>1, <1>2 DEF hw_dlopen, hw_check, hw_failed, init, init_callbacks, driver, reading, serving
<1>3. ASSUME NEW w \in Word \cup {"flags"}, init_clear(w) PROVE WholeInv'
    <2>1. /\ \A r \in Reader : ~alone'[r]
          /\ UNCHANGED <<pc, rd, last, srv, sound, heard>>
        BY <1>3 DEF init_clear, Disturbed, reading, serving
    <2> QED
        BY <2>1 DEF WholeInv, OwnFix, OwnCopy, SoundLast, SoundAnswer
<1>4. CASE init_thread
    <2>1. /\ UNCHANGED <<fix, rd, last, alone, sound, heard>>
          /\ srv' = [srv EXCEPT !.pc = IF srv.pc = "off" THEN "idle" ELSE srv.pc]
          /\ pc' = pc \/ pc' = [pc EXCEPT ![NextReader] = "start"]
        BY <1>4 DEF init_thread, Loaded, driver, history
    <2>2. \A r \in Reader : pc'[r] = pc[r] \/ pc'[r] = "start"
        BY <2>1 DEF TypeOK
    <2>3. srv'.out = srv.out /\ srv'.todo = srv.todo
          /\ srv'.pc \in {"copy", "reply"} => srv.pc = srv'.pc
        BY <2>1 DEF TypeOK
    <2>4. OwnFix' /\ OwnCopy'
        BY <2>1, <2>2 DEF WholeInv, OwnFix, OwnCopy
    <2>5. SoundLast' /\ SoundAnswer'
        BY <2>1, <2>3 DEF WholeInv, SoundLast, SoundAnswer
    <2> QED
        BY <2>4, <2>5 DEF WholeInv
<1> QED
    BY <1>2, <1>3, <1>4 DEF Loads_on

\* A reader's steps: those that store mark all other readers.
LEMMA ReadingWhole == ASSUME NEW r \in Reader, TypeOK, WholeInv, Reads_on(r) PROVE WholeInv'
<1>1. /\ pc \in [Reader -> ReaderPc] /\ rd \in [Reader -> Register]
      /\ fix \in Location /\ last \in Location /\ alone \in [Reader -> BOOLEAN]
    BY DEF TypeOK, Register, Location
<1>2. OwnFix /\ OwnCopy /\ SoundLast /\ SoundAnswer
    BY DEF WholeInv
\* Steps that store nothing into fix or last, and leave alone as it is.
<1>3. ASSUME UNCHANGED <<fix, last, srv, alone, sound, heard>>,
             NEW to, pc' = [pc EXCEPT ![r] = to],
             \A q \in Reader \ {r} : rd'[q] = rd[q],
             alone[r] => to \notin {"skip", "step", "test", "time", "check", "copy"}
      PROVE  WholeInv'
    <2>1. \A q \in Reader : pc'[q] = IF q = r THEN to ELSE pc[q]
        BY <1>1, <1>3
    <2>2. OwnFix' /\ OwnCopy'
        BY <1>2, <1>3, <2>1 DEF OwnFix, OwnCopy
    <2> QED
        BY <1>2, <1>3, <2>2 DEF WholeInv, SoundLast, SoundAnswer
<1> USE DEF Reads, opening, driver, serving, history
<1>4. CASE reader_start(r) \/ wake(r)
    BY <1>3, <1>4 DEF reader_start, wake
<1>5. CASE find_begin(r) \/ find_probe(r)
    <2>1. \A q \in Reader \ {r} : rd'[q] = rd[q]
        BY <1>1, <1>5 DEF find_begin, find_probe
    <2> QED
        BY <1>3, <1>5, <2>1 DEF find_begin, find_probe
<1>6. CASE find_load(r)
    <2>1. \A q \in Reader \ {r} : rd'[q] = rd[q]
        BY <1>1, <1>6 DEF find_load
    <2>2. alone[r] => pc[r] # "skip"
        BY <1>2 DEF OwnFix
    <2> QED
        BY <1>3, <1>6, <2>1, <2>2 DEF find_load
<1>7. CASE find_store(r)
    <2>1. /\ \A q \in Reader \ {r} : rd'[q] = rd[q] /\ pc'[q] = pc[q] /\ alone'[q] = alone[q]
          /\ alone'[r] => pc'[r] = "flags"
          /\ UNCHANGED <<fix, last, srv, sound, heard>>
        BY <1>1, <1>7 DEF find_store
    <2>2. OwnFix' /\ OwnCopy'
        BY <1>2, <2>1 DEF OwnFix, OwnCopy
    <2> QED
        BY <1>2, <2>1, <2>2 DEF WholeInv, SoundLast, SoundAnswer
<1>8. CASE find_test(r)
    <2>1. \A q \in Reader \ {r} : rd'[q] = rd[q]
        BY <1>1, <1>8 DEF find_test
    <2>2. ~alone[r]
        BY <1>2, <1>8 DEF OwnFix, find_test
    <2> QED
        BY <1>3, <1>8, <2>1, <2>2 DEF find_test
\* Steps that store into dev.fix.
<1>9. ASSUME UNCHANGED <<last, srv, rd, sound, heard>>,
             \A q \in Reader \ {r} : ~alone'[q],
             pc'[r] \notin {"skip", "step", "test", "copy"},
             pc'[r] = "time" => fix'["pos"] = rd[r].fm,
             pc'[r] = "check" /\ alone'[r] => fix'["pos"] = fix'["time"]
      PROVE  WholeInv'
    <2>1. OwnFix' /\ OwnCopy'
        BY <1>9 DEF OwnFix, OwnCopy
    <2> QED
        BY <1>2, <1>9, <2>1 DEF WholeInv, SoundLast, SoundAnswer
<1>10. CASE fix_flags(r)
    BY <1>1, <1>9, <1>10 DEF fix_flags, Disturbed
<1>11. CASE fix_pos(r)
    BY <1>1, <1>9, <1>11 DEF fix_pos, Disturbed, Location, Word
<1>12. CASE fix_time(r)
    <2>1. alone'[r] = alone[r] /\ pc'[r] = "check" /\ \A q \in Reader \ {r} : ~alone'[q]
        BY <1>1, <1>12 DEF fix_time, Disturbed
    <2>2. fix'["pos"] = fix["pos"] /\ fix'["time"] = rd[r].fm
        BY <1>1, <1>12 DEF fix_time, Location, Word
    <2>3. alone[r] => fix["pos"] = rd[r].fm
        BY <1>2, <1>12 DEF OwnFix, fix_time
    <2> QED
        BY <1>9, <1>12, <2>1, <2>2, <2>3 DEF fix_time
<1>13. CASE clear_flags(r)
    BY <1>1, <1>9, <1>13 DEF clear_flags, Disturbed
<1>14. CASE check(r)
    <2>1. /\ \A q \in Reader \ {r} : rd'[q] = rd[q] /\ pc'[q] = pc[q] /\ alone'[q] = alone[q]
          /\ alone'[r] = (flags /\ cb /\ alone[r])
          /\ pc'[r] = IF flags /\ cb THEN "copy" ELSE "sleep"
          /\ UNCHANGED <<fix, last, srv, sound, heard>>
        BY <1>1, <1>14 DEF check
    <2>2. flags /\ cb => rd'[r].todo = Word
        BY <1>1, <1>14 DEF check, Fresh
    <2>3. alone[r] => fix["pos"] = fix["time"]
        BY <1>2, <1>14 DEF OwnFix, check
    <2>4. OwnFix'
        BY <1>2, <2>1, <2>3 DEF OwnFix
    <2>5. OwnCopy'
        <3>1. alone'[r] => Word \ rd'[r].todo = {}
            BY <2>1, <2>2
        <3>2. ASSUME NEW q \in Reader \ {r}, alone'[q], pc'[q] = "copy"
              PROVE  \A w \in Word \ rd'[q].todo : last'[w] = fix'[w]
            BY <1>2, <2>1, <3>2 DEF OwnCopy
        <3> QED
            BY <3>1, <3>2 DEF OwnCopy
    <2> QED
        BY <1>2, <2>1, <2>4, <2>5 DEF WholeInv, SoundLast, SoundAnswer
<1>15. ASSUME NEW w \in Word, gps_location_cb(r, w) PROVE WholeInv'
    <2>1. /\ \A q \in Reader \ {r} : ~alone'[q]
          /\ alone'[r] = alone[r]
          /\ pc[r] = "copy" /\ pc'[r] \in {"copy", "done"}
          /\ UNCHANGED <<fix, srv>> /\ ~heard'
          /\ sound' = (rd[r].todo = {w} /\ alone[r])
        BY <1>1, <1>15 DEF gps_location_cb, Disturbed
    <2>2. /\ rd'[r].todo = rd[r].todo \ {w}
          /\ last' = [last EXCEPT ![w] = fix[w]]
        BY <1>1, <1>15 DEF gps_location_cb, Register
    <2>3. alone[r] => \A v \in Word \ rd'[r].todo : last'[v] = fix[v]
        BY <1>1, <1>2, <2>1, <2>2 DEF OwnCopy, Location
    <2>4. alone[r] => fix["pos"] = fix["time"]
        BY <1>2, <2>1 DEF OwnFix
    <2>5. OwnFix' /\ OwnCopy'
        BY <2>1, <2>3, <2>4 DEF OwnFix, OwnCopy
    <2>6. SoundLast'
        BY <2>1, <2>2, <2>3, <2>4 DEF SoundLast, Word
    <2> QED
        BY <2>1, <2>5, <2>6 DEF WholeInv, SoundAnswer
<1> QED
    BY <1>4, <1>5, <1>6, <1>7, <1>8, <1>10, <1>11, <1>12, <1>13, <1>14, <1>15 DEF Reads_on

LEMMA NextWhole == TypeOK /\ WholeInv /\ [Next]_vars => WholeInv'
<1> SUFFICES ASSUME TypeOK, WholeInv, [Next]_vars PROVE WholeInv'
    OBVIOUS
<1>1. CASE Loads_on
    BY <1>1, LoadingWhole
<1>2. ASSUME NEW r \in Reader, Reads_on(r) PROVE WholeInv'
    BY <1>2, ReadingWhole
<1>3. CASE get_current_location
    BY <1>3 DEF get_current_location, WholeInv, OwnFix, OwnCopy, SoundLast, SoundAnswer, driver, reading
<1>4. ASSUME NEW w \in Word, answer_word(w) PROVE WholeInv'
    <2>1. UNCHANGED <<fix, pc, rd, last, alone, sound, heard>>
        BY <1>4 DEF answer_word, driver, reading, history
    <2>2. /\ srv.pc = "copy" /\ srv'.todo = srv.todo \ {w}
          /\ srv'.out = [srv.out EXCEPT ![w] = last[w]]
          /\ srv'.pc = IF srv.todo = {w} THEN "reply" ELSE "copy"
        BY <1>4 DEF answer_word
    <2>3. heard => last["pos"] = last["time"] /\ \A v \in Word \ srv'.todo : srv'.out[v] = last[v]
        BY <2>2 DEF WholeInv, SoundAnswer, TypeOK
    <2>4. SoundAnswer'
        BY <2>1, <2>2, <2>3 DEF SoundAnswer, Word
    <2> QED
        BY <2>1, <2>4 DEF WholeInv, OwnFix, OwnCopy, SoundLast
<1>5. CASE UNCHANGED vars
    BY <1>5 DEF vars, driver, reading, serving, history, WholeInv, OwnFix, OwnCopy, SoundLast, SoundAnswer
<1> QED
    BY <1>1, <1>2, <1>3, <1>4, <1>5 DEF Next

\* However often the driver is opened, and however many readers that starts, an answer
\* that no callback overlapped, of a position one reader put together undisturbed, has
\* its place and its time from one message (gps.android.c:621-667,
\* location.android.c:55 and 156).
THEOREM WholeAnswers == Spec => []AnswersWhole
<1>1. WholeInv => AnswersWhole
    BY DEF WholeInv, SoundAnswer, AnswersWhole
<1> QED
    BY InitWhole, NextWhole, TypeCorrect, <1>1, PTL DEF Spec
-----------------------------------------------------------------------------
(* The replay that stands still.                                           *)

RMC(i) == Messages[i + 1] = "RMC"
After(i) == (i + 1) % N

\* What it takes of a recording: the messages findFake looks at, P, from the first
\* one on and from behind the position it found, are stepped through by two and hold
\* one position, m.
SameFound(P, m) ==
    /\ 0 \in P /\ After(m) \in P
    /\ \A i \in P : IF RMC(i) THEN i = m ELSE After(After(i)) \in P

OnePosition == \E m \in Index : \E P \in SUBSET Index : SameFound(P, m)

LEMMA AfterIs == ASSUME NEW i \in Index PROVE After(i) = IF i + 1 < N THEN i + 1 ELSE 0
<1>1. N \in Nat \ {0} /\ i \in 0 .. N - 1
    BY Recording DEF Index
<1> HIDE DEF N
<1>2. CASE i + 1 < N
    BY <1>1, <1>2 DEF After
<1>3. CASE i + 1 = N
    BY <1>1, <1>3 DEF After
<1> QED
    BY <1>1, <1>2, <1>3

\* The driver's recording: an odd number of messages, the positions at odd places.
LEMMA OddReplay ==
    ASSUME N % 2 = 1,
           NEW m \in Index, RMC(m),
           \A i \in Index : RMC(i) => i % 2 = 1 /\ m <= i
    PROVE  OnePosition
<1> DEFINE P == {i \in Index : i % 2 = 0 \/ i <= m}
<1>1. N \in Nat /\ m \in 0 .. N - 1 /\ m % 2 = 1
    BY Recording DEF Index
<1> HIDE DEF N
<1>2. 0 \in P
    BY <1>1 DEF Index
<1>3. After(m) \in P
    <2>1. m + 1 < N /\ (m + 1) % 2 = 0
        BY <1>1
    <2> QED
        BY <1>1, <2>1, AfterIs DEF Index
<1>4. ASSUME NEW i \in P, RMC(i) PROVE i = m
    BY <1>1, <1>4 DEF Index
<1>5. ASSUME NEW i \in P, ~RMC(i) PROVE After(After(i)) \in P
    <2>1. i \in 0 .. N - 1 /\ i # m /\ (i % 2 = 0 \/ i < m)
        BY <1>1, <1>5 DEF Index
    <2>2. CASE i = N - 1
        <3>1. After(i) = 0
            BY <1>1, <2>1, <2>2, AfterIs DEF Index
        <3>2. After(0) = 1 /\ 1 <= m /\ 1 \in Index
            BY <1>1, AfterIs DEF Index
        <3> QED
            BY <3>1, <3>2
    <2>3. CASE i # N - 1
        <3>1. After(i) = i + 1 /\ i + 1 \in Index
            BY <1>1, <2>1, <2>3, AfterIs DEF Index
        <3>2. i + 2 < N
            BY <1>1, <2>1, <2>3
        <3>3. After(i + 1) = i + 2 /\ i + 2 \in Index
            <4>1. After(i + 1) = IF (i + 1) + 1 < N THEN (i + 1) + 1 ELSE 0
                BY <3>1, AfterIs
            <4> QED
                BY <1>1, <2>1, <3>2, <4>1 DEF Index
        <3>4. (i + 2) % 2 = 0 \/ i + 2 <= m
            BY <1>1, <2>1
        <3> QED
            BY <3>1, <3>3, <3>4
    <2> QED
        BY <2>2, <2>3
<1>6. SameFound(P, m)
    <2> HIDE DEF P
    <2> QED
        BY <1>2, <1>3, <1>4, <1>5 DEF SameFound
<1> QED
    BY <1>6 DEF OnePosition

\* The first reader is the only one there is, if there is one.
Lone == \A q \in Reader : pc[q] # "none" => q = 1

\* Where a lone reader is in its search: fake_idx on P, or behind a message of P
\* that is no position and that it is about to step over.
OnPath(P, m) ==
    /\ fix["pos"] \in {Nowhere, m}
    /\ pc[1] \notin {"put", "skip", "step"} => fake_idx \in P
    /\ pc[1] \in {"inc", "put"} => fake_idx \in P /\ rd[1].fm = fake_idx
    /\ pc[1] \in {"skip", "step"} =>
         rd[1].fm \in P /\ ~RMC(rd[1].fm) /\ fake_idx = After(rd[1].fm)
    /\ pc[1] \in {"put", "step"} => rd[1].reg = fake_idx
    /\ pc[1] \in {"flags", "pos"} => rd[1].fm = m

StillInv(P, m) ==
    /\ shown \subseteq {m}
    /\ \A q \in Reader : pc[q] # "none" => pc[1] # "none"
    /\ Lone => OnPath(P, m)

LEMMA InitStill ==
    ASSUME NEW m \in Index, NEW P \in SUBSET Index, SameFound(P, m)
    PROVE  Init => StillInv(P, m)
<1>1. 1 \in Reader
    BY InitAssumption DEF Reader
<1> QED
    BY <1>1 DEF Init, StillInv, OnPath, SameFound, Zeroed, Word

\* The loading thread starts a second reader beside a first, and clears a position.
LEMMA LoadingStill ==
    ASSUME NEW m \in Index, NEW P \in SUBSET Index, SameFound(P, m),
           TypeOK, StillInv(P, m), Loads_on
    PROVE  StillInv(P, m)'
<1>1. 1 \in Reader /\ pc \in [Reader -> ReaderPc] /\ fix \in Location
    BY InitAssumption DEF Reader, TypeOK, Location
<1>2. ASSUME UNCHANGED <<fix, fake_idx, pc, rd, shown>> PROVE StillInv(P, m)'
    BY <1>2 DEF StillInv, OnPath, Lone, RMC, After, Nowhere, Index, N
<1>3. CASE hw_dlopen \/ hw_check \/ hw_failed \/ init \/ init_callbacks
    BY <1>2, <1>3 DEF hw_dlopen, hw_check, hw_failed, init, init_callbacks, driver, reading, history
<1>4. ASSUME NEW w \in Word \cup {"flags"}, init_clear(w) PROVE StillInv(P, m)'
    <2>1. UNCHANGED <<fake_idx, pc, rd, shown>> /\ fix'["pos"] \in {fix["pos"], Nowhere}
        BY <1>1, <1>4 DEF init_clear, reading, Location, Word
    <2>2. Lone' => Lone
        BY <2>1 DEF Lone
    <2>3. Lone => OnPath(P, m)'
        BY <2>1 DEF StillInv, OnPath, RMC, After
    <2> QED
        BY <2>1, <2>2, <2>3 DEF StillInv
<1>5. CASE init_thread
    <2>1. UNCHANGED <<fix, fake_idx, rd, shown>>
        BY <1>5 DEF init_thread, driver, history
    <2>2. CASE UNCHANGED pc
        BY <1>2, <2>1, <2>2
    <2>3. CASE pc' = [pc EXCEPT ![NextReader] = "start"]
        <3>1. \A q \in Reader : pc'[q] = IF q = NextReader THEN "start" ELSE pc[q]
            BY <1>1, <2>3
        <3>2. CASE Readers = {}
            <4>1. NextReader = 1
                BY <3>2, FS_EmptySet DEF NextReader
            <4>2. \A q \in Reader : pc[q] = "none"
                BY <3>2 DEF Readers
            <4>3. pc'[1] = "start" /\ \A q \in Reader : q # 1 => pc'[q] = "none"
                BY <1>1, <3>1, <4>1, <4>2
            <4>4. Lone
                BY <4>2 DEF Lone
            <4>5. fix["pos"] \in {Nowhere, m} /\ fake_idx \in P
                BY <1>1, <4>2, <4>4 DEF StillInv, OnPath
            <4>6. OnPath(P, m)'
                BY <2>1, <4>3, <4>5 DEF OnPath
            <4> QED
                BY <1>1, <2>1, <4>3, <4>6 DEF StillInv
        <3>3. CASE Readers # {}
            <4>1. pc[1] # "none"
                BY <3>3 DEF Readers, StillInv
            <4>2. CASE Readers = {1}
                <5>1. NextReader = 2
                    <6>1. Cardinality({1}) = 1
                        BY FS_Singleton
                    <6> QED
                        BY <4>2, <6>1 DEF NextReader
                <5>2. CASE 2 \in Reader
                    <6>1. ~Lone'
                        BY <3>1, <5>1, <5>2 DEF Lone
                    <6>2. pc'[1] # "none"
                        BY <1>1, <3>1, <4>1
                    <6> QED
                        BY <2>1, <6>1, <6>2 DEF StillInv
                <5>3. CASE 2 \notin Reader
                    <6>1. pc' = pc
                        BY <1>1, <2>3, <5>1, <5>3
                    <6> QED
                        BY <1>2, <2>1, <6>1
                <5> QED
                    BY <5>2, <5>3
            <4>3. CASE Readers # {1}
                <5>1. PICK q \in Reader : pc[q] # "none" /\ q # 1
                    BY <1>1, <4>1, <4>3 DEF Readers
                <5>2. pc'[q] # "none" /\ pc'[1] # "none"
                    BY <1>1, <3>1, <4>1, <5>1
                <5>3. ~Lone'
                    BY <5>1, <5>2 DEF Lone
                <5> QED
                    BY <2>1, <5>2, <5>3 DEF StillInv
            <4> QED
                BY <4>2, <4>3
        <3> QED
            BY <3>2, <3>3
    <2> QED
        BY <1>5, <2>2, <2>3 DEF init_thread
<1> QED
    BY <1>3, <1>4, <1>5 DEF Loads_on

\* A reader goes on; if it is alone it is on P and finds what it found before.
LEMMA ReadingStill ==
    ASSUME NEW m \in Index, NEW P \in SUBSET Index, SameFound(P, m),
           NEW r \in Reader, TypeOK, StillInv(P, m), Reads_on(r)
    PROVE  StillInv(P, m)'
<1>1. /\ 1 \in Reader /\ pc \in [Reader -> ReaderPc] /\ fix \in Location
      /\ rd \in [Reader -> Register]
    BY InitAssumption DEF Reader, TypeOK, Location, Register
\* It runs already, and goes on running.
<1>2. /\ pc[r] # "none" /\ pc'[r] # "none"
      /\ \A q \in Reader : q # r => pc'[q] = pc[q]
    <2>1. PICK from \in ReaderPc \ {"none"} : \E to \in ReaderPc \ {"none"} :
              pc[r] = from /\ (pc' = [pc EXCEPT ![r] = to] \/ pc' = pc)
        BY <1>1 DEF Reads_on, reader_start, find_begin, find_probe, find_load, find_store, find_test, fix_flags,
           fix_pos, fix_time, check, clear_flags, wake, gps_location_cb, Reads, ReaderPc
    <2> QED
        BY <1>1, <2>1
<1>3. Lone' => Lone /\ r = 1
    BY <1>2 DEF Lone
<1>4. \A q \in Reader : pc'[q] # "none" => pc'[1] # "none"
    BY <1>1, <1>2 DEF StillInv
<1>5. Lone /\ r = 1 => OnPath(P, m)
    BY DEF StillInv
<1>6. ASSUME UNCHANGED shown, Lone /\ r = 1 /\ OnPath(P, m) => OnPath(P, m)'
      PROVE  StillInv(P, m)'
    BY <1>3, <1>4, <1>5, <1>6 DEF StillInv
<1> USE DEF Reads, driver, serving, history
<1>7. CASE reader_start(r) \/ wake(r) \/ find_begin(r)
    <2>1. /\ UNCHANGED <<fix, fake_idx, shown>>
          /\ pc[r] \in {"start", "sleep", "begin"} /\ pc'[r] \in {"begin", "probe"}
        BY <1>1, <1>7 DEF reader_start, wake, find_begin
    <2> QED
        BY <1>6, <2>1 DEF OnPath
<1>8. CASE find_probe(r)
    <2>1. /\ UNCHANGED <<fix, fake_idx, shown>>
          /\ pc[r] = "probe" /\ pc'[r] = "inc" /\ rd'[r].fm = fake_idx
        BY <1>1, <1>8 DEF find_probe, Register
    <2> QED
        BY <1>6, <2>1 DEF OnPath
<1>9. CASE find_load(r)
    <2>1. /\ UNCHANGED <<fix, fake_idx, shown>>
          /\ \/ pc[r] = "inc" /\ pc'[r] = "put"
             \/ pc[r] = "skip" /\ pc'[r] = "step"
        <3>1. UNCHANGED <<fix, fake_idx, shown>>
            BY <1>9 DEF find_load
        <3>2. Reads(r, "inc", "put") \/ Reads(r, "skip", "step")
            BY <1>9 DEF find_load
        <3> QED
            BY <1>1, <3>1, <3>2
    <2>2. rd'[r].fm = rd[r].fm /\ rd'[r].reg = fake_idx
        <3>1. rd' = [rd EXCEPT ![r].reg = fake_idx]
            BY <1>9 DEF find_load
        <3> QED
            BY <1>1, <3>1 DEF Register
    <2>3. ASSUME r = 1, OnPath(P, m), pc[1] = "inc" PROVE OnPath(P, m)'
        BY <2>1, <2>2, <2>3 DEF OnPath
    <2>4. ASSUME r = 1, OnPath(P, m), pc[1] = "skip" PROVE OnPath(P, m)'
        BY <2>1, <2>2, <2>4 DEF OnPath, RMC, After
    <2> QED
        BY <1>6, <2>1, <2>3, <2>4
<1>10. CASE find_store(r)
    <2>1. /\ UNCHANGED <<fix, shown>>
          /\ \/ pc[r] = "put" /\ pc'[r] = IF RMC(rd[r].fm) THEN "flags" ELSE "skip"
             \/ pc[r] = "step" /\ pc'[r] = "test"
          /\ fake_idx' = After(rd[r].reg)
        BY <1>1, <1>10 DEF find_store, Matches, RMC, After
    <2>2. rd'[r].fm = rd[r].fm
        BY <1>1, <1>10 DEF find_store, Register
    <2>3. ASSUME r = 1, OnPath(P, m) PROVE OnPath(P, m)'
        <3>1. fix'["pos"] \in {Nowhere, m}
            BY <2>1, <2>3 DEF OnPath
        <3>2. CASE pc[1] = "step"
            <4>1. rd[1].fm \in P /\ ~RMC(rd[1].fm) /\ rd[1].reg = After(rd[1].fm)
                BY <2>3, <3>2 DEF OnPath
            <4>2. fake_idx' \in P
                BY <2>1, <2>3, <4>1 DEF SameFound
            <4> QED
                BY <2>1, <2>3, <3>1, <3>2, <4>2 DEF OnPath
        <3>3. CASE pc[1] = "put"
            <4>1. rd[1].fm \in P /\ rd[1].reg = rd[1].fm
                BY <2>3, <3>3 DEF OnPath
            <4>2. CASE RMC(rd[1].fm)
                <5>1. rd[1].fm = m /\ fake_idx' \in P /\ pc'[1] = "flags"
                    BY <2>1, <2>3, <3>3, <4>1, <4>2 DEF SameFound
                <5> QED
                    BY <2>2, <2>3, <3>1, <5>1 DEF OnPath
            <4>3. CASE ~RMC(rd[1].fm)
                <5>1. pc'[1] = "skip" /\ fake_idx' = After(rd[1].fm)
                    BY <2>1, <2>3, <3>3, <4>1, <4>3
                <5> QED
                    BY <2>2, <2>3, <3>1, <4>1, <4>3, <5>1 DEF OnPath, RMC, After
            <4> QED
                BY <4>2, <4>3
        <3> QED
            BY <2>1, <2>3, <3>2, <3>3
    <2> QED
        BY <1>6, <2>1, <2>3
<1>11. CASE find_test(r)
    <2>1. /\ UNCHANGED <<fix, fake_idx, shown>>
          /\ pc[r] = "test" /\ pc'[r] \in {"check", "probe"}
        BY <1>1, <1>11 DEF find_test
    <2> QED
        BY <1>6, <2>1 DEF OnPath
<1>12. CASE fix_flags(r)
    <2>1. /\ UNCHANGED <<fix, fake_idx, shown, rd>>
          /\ pc[r] = "flags" /\ pc'[r] = "pos"
        BY <1>1, <1>12 DEF fix_flags
    <2> QED
        BY <1>6, <2>1 DEF OnPath
<1>13. CASE fix_pos(r)
    <2>1. /\ UNCHANGED <<fake_idx, shown>>
          /\ pc[r] = "pos" /\ pc'[r] = "time" /\ fix'["pos"] = rd[r].fm
        BY <1>1, <1>13 DEF fix_pos, Location, Word
    <2> QED
        BY <1>6, <2>1 DEF OnPath
<1>14. CASE fix_time(r)
    <2>1. /\ UNCHANGED <<fake_idx, shown>>
          /\ pc[r] = "time" /\ pc'[r] = "check" /\ fix'["pos"] = fix["pos"]
        BY <1>1, <1>14 DEF fix_time, Location, Word
    <2> QED
        BY <1>6, <2>1 DEF OnPath
<1>15. CASE check(r) \/ clear_flags(r)
    <2>1. /\ UNCHANGED <<fix, fake_idx, shown>>
          /\ pc[r] \in {"check", "done"} /\ pc'[r] \in {"copy", "sleep"}
        BY <1>1, <1>15 DEF check, clear_flags
    <2> QED
        BY <1>6, <2>1 DEF OnPath
<1>16. ASSUME NEW w \in Word, gps_location_cb(r, w) PROVE StillInv(P, m)'
    <2>1. /\ UNCHANGED <<fix, fake_idx>>
          /\ pc[r] = "copy" /\ pc'[r] \in {"copy", "done"}
        BY <1>1, <1>16 DEF gps_location_cb
    <2>2. Lone /\ r = 1 => OnPath(P, m)'
        BY <1>5, <2>1 DEF OnPath
    <2>3. shown' \subseteq {m}
        <3>1. CASE w = "pos" /\ Readers = {r}
            <4>1. r = 1 /\ Lone
                BY <1>1, <1>2, <3>1 DEF Readers, Lone, StillInv
            <4>2. fix[w] \in {Nowhere, m}
                BY <1>5, <3>1, <4>1 DEF OnPath
            <4>3. Nowhere \notin Index
                BY Recording DEF Nowhere, Index
            <4>4. shown' = shown \cup ({fix[w]} \cap Index)
                BY <1>16, <3>1 DEF gps_location_cb
            <4> QED
                BY <4>2, <4>3, <4>4 DEF StillInv
        <3>2. CASE ~ (w = "pos" /\ Readers = {r})
            BY <1>16, <3>2 DEF gps_location_cb, StillInv
        <3> QED
            BY <3>1, <3>2
    <2> QED
        BY <1>3, <1>4, <2>2, <2>3 DEF StillInv
<1> QED
    BY <1>7, <1>8, <1>9, <1>10, <1>11, <1>12, <1>13, <1>14, <1>15, <1>16 DEF Reads_on

LEMMA NextStill ==
    ASSUME NEW m \in Index, NEW P \in SUBSET Index, SameFound(P, m)
    PROVE  TypeOK /\ StillInv(P, m) /\ [Next]_vars => StillInv(P, m)'
<1> SUFFICES ASSUME TypeOK, StillInv(P, m), [Next]_vars PROVE StillInv(P, m)'
    OBVIOUS
<1>1. ASSUME UNCHANGED <<fix, fake_idx, pc, rd, shown>> PROVE StillInv(P, m)'
    BY <1>1 DEF StillInv, OnPath, Lone, RMC, After, Nowhere, Index, N
<1>2. CASE Loads_on
    BY <1>2, LoadingStill
<1>3. ASSUME NEW r \in Reader, Reads_on(r) PROVE StillInv(P, m)'
    BY <1>3, ReadingStill
<1>4. CASE get_current_location \/ \E w \in Word : answer_word(w)
    BY <1>1, <1>4 DEF get_current_location, answer_word, driver, reading, history
<1>5. CASE UNCHANGED vars
    BY <1>1, <1>5 DEF vars, driver, reading, history
<1> QED
    BY <1>2, <1>3, <1>4, <1>5 DEF Next

\* A recording of which findFake meets one position only, as the driver's (OddReplay):
\* a lone reader delivers that one for ever, also when the driver is opened again
\* meanwhile (gps.android.c:415-440).
THEOREM StandsStill ==
    ASSUME OnePosition
    PROVE  Spec => []ReplayStandsStill
<1>1. PICK m \in Index : \E P \in SUBSET Index : SameFound(P, m)
    BY DEF OnePosition
<1>2. PICK P \in SUBSET Index : SameFound(P, m)
    BY <1>1
<1>3. Init => StillInv(P, m)
    BY <1>2, InitStill
<1>4. TypeOK /\ StillInv(P, m) /\ [Next]_vars => StillInv(P, m)'
    BY <1>2, NextStill
<1>5. StillInv(P, m) => ReplayStandsStill
    <2> SUFFICES ASSUME shown \subseteq {m} PROVE Cardinality(shown) <= 1
        BY DEF StillInv, ReplayStandsStill
    <2>1. IsFiniteSet({m}) /\ Cardinality({m}) = 1
        BY FS_Singleton
    <2> QED
        BY <2>1, FS_Subset
<1> QED
    BY <1>3, <1>4, <1>5, TypeCorrect, PTL DEF Spec

-----------------------------------------------------------------------------
(***************************************************************************)
(* The formats and the arguments passed for them.                          *)
(***************************************************************************)
\* The place of the item in a format that takes no argument, if there is one.
Mark(fn) ==
    IF fn = "GGA" THEN 15 ELSE IF fn = "GLL" THEN 8 ELSE IF fn = "GSV" THEN 5 ELSE IF fn = "VTG" THEN 10 ELSE 0

\* The argument the item at p takes.
Arg(fn, p) == IF Mark(fn) = 0 \/ p < Mark(fn) THEN p ELSE p - 1

\* The C type a conversion stores.
Stores(c) ==
    CASE c = "c" -> "char" [] c = "d" -> "int" [] c = "f" -> "float" [] c = "i" -> "int"
      [] c = "s" -> "text" [] c = "t" -> "text" [] c = "D" -> "date" [] c = "T" -> "time"

Conversion == {"c", "d", "f", "i", "s", "t", "D", "T"}

\* The members with their types, of whatever frame.
Numbers == {Sats[i] : i \in 1 .. 16} \cup {"latitude_direction", "longitude_direction", "variation_direction",
           "fix_quality", "satellites_tracked", "dgps_age", "fix_type", "total_msgs", "msg_nr", "total_sats"}
Floats == {Deviations[i] : i \in 1 .. 7} \cup {"latitude", "longitude", "variation", "speed", "course", "hdop",
          "altitude", "height", "pdop", "vdop", "true_track_degrees", "magnetic_track_degrees", "speed_knots",
          "speed_kph", "value"}
Chars == {"validity", "altitude_units", "height_units", "mode", "status", "c_true", "c_magnetic", "c_knots",
         "c_kph", "faa_mode"}
Kind(m) ==
    IF m \in Numbers THEN "int" ELSE IF m \in Floats THEN "float" ELSE IF m \in Chars THEN "char"
    ELSE IF m = "time" THEN "time" ELSE IF m = "date" THEN "date" ELSE "text"

\* Format and arguments of a function agree, item by item.
Agree(fn, F, A) ==
    /\ Len(F) \in Nat /\ Len(A) = (IF Mark(fn) = 0 THEN Len(F) ELSE Len(F) - 1)
    /\ F[1] = "t" /\ A[1] = <<"type", "text">> /\ 0 < Len(F) /\ 0 < Len(A)
    /\ Mark(fn) \in 0 .. Len(F) /\ Mark(fn) # 1
    /\ Mark(fn) # 0 => F[Mark(fn)] = (IF fn = "GGA" THEN "_" ELSE ";")
    /\ \A p \in 1 .. Len(F) : p # Mark(fn) => F[p] \in Conversion /\ Stores(F[p]) = A[Arg(fn, p)][2]
    /\ \A i \in 1 .. Len(A) : A[i] = <<A[i][1], Kind(A[i][1])>>
    /\ F \in Seq({F[p] : p \in 1 .. Len(F)}) /\ A \in Seq({A[i] : i \in 1 .. Len(A)})
    /\ \A i \in 2 .. Len(A) : A[i][1] # "type"

LEMMA StoresIs ==
    /\ Stores("c") = "char" /\ Stores("d") = "int" /\ Stores("f") = "float" /\ Stores("i") = "int"
    /\ Stores("s") = "text" /\ Stores("t") = "text" /\ Stores("D") = "date" /\ Stores("T") = "time"
    BY DEF Stores

\* C is P, of length n, with S behind it.
Joined(C, V, P, S, n, m) ==
    /\ C \in Seq(V) /\ Len(C) = m
    /\ \A i \in 1 .. n : C[i] = P[i]
    /\ \A i \in n + 1 .. m : C[i] = S[i - n]

LEMMA Joins ==
    ASSUME NEW V, NEW P \in Seq(V), NEW S \in Seq(V), NEW n \in Nat, NEW k \in Nat, Len(P) = n, Len(S) = k
    PROVE  Joined(P \o S, V, P, S, n, n + k)
    BY DEF Joined

LEMMA Tuple ==
    ASSUME NEW s, NEW n \in Nat, s = [i \in 1 .. n |-> s[i]]
    PROVE  s \in Seq({s[i] : i \in 1 .. n})
<1>1. s \in [1 .. n -> {s[i] : i \in 1 .. n}]
    OBVIOUS
<1> QED
    BY <1>1

LEMMA AgreeRMC == Agree("RMC", Format["RMC"], Args["RMC"])
<1> DEFINE F == <<"t", "T", "c", "f", "d", "f", "d", "f", "f", "D", "f", "d">>
           A == <<<<"type", "text">>, <<"time", "time">>, <<"validity", "char">>,
                <<"latitude", "float">>, <<"latitude_direction", "int">>,
                <<"longitude", "float">>, <<"longitude_direction", "int">>,
                <<"speed", "float">>, <<"course", "float">>, <<"date", "date">>,
                <<"variation", "float">>, <<"variation_direction", "int">>>>
<1>1. Format["RMC"] = F /\ Args["RMC"] = A
    BY DEF Format, Args
<1>2. Mark("RMC") = 0 /\ \A p \in 1 .. 12 : Arg("RMC", p) = p
    BY DEF Mark, Arg
<1>3. \A p \in 1 .. 12 : F[p] \in Conversion /\ Stores(F[p]) = A[p][2]
    <2>1. F[1] = "t" /\ F[2] = "T" /\ F[3] = "c" /\ F[4] = "f" /\ F[5] = "d" /\ F[6] = "f"
        OBVIOUS
    <2>2. A[1][2] = "text" /\ A[2][2] = "time" /\ A[3][2] = "char" /\ A[4][2] = "float"
          /\ A[5][2] = "int" /\ A[6][2] = "float"
        OBVIOUS
    <2>6. F[7] = "d" /\ F[8] = "f" /\ F[9] = "f" /\ F[10] = "D" /\ F[11] = "f" /\ F[12] = "d"
        OBVIOUS
    <2>7. A[7][2] = "int" /\ A[8][2] = "float" /\ A[9][2] = "float" /\ A[10][2] = "date"
          /\ A[11][2] = "float" /\ A[12][2] = "int"
        OBVIOUS
    <2> HIDE DEF F, A
    <2>3. ASSUME NEW p \in 1 .. 6 PROVE F[p] \in Conversion /\ Stores(F[p]) = A[p][2]
        <3>1. p = 1 \/ p = 2 \/ p = 3 \/ p = 4 \/ p = 5 \/ p = 6
            OBVIOUS
        <3> QED
            BY <2>1, <2>2, <3>1, StoresIs, Zenon DEF Conversion
    <2>5. ASSUME NEW p \in 7 .. 12 PROVE F[p] \in Conversion /\ Stores(F[p]) = A[p][2]
        <3>1. p = 7 \/ p = 8 \/ p = 9 \/ p = 10 \/ p = 11 \/ p = 12
            OBVIOUS
        <3> QED
            BY <2>6, <2>7, <3>1, StoresIs, Zenon DEF Conversion
    <2> QED
        BY <2>3, <2>5
<1>4. \A i \in 1 .. 12 : A[i] = <<A[i][1], Kind(A[i][1])>>
    BY DEF Kind, Numbers, Floats, Chars, Sats, Deviations
<1>5. Len(F) = 12 /\ Len(A) = 12
    OBVIOUS
<1>20. F \in Seq({F[p] : p \in 1 .. 12}) /\ A \in Seq({A[i] : i \in 1 .. 12})
    <2>1. F = [i \in 1 .. 12 |-> F[i]]
        OBVIOUS
    <2>2. A = [i \in 1 .. 12 |-> A[i]]
        OBVIOUS
    <2>3. 12 \in Nat /\ 12 \in Nat
        OBVIOUS
    <2> HIDE DEF F, A
    <2> QED
        BY <2>1, <2>2, <2>3, Tuple, Zenon
<1>21. \A i \in 2 .. 12 : A[i][1] # "type"
    OBVIOUS
<1>6. F[1] = "t" /\ A[1] = <<"type", "text">>
    OBVIOUS
<1> HIDE DEF F, A
<1>18. F \in Seq({F[p] : p \in 1 .. Len(F)}) /\ A \in Seq({A[i] : i \in 1 .. Len(A)})
    BY <1>5, <1>20
<1>19. \A i \in 2 .. Len(A) : A[i][1] # "type"
    BY <1>5, <1>21
<1>7. \A p \in 1 .. Len(F) : p # Mark("RMC") =>
         F[p] \in Conversion /\ Stores(F[p]) = A[Arg("RMC", p)][2]
    BY <1>2, <1>3, <1>5
<1>8. Mark("RMC") # 0 => F[Mark("RMC")] = (IF "RMC" = "GGA" THEN "_" ELSE ";")
    BY <1>2, <1>6, Zenon
<1>9. /\ Len(F) \in Nat /\ Len(A) = (IF Mark("RMC") = 0 THEN Len(F) ELSE Len(F) - 1)
      /\ 0 < Len(F) /\ 0 < Len(A) /\ Mark("RMC") \in 0 .. Len(F) /\ Mark("RMC") # 1
    BY <1>2, <1>5
<1>10. \A i \in 1 .. Len(A) : A[i] = <<A[i][1], Kind(A[i][1])>>
    BY <1>4, <1>5
<1>11. Agree("RMC", F, A)
    BY <1>6, <1>7, <1>8, <1>9, <1>10, <1>18, <1>19, Zenon DEF Agree
<1> QED
    BY <1>1, <1>11, Zenon

LEMMA AgreeGGA == Agree("GGA", Format["GGA"], Args["GGA"])
<1> DEFINE F == <<"t", "T", "f", "d", "f", "d", "i", "i", "f", "f", "c", "f", "c", "i", "_">>
           A == <<<<"type", "text">>, <<"time", "time">>,
                <<"latitude", "float">>, <<"latitude_direction", "int">>,
                <<"longitude", "float">>, <<"longitude_direction", "int">>,
                <<"fix_quality", "int">>, <<"satellites_tracked", "int">>, <<"hdop", "float">>,
                <<"altitude", "float">>, <<"altitude_units", "char">>,
                <<"height", "float">>, <<"height_units", "char">>, <<"dgps_age", "int">>>>
<1>1. Format["GGA"] = F /\ Args["GGA"] = A
    BY DEF Format, Args
<1>2. Mark("GGA") = 15 /\ \A p \in 1 .. 15 : Arg("GGA", p) = (IF p < 15 THEN p ELSE p - 1)
    BY DEF Mark, Arg
<1>3. \A p \in 1 .. 15 : p # 15 => F[p] \in Conversion /\ Stores(F[p]) = A[IF p < 15 THEN p ELSE p - 1][2]
    <2>1. F[1] = "t" /\ F[2] = "T" /\ F[3] = "f" /\ F[4] = "d" /\ F[5] = "f" /\ F[6] = "d"
          /\ F[7] = "i"
        OBVIOUS
    <2>2. A[1][2] = "text" /\ A[2][2] = "time" /\ A[3][2] = "float" /\ A[4][2] = "int"
          /\ A[5][2] = "float" /\ A[6][2] = "int" /\ A[7][2] = "int"
        OBVIOUS
    <2>6. F[8] = "i" /\ F[9] = "f" /\ F[10] = "f" /\ F[11] = "c" /\ F[12] = "f" /\ F[13] = "c"
          /\ F[14] = "i"
        OBVIOUS
    <2>7. A[8][2] = "int" /\ A[9][2] = "float" /\ A[10][2] = "float" /\ A[11][2] = "char"
          /\ A[12][2] = "float" /\ A[13][2] = "char" /\ A[14][2] = "int"
        OBVIOUS
    <2> HIDE DEF F, A
    <2>3. ASSUME NEW p \in 1 .. 7 PROVE F[p] \in Conversion /\ Stores(F[p]) = A[p][2]
        <3>1. p = 1 \/ p = 2 \/ p = 3 \/ p = 4 \/ p = 5 \/ p = 6 \/ p = 7
            OBVIOUS
        <3> QED
            BY <2>1, <2>2, <3>1, StoresIs, Zenon DEF Conversion
    <2>5. ASSUME NEW p \in 8 .. 14 PROVE F[p] \in Conversion /\ Stores(F[p]) = A[p][2]
        <3>1. p = 8 \/ p = 9 \/ p = 10 \/ p = 11 \/ p = 12 \/ p = 13 \/ p = 14
            OBVIOUS
        <3> QED
            BY <2>6, <2>7, <3>1, StoresIs, Zenon DEF Conversion
    <2> QED
        BY <2>3, <2>5
<1>4. \A i \in 1 .. 14 : A[i] = <<A[i][1], Kind(A[i][1])>>
    BY DEF Kind, Numbers, Floats, Chars, Sats, Deviations
<1>5. Len(F) = 15 /\ Len(A) = 14
    OBVIOUS
<1>20. F \in Seq({F[p] : p \in 1 .. 15}) /\ A \in Seq({A[i] : i \in 1 .. 14})
    <2>1. F = [i \in 1 .. 15 |-> F[i]]
        OBVIOUS
    <2>2. A = [i \in 1 .. 14 |-> A[i]]
        OBVIOUS
    <2>3. 15 \in Nat /\ 14 \in Nat
        OBVIOUS
    <2> HIDE DEF F, A
    <2> QED
        BY <2>1, <2>2, <2>3, Tuple, Zenon
<1>21. \A i \in 2 .. 14 : A[i][1] # "type"
    OBVIOUS
<1>6. F[1] = "t" /\ A[1] = <<"type", "text">> /\ F[15] = "_"
    OBVIOUS
<1> HIDE DEF F, A
<1>18. F \in Seq({F[p] : p \in 1 .. Len(F)}) /\ A \in Seq({A[i] : i \in 1 .. Len(A)})
    BY <1>5, <1>20
<1>19. \A i \in 2 .. Len(A) : A[i][1] # "type"
    BY <1>5, <1>21
<1>7. \A p \in 1 .. Len(F) : p # Mark("GGA") =>
         F[p] \in Conversion /\ Stores(F[p]) = A[Arg("GGA", p)][2]
    BY <1>2, <1>3, <1>5
<1>8. Mark("GGA") # 0 => F[Mark("GGA")] = (IF "GGA" = "GGA" THEN "_" ELSE ";")
    BY <1>2, <1>6, Zenon
<1>9. /\ Len(F) \in Nat /\ Len(A) = (IF Mark("GGA") = 0 THEN Len(F) ELSE Len(F) - 1)
      /\ 0 < Len(F) /\ 0 < Len(A) /\ Mark("GGA") \in 0 .. Len(F) /\ Mark("GGA") # 1
    BY <1>2, <1>5
<1>10. \A i \in 1 .. Len(A) : A[i] = <<A[i][1], Kind(A[i][1])>>
    BY <1>4, <1>5
<1>11. Agree("GGA", F, A)
    BY <1>6, <1>7, <1>8, <1>9, <1>10, <1>18, <1>19, Zenon DEF Agree
<1> QED
    BY <1>1, <1>11, Zenon

LEMMA AgreeGLL == Agree("GLL", Format["GLL"], Args["GLL"])
<1> DEFINE F == <<"t", "f", "d", "f", "d", "T", "c", ";", "c">>
           A == <<<<"type", "text">>,
                <<"latitude", "float">>, <<"latitude_direction", "int">>,
                <<"longitude", "float">>, <<"longitude_direction", "int">>,
                <<"time", "time">>, <<"status", "char">>, <<"mode", "char">>>>
<1>1. Format["GLL"] = F /\ Args["GLL"] = A
    BY DEF Format, Args
<1>2. Mark("GLL") = 8 /\ \A p \in 1 .. 9 : Arg("GLL", p) = (IF p < 8 THEN p ELSE p - 1)
    BY DEF Mark, Arg
<1>3. \A p \in 1 .. 9 : p # 8 => F[p] \in Conversion /\ Stores(F[p]) = A[IF p < 8 THEN p ELSE p - 1][2]
    <2>1. F[1] = "t" /\ F[2] = "f" /\ F[3] = "d" /\ F[4] = "f" /\ F[5] = "d" /\ F[6] = "T"
          /\ F[7] = "c" /\ F[9] = "c"
        OBVIOUS
    <2>2. A[1][2] = "text" /\ A[2][2] = "float" /\ A[3][2] = "int" /\ A[4][2] = "float"
          /\ A[5][2] = "int" /\ A[6][2] = "time" /\ A[7][2] = "char" /\ A[8][2] = "char"
        OBVIOUS
    <2> HIDE DEF F, A
    <2>3. ASSUME NEW p \in 1 .. 7 PROVE F[p] \in Conversion /\ Stores(F[p]) = A[p][2]
        <3>1. p = 1 \/ p = 2 \/ p = 3 \/ p = 4 \/ p = 5 \/ p = 6 \/ p = 7
            OBVIOUS
        <3> QED
            BY <2>1, <2>2, <3>1, StoresIs, Zenon DEF Conversion
    <2>4. F[9] \in Conversion /\ Stores(F[9]) = A[8][2]
        BY <2>1, <2>2, StoresIs, Zenon DEF Conversion
    <2> QED
        BY <2>3, <2>4
<1>4. \A i \in 1 .. 8 : A[i] = <<A[i][1], Kind(A[i][1])>>
    BY DEF Kind, Numbers, Floats, Chars, Sats, Deviations
<1>5. Len(F) = 9 /\ Len(A) = 8
    OBVIOUS
<1>20. F \in Seq({F[p] : p \in 1 .. 9}) /\ A \in Seq({A[i] : i \in 1 .. 8})
    <2>1. F = [i \in 1 .. 9 |-> F[i]]
        OBVIOUS
    <2>2. A = [i \in 1 .. 8 |-> A[i]]
        OBVIOUS
    <2>3. 9 \in Nat /\ 8 \in Nat
        OBVIOUS
    <2> HIDE DEF F, A
    <2> QED
        BY <2>1, <2>2, <2>3, Tuple, Zenon
<1>21. \A i \in 2 .. 8 : A[i][1] # "type"
    OBVIOUS
<1>6. F[1] = "t" /\ A[1] = <<"type", "text">> /\ F[8] = ";"
    OBVIOUS
<1> HIDE DEF F, A
<1>18. F \in Seq({F[p] : p \in 1 .. Len(F)}) /\ A \in Seq({A[i] : i \in 1 .. Len(A)})
    BY <1>5, <1>20
<1>19. \A i \in 2 .. Len(A) : A[i][1] # "type"
    BY <1>5, <1>21
<1>7. \A p \in 1 .. Len(F) : p # Mark("GLL") =>
         F[p] \in Conversion /\ Stores(F[p]) = A[Arg("GLL", p)][2]
    BY <1>2, <1>3, <1>5
<1>8. Mark("GLL") # 0 => F[Mark("GLL")] = (IF "GLL" = "GGA" THEN "_" ELSE ";")
    BY <1>2, <1>6, Zenon
<1>9. /\ Len(F) \in Nat /\ Len(A) = (IF Mark("GLL") = 0 THEN Len(F) ELSE Len(F) - 1)
      /\ 0 < Len(F) /\ 0 < Len(A) /\ Mark("GLL") \in 0 .. Len(F) /\ Mark("GLL") # 1
    BY <1>2, <1>5
<1>10. \A i \in 1 .. Len(A) : A[i] = <<A[i][1], Kind(A[i][1])>>
    BY <1>4, <1>5
<1>11. Agree("GLL", F, A)
    BY <1>6, <1>7, <1>8, <1>9, <1>10, <1>18, <1>19, Zenon DEF Agree
<1> QED
    BY <1>1, <1>11, Zenon

LEMMA AgreeVTG == Agree("VTG", Format["VTG"], Args["VTG"])
<1> DEFINE F == <<"t", "f", "c", "f", "c", "f", "c", "f", "c", ";", "c">>
           A == <<<<"type", "text">>, <<"true_track_degrees", "float">>, <<"c_true", "char">>,
                <<"magnetic_track_degrees", "float">>, <<"c_magnetic", "char">>,
                <<"speed_knots", "float">>, <<"c_knots", "char">>,
                <<"speed_kph", "float">>, <<"c_kph", "char">>, <<"faa_mode", "char">>>>
<1>1. Format["VTG"] = F /\ Args["VTG"] = A
    BY DEF Format, Args
<1>2. Mark("VTG") = 10 /\ \A p \in 1 .. 11 : Arg("VTG", p) = (IF p < 10 THEN p ELSE p - 1)
    BY DEF Mark, Arg
<1>3. \A p \in 1 .. 11 : p # 10 => F[p] \in Conversion /\ Stores(F[p]) = A[IF p < 10 THEN p ELSE p - 1][2]
    <2>1. F[1] = "t" /\ F[2] = "f" /\ F[3] = "c" /\ F[4] = "f" /\ F[5] = "c" /\ F[6] = "f"
          /\ F[7] = "c" /\ F[8] = "f" /\ F[9] = "c" /\ F[11] = "c"
        OBVIOUS
    <2>2. A[1][2] = "text" /\ A[2][2] = "float" /\ A[3][2] = "char" /\ A[4][2] = "float"
          /\ A[5][2] = "char" /\ A[6][2] = "float" /\ A[7][2] = "char" /\ A[8][2] = "float"
          /\ A[9][2] = "char" /\ A[10][2] = "char"
        OBVIOUS
    <2> HIDE DEF F, A
    <2>3. ASSUME NEW p \in 1 .. 9 PROVE F[p] \in Conversion /\ Stores(F[p]) = A[p][2]
        <3>1. p = 1 \/ p = 2 \/ p = 3 \/ p = 4 \/ p = 5 \/ p = 6 \/ p = 7 \/ p = 8 \/ p = 9
            OBVIOUS
        <3> QED
            BY <2>1, <2>2, <3>1, StoresIs, Zenon DEF Conversion
    <2>4. F[11] \in Conversion /\ Stores(F[11]) = A[10][2]
        BY <2>1, <2>2, StoresIs, Zenon DEF Conversion
    <2> QED
        BY <2>3, <2>4
<1>4. \A i \in 1 .. 10 : A[i] = <<A[i][1], Kind(A[i][1])>>
    BY DEF Kind, Numbers, Floats, Chars, Sats, Deviations
<1>5. Len(F) = 11 /\ Len(A) = 10
    OBVIOUS
<1>20. F \in Seq({F[p] : p \in 1 .. 11}) /\ A \in Seq({A[i] : i \in 1 .. 10})
    <2>1. F = [i \in 1 .. 11 |-> F[i]]
        OBVIOUS
    <2>2. A = [i \in 1 .. 10 |-> A[i]]
        OBVIOUS
    <2>3. 11 \in Nat /\ 10 \in Nat
        OBVIOUS
    <2> HIDE DEF F, A
    <2> QED
        BY <2>1, <2>2, <2>3, Tuple, Zenon
<1>21. \A i \in 2 .. 10 : A[i][1] # "type"
    OBVIOUS
<1>6. F[1] = "t" /\ A[1] = <<"type", "text">> /\ F[10] = ";"
    OBVIOUS
<1> HIDE DEF F, A
<1>18. F \in Seq({F[p] : p \in 1 .. Len(F)}) /\ A \in Seq({A[i] : i \in 1 .. Len(A)})
    BY <1>5, <1>20
<1>19. \A i \in 2 .. Len(A) : A[i][1] # "type"
    BY <1>5, <1>21
<1>7. \A p \in 1 .. Len(F) : p # Mark("VTG") =>
         F[p] \in Conversion /\ Stores(F[p]) = A[Arg("VTG", p)][2]
    BY <1>2, <1>3, <1>5
<1>8. Mark("VTG") # 0 => F[Mark("VTG")] = (IF "VTG" = "GGA" THEN "_" ELSE ";")
    BY <1>2, <1>6, Zenon
<1>9. /\ Len(F) \in Nat /\ Len(A) = (IF Mark("VTG") = 0 THEN Len(F) ELSE Len(F) - 1)
      /\ 0 < Len(F) /\ 0 < Len(A) /\ Mark("VTG") \in 0 .. Len(F) /\ Mark("VTG") # 1
    BY <1>2, <1>5
<1>10. \A i \in 1 .. Len(A) : A[i] = <<A[i][1], Kind(A[i][1])>>
    BY <1>4, <1>5
<1>11. Agree("VTG", F, A)
    BY <1>6, <1>7, <1>8, <1>9, <1>10, <1>18, <1>19, Zenon DEF Agree
<1> QED
    BY <1>1, <1>11, Zenon

LEMMA Agreeown == Agree("own", Format["own"], Args["own"])
<1> DEFINE F == <<"t", "f", "s">>
           A == <<<<"type", "text">>, <<"value", "float">>, <<"rest", "text">>>>
<1>1. Format["own"] = F /\ Args["own"] = A
    BY DEF Format, Args
<1>2. Mark("own") = 0 /\ \A p \in 1 .. 3 : Arg("own", p) = p
    BY DEF Mark, Arg
<1>3. \A p \in 1 .. 3 : F[p] \in Conversion /\ Stores(F[p]) = A[p][2]
    <2>1. F[1] = "t" /\ F[2] = "f" /\ F[3] = "s"
        OBVIOUS
    <2>2. A[1][2] = "text" /\ A[2][2] = "float" /\ A[3][2] = "text"
        OBVIOUS
    <2> HIDE DEF F, A
    <2>3. ASSUME NEW p \in 1 .. 3 PROVE F[p] \in Conversion /\ Stores(F[p]) = A[p][2]
        <3>1. p = 1 \/ p = 2 \/ p = 3
            OBVIOUS
        <3> QED
            BY <2>1, <2>2, <3>1, StoresIs, Zenon DEF Conversion
    <2> QED
        BY <2>3
<1>4. \A i \in 1 .. 3 : A[i] = <<A[i][1], Kind(A[i][1])>>
    BY DEF Kind, Numbers, Floats, Chars, Sats, Deviations
<1>5. Len(F) = 3 /\ Len(A) = 3
    OBVIOUS
<1>20. F \in Seq({F[p] : p \in 1 .. 3}) /\ A \in Seq({A[i] : i \in 1 .. 3})
    <2>1. F = [i \in 1 .. 3 |-> F[i]]
        OBVIOUS
    <2>2. A = [i \in 1 .. 3 |-> A[i]]
        OBVIOUS
    <2>3. 3 \in Nat /\ 3 \in Nat
        OBVIOUS
    <2> HIDE DEF F, A
    <2> QED
        BY <2>1, <2>2, <2>3, Tuple, Zenon
<1>21. \A i \in 2 .. 3 : A[i][1] # "type"
    OBVIOUS
<1>6. F[1] = "t" /\ A[1] = <<"type", "text">>
    OBVIOUS
<1> HIDE DEF F, A
<1>18. F \in Seq({F[p] : p \in 1 .. Len(F)}) /\ A \in Seq({A[i] : i \in 1 .. Len(A)})
    BY <1>5, <1>20
<1>19. \A i \in 2 .. Len(A) : A[i][1] # "type"
    BY <1>5, <1>21
<1>7. \A p \in 1 .. Len(F) : p # Mark("own") =>
         F[p] \in Conversion /\ Stores(F[p]) = A[Arg("own", p)][2]
    BY <1>2, <1>3, <1>5
<1>8. Mark("own") # 0 => F[Mark("own")] = (IF "own" = "GGA" THEN "_" ELSE ";")
    BY <1>2, <1>6, Zenon
<1>9. /\ Len(F) \in Nat /\ Len(A) = (IF Mark("own") = 0 THEN Len(F) ELSE Len(F) - 1)
      /\ 0 < Len(F) /\ 0 < Len(A) /\ Mark("own") \in 0 .. Len(F) /\ Mark("own") # 1
    BY <1>2, <1>5
<1>10. \A i \in 1 .. Len(A) : A[i] = <<A[i][1], Kind(A[i][1])>>
    BY <1>4, <1>5
<1>11. Agree("own", F, A)
    BY <1>6, <1>7, <1>8, <1>9, <1>10, <1>18, <1>19, Zenon DEF Agree
<1> QED
    BY <1>1, <1>11, Zenon

LEMMA AgreeGSA == Agree("GSA", Format["GSA"], Args["GSA"])
<1> DEFINE F == <<"t", "c", "i", "i", "i", "i", "i", "i", "i", "i", "i", "i", "i", "i", "i", "f", "f", "f">>
           P == <<<<"type", "text">>, <<"mode", "char">>, <<"fix_type", "int">>>>
           S == Each(Sats, 12, "int")
           Q == <<<<"pdop", "float">>, <<"hdop", "float">>, <<"vdop", "float">>>>
           A == P \o S \o Q
<1>1. Format["GSA"] = F /\ Args["GSA"] = A
    BY DEF Format, Args
<1>2. Mark("GSA") = 0 /\ \A p \in 1 .. 18 : Arg("GSA", p) = p
    BY DEF Mark, Arg
<1>12. S \in Seq({S[i] : i \in 1 .. 12}) /\ Len(S) = 12 /\ \A i \in 1 .. 12 : S[i] = <<Sats[i], "int">>
    BY DEF Each
<1>13. P \in Seq({P[i] : i \in 1 .. 3}) /\ Len(P) = 3
    OBVIOUS
<1>14. Q \in Seq({Q[i] : i \in 1 .. 3}) /\ Len(Q) = 3
    OBVIOUS
<1> HIDE DEF S
<1>15. /\ A = [i \in 1 .. 18 |-> A[i]]
       /\ Len(A) = 18 /\ \A i \in 1 .. 3 : A[i] = P[i]
       /\ \A i \in 4 .. 15 : A[i] = S[i - 3]
       /\ \A i \in 16 .. 18 : A[i] = Q[i - 15]
    <2> DEFINE V == {P[i] : i \in 1 .. 3} \cup {S[i] : i \in 1 .. 12} \cup {Q[i] : i \in 1 .. 3}
    <2>1. P \in Seq(V) /\ S \in Seq(V) /\ Q \in Seq(V)
        <3> HIDE DEF P, Q
        <3> QED
            BY <1>12, <1>13, <1>14
    <2> HIDE DEF P, V, Q
    <2> DEFINE B == P \o S
    <2>2. Joined(B, V, P, S, 3, 3 + 12)
        <3>1. Len(P) = 3 /\ Len(S) = 12 /\ 3 \in Nat /\ 12 \in Nat
            BY <1>12, <1>13
        <3> QED
            BY <2>1, <3>1, Joins, Zenon
    <2> HIDE DEF B
    <2>3. /\ B \in Seq(V) /\ Len(B) = 15 /\ \A i \in 1 .. 3 : B[i] = P[i]
          /\ \A i \in 4 .. 15 : B[i] = S[i - 3]
        BY <2>2 DEF Joined
    <2>4. Joined(A, V, B, Q, 15, 15 + 3)
        <3>1. Len(B) = 15 /\ Len(Q) = 3 /\ 15 \in Nat /\ 3 \in Nat
            BY <1>14, <2>3
        <3>2. A = B \o Q
            BY Zenon DEF B
        <3> HIDE DEF A
        <3> QED
            BY <2>1, <2>3, <3>1, <3>2, Joins, Zenon
    <2> HIDE DEF A
    <2>5. /\ A \in Seq(V) /\ Len(A) = 18 /\ \A i \in 1 .. 15 : A[i] = B[i]
          /\ \A i \in 16 .. 18 : A[i] = Q[i - 15]
        BY <2>4 DEF Joined
    <2> QED
        BY <2>3, <2>5
<1>16. A[1][2] = "text" /\ A[2][2] = "char" /\ A[3][2] = "int" /\ A[16][2] = "float"
          /\ A[17][2] = "float" /\ A[18][2] = "float"
    <2>1. P[1][2] = "text" /\ P[2][2] = "char" /\ P[3][2] = "int" /\ Q[1][2] = "float"
          /\ Q[2][2] = "float" /\ Q[3][2] = "float"
        OBVIOUS
    <2>2. A[1] = P[1] /\ A[2] = P[2] /\ A[3] = P[3] /\ A[16] = Q[1] /\ A[17] = Q[2]
          /\ A[18] = Q[3]
        <3> HIDE DEF A
        <3> QED
            BY <1>15
    <2> HIDE DEF A, P, Q
    <2> QED
        BY <2>1, <2>2, Zenon
<1>17. \A i \in 4 .. 15 : A[i][2] = "int"
    <2> HIDE DEF A
    <2> QED
        BY <1>12, <1>15
<1>3. \A p \in 1 .. 18 : F[p] \in Conversion /\ Stores(F[p]) = A[p][2]
    <2>1. F[1] = "t" /\ F[2] = "c" /\ F[3] = "i" /\ F[16] = "f" /\ F[17] = "f" /\ F[18] = "f"
        OBVIOUS
    <2>2. F[4] = "i" /\ F[5] = "i" /\ F[6] = "i" /\ F[7] = "i" /\ F[8] = "i" /\ F[9] = "i"
          /\ F[10] = "i" /\ F[11] = "i" /\ F[12] = "i" /\ F[13] = "i" /\ F[14] = "i"
          /\ F[15] = "i"
        OBVIOUS
    <2> HIDE DEF F, A
    <2>3. ASSUME NEW p \in 1 .. 3 PROVE F[p] \in Conversion /\ Stores(F[p]) = A[p][2]
        <3>1. p = 1 \/ p = 2 \/ p = 3
            OBVIOUS
        <3> QED
            BY <1>16, <2>1, <3>1, StoresIs, Zenon DEF Conversion
    <2>4. ASSUME NEW p \in 4 .. 15 PROVE F[p] \in Conversion /\ Stores(F[p]) = "int"
        <3>1. p = 4 \/ p = 5 \/ p = 6 \/ p = 7 \/ p = 8 \/ p = 9 \/ p = 10 \/ p = 11 \/ p = 12
            \/ p = 13 \/ p = 14 \/ p = 15
            OBVIOUS
        <3> QED
            BY <2>2, <3>1, StoresIs, Zenon DEF Conversion
    <2>5. ASSUME NEW p \in 16 .. 18 PROVE F[p] \in Conversion /\ Stores(F[p]) = A[p][2]
        <3>1. p = 16 \/ p = 17 \/ p = 18
            OBVIOUS
        <3> QED
            BY <1>16, <2>1, <3>1, StoresIs, Zenon DEF Conversion
    <2> QED
        BY <1>17, <2>3, <2>4, <2>5
<1>4. \A i \in 1 .. 18 : A[i] = <<A[i][1], Kind(A[i][1])>>
    <2>1. \A i \in 1 .. 3 : P[i] = <<P[i][1], Kind(P[i][1])>>
        BY DEF Kind, Numbers, Floats, Chars, Sats, Deviations
    <2>2. \A i \in 1 .. 3 : Q[i] = <<Q[i][1], Kind(Q[i][1])>>
        BY DEF Kind, Numbers, Floats, Chars, Sats, Deviations
    <2>3. \A i \in 1 .. 12 : Kind(Sats[i]) = "int"
        BY DEF Kind, Numbers
    <2>4. \A i \in 1 .. 12 : S[i] = <<S[i][1], Kind(S[i][1])>>
        BY <1>12, <2>3
    <2> HIDE DEF P, A, Q
    <2>5. ASSUME NEW i \in 4 .. 15 PROVE A[i] = <<A[i][1], Kind(A[i][1])>>
        <3>1. i - 3 \in 1 .. 12
            OBVIOUS
        <3> QED
            BY <1>15, <2>4, <3>1
    <2>6. ASSUME NEW i \in 16 .. 18 PROVE A[i] = <<A[i][1], Kind(A[i][1])>>
        <3>1. i - 15 \in 1 .. 3
            OBVIOUS
        <3> QED
            BY <1>15, <2>2, <3>1
    <2>7. ASSUME NEW i \in 1 .. 3 PROVE A[i] = <<A[i][1], Kind(A[i][1])>>
        BY <1>15, <2>1
    <2> QED
        BY <2>5, <2>6, <2>7
<1>5. Len(F) = 18 /\ Len(A) = 18
    BY <1>15
<1>20. F \in Seq({F[p] : p \in 1 .. 18}) /\ A \in Seq({A[i] : i \in 1 .. 18})
    <2>1. F = [i \in 1 .. 18 |-> F[i]]
        OBVIOUS
    <2>2. 18 \in Nat /\ 18 \in Nat
        OBVIOUS
    <2> HIDE DEF F, A
    <2>3. A = [i \in 1 .. 18 |-> A[i]]
        BY <1>15
    <2> QED
        BY <2>1, <2>2, <2>3, Tuple, Zenon
<1>21. \A i \in 2 .. 18 : A[i][1] # "type"
    <2>1. \A i \in 2 .. 3 : P[i][1] # "type"
        OBVIOUS
    <2>2. \A i \in 1 .. 12 : S[i][1] # "type"
        <3>1. \A i \in 1 .. 12 : Sats[i] # "type"
            BY DEF Sats
        <3> QED
            BY <1>12, <3>1
    <2>3. \A i \in 1 .. 3 : Q[i][1] # "type"
        OBVIOUS
    <2> HIDE DEF A, P, Q
    <2>4. ASSUME NEW i \in 4 .. 15 PROVE A[i][1] # "type"
        <3>1. i - 3 \in 1 .. 12
            OBVIOUS
        <3> QED
            BY <1>15, <2>2, <3>1, Zenon
    <2>5. ASSUME NEW i \in 2 .. 3 PROVE A[i][1] # "type"
        <3>1. i \in 1 .. 3
            OBVIOUS
        <3> QED
            BY <1>15, <2>1, <3>1, Zenon
    <2>6. ASSUME NEW i \in 16 .. 18 PROVE A[i][1] # "type"
        <3>1. i - 15 \in 1 .. 3
            OBVIOUS
        <3> QED
            BY <1>15, <2>3, <3>1, Zenon
    <2> QED
        BY <2>4, <2>5, <2>6
<1>6. F[1] = "t" /\ A[1] = <<"type", "text">>
    <2>1. F[1] = "t" /\ P[1] = <<"type", "text">>
        OBVIOUS
    <2>2. A[1] = P[1]
        <3> HIDE DEF A
        <3> QED
            BY <1>15
    <2> HIDE DEF F, A, P
    <2> QED
        BY <2>1, <2>2, Zenon
<1> HIDE DEF F, A
<1>18. F \in Seq({F[p] : p \in 1 .. Len(F)}) /\ A \in Seq({A[i] : i \in 1 .. Len(A)})
    BY <1>5, <1>20
<1>19. \A i \in 2 .. Len(A) : A[i][1] # "type"
    BY <1>5, <1>21
<1>7. \A p \in 1 .. Len(F) : p # Mark("GSA") =>
         F[p] \in Conversion /\ Stores(F[p]) = A[Arg("GSA", p)][2]
    BY <1>2, <1>3, <1>5
<1>8. Mark("GSA") # 0 => F[Mark("GSA")] = (IF "GSA" = "GGA" THEN "_" ELSE ";")
    BY <1>2, <1>6, Zenon
<1>9. /\ Len(F) \in Nat /\ Len(A) = (IF Mark("GSA") = 0 THEN Len(F) ELSE Len(F) - 1)
      /\ 0 < Len(F) /\ 0 < Len(A) /\ Mark("GSA") \in 0 .. Len(F) /\ Mark("GSA") # 1
    BY <1>2, <1>5
<1>10. \A i \in 1 .. Len(A) : A[i] = <<A[i][1], Kind(A[i][1])>>
    BY <1>4, <1>5
<1>11. Agree("GSA", F, A)
    BY <1>6, <1>7, <1>8, <1>9, <1>10, <1>18, <1>19, Zenon DEF Agree
<1> QED
    BY <1>1, <1>11, Zenon

LEMMA AgreeGST == Agree("GST", Format["GST"], Args["GST"])
<1> DEFINE F == <<"t", "T", "f", "f", "f", "f", "f", "f", "f">>
           P == <<<<"type", "text">>, <<"time", "time">>>>
           S == Each(Deviations, 7, "float")
           A == P \o S
<1>1. Format["GST"] = F /\ Args["GST"] = A
    BY DEF Format, Args
<1>2. Mark("GST") = 0 /\ \A p \in 1 .. 9 : Arg("GST", p) = p
    BY DEF Mark, Arg
<1>12. S \in Seq({S[i] : i \in 1 .. 7}) /\ Len(S) = 7 /\ \A i \in 1 .. 7 : S[i] = <<Deviations[i], "float">>
    BY DEF Each
<1>13. P \in Seq({P[i] : i \in 1 .. 2}) /\ Len(P) = 2
    OBVIOUS
<1> HIDE DEF S
<1>15. /\ A = [i \in 1 .. 9 |-> A[i]]
       /\ Len(A) = 9 /\ \A i \in 1 .. 2 : A[i] = P[i]
       /\ \A i \in 3 .. 9 : A[i] = S[i - 2]
    <2> DEFINE V == {P[i] : i \in 1 .. 2} \cup {S[i] : i \in 1 .. 7}
    <2>1. P \in Seq(V) /\ S \in Seq(V)
        <3> HIDE DEF P
        <3> QED
            BY <1>12, <1>13
    <2> HIDE DEF P, V
    <2>2. Len(P) = 2 /\ Len(S) = 7 /\ 2 \in Nat /\ 7 \in Nat
        BY <1>12, <1>13
    <2>3. Joined(A, V, P, S, 2, 2 + 7)
        BY <2>1, <2>2, Joins, Zenon
    <2> HIDE DEF A
    <2> QED
        BY <2>3 DEF Joined
<1>16. A[1][2] = "text" /\ A[2][2] = "time"
    <2>1. P[1][2] = "text" /\ P[2][2] = "time"
        OBVIOUS
    <2>2. A[1] = P[1] /\ A[2] = P[2]
        <3> HIDE DEF A
        <3> QED
            BY <1>15
    <2> HIDE DEF A, P
    <2> QED
        BY <2>1, <2>2, Zenon
<1>17. \A i \in 3 .. 9 : A[i][2] = "float"
    <2> HIDE DEF A
    <2> QED
        BY <1>12, <1>15
<1>3. \A p \in 1 .. 9 : F[p] \in Conversion /\ Stores(F[p]) = A[p][2]
    <2>1. F[1] = "t" /\ F[2] = "T"
        OBVIOUS
    <2>2. F[3] = "f" /\ F[4] = "f" /\ F[5] = "f" /\ F[6] = "f" /\ F[7] = "f" /\ F[8] = "f"
          /\ F[9] = "f"
        OBVIOUS
    <2> HIDE DEF F, A
    <2>3. ASSUME NEW p \in 1 .. 2 PROVE F[p] \in Conversion /\ Stores(F[p]) = A[p][2]
        <3>1. p = 1 \/ p = 2
            OBVIOUS
        <3> QED
            BY <1>16, <2>1, <3>1, StoresIs, Zenon DEF Conversion
    <2>4. ASSUME NEW p \in 3 .. 9 PROVE F[p] \in Conversion /\ Stores(F[p]) = "float"
        <3>1. p = 3 \/ p = 4 \/ p = 5 \/ p = 6 \/ p = 7 \/ p = 8 \/ p = 9
            OBVIOUS
        <3> QED
            BY <2>2, <3>1, StoresIs, Zenon DEF Conversion
    <2> QED
        BY <1>17, <2>3, <2>4
<1>4. \A i \in 1 .. 9 : A[i] = <<A[i][1], Kind(A[i][1])>>
    <2>1. \A i \in 1 .. 2 : P[i] = <<P[i][1], Kind(P[i][1])>>
        BY DEF Kind, Numbers, Floats, Chars, Sats, Deviations
    <2>3. \A i \in 1 .. 7 : Kind(Deviations[i]) = "float"
        BY DEF Kind, Numbers, Floats, Sats, Deviations
    <2>4. \A i \in 1 .. 7 : S[i] = <<S[i][1], Kind(S[i][1])>>
        BY <1>12, <2>3
    <2> HIDE DEF P, A
    <2>5. ASSUME NEW i \in 3 .. 9 PROVE A[i] = <<A[i][1], Kind(A[i][1])>>
        <3>1. i - 2 \in 1 .. 7
            OBVIOUS
        <3> QED
            BY <1>15, <2>4, <3>1
    <2>7. ASSUME NEW i \in 1 .. 2 PROVE A[i] = <<A[i][1], Kind(A[i][1])>>
        BY <1>15, <2>1
    <2> QED
        BY <2>5, <2>7
<1>5. Len(F) = 9 /\ Len(A) = 9
    BY <1>15
<1>20. F \in Seq({F[p] : p \in 1 .. 9}) /\ A \in Seq({A[i] : i \in 1 .. 9})
    <2>1. F = [i \in 1 .. 9 |-> F[i]]
        OBVIOUS
    <2>2. 9 \in Nat /\ 9 \in Nat
        OBVIOUS
    <2> HIDE DEF F, A
    <2>3. A = [i \in 1 .. 9 |-> A[i]]
        BY <1>15
    <2> QED
        BY <2>1, <2>2, <2>3, Tuple, Zenon
<1>21. \A i \in 2 .. 9 : A[i][1] # "type"
    <2>1. \A i \in 2 .. 2 : P[i][1] # "type"
        OBVIOUS
    <2>2. \A i \in 1 .. 7 : S[i][1] # "type"
        <3>1. \A i \in 1 .. 7 : Deviations[i] # "type"
            BY DEF Deviations
        <3> QED
            BY <1>12, <3>1
    <2> HIDE DEF A, P
    <2>4. ASSUME NEW i \in 3 .. 9 PROVE A[i][1] # "type"
        <3>1. i - 2 \in 1 .. 7
            OBVIOUS
        <3> QED
            BY <1>15, <2>2, <3>1, Zenon
    <2>5. ASSUME NEW i \in 2 .. 2 PROVE A[i][1] # "type"
        <3>1. i \in 1 .. 2
            OBVIOUS
        <3> QED
            BY <1>15, <2>1, <3>1, Zenon
    <2> QED
        BY <2>4, <2>5
<1>6. F[1] = "t" /\ A[1] = <<"type", "text">>
    <2>1. F[1] = "t" /\ P[1] = <<"type", "text">>
        OBVIOUS
    <2>2. A[1] = P[1]
        <3> HIDE DEF A
        <3> QED
            BY <1>15
    <2> HIDE DEF F, A, P
    <2> QED
        BY <2>1, <2>2, Zenon
<1> HIDE DEF F, A
<1>18. F \in Seq({F[p] : p \in 1 .. Len(F)}) /\ A \in Seq({A[i] : i \in 1 .. Len(A)})
    BY <1>5, <1>20
<1>19. \A i \in 2 .. Len(A) : A[i][1] # "type"
    BY <1>5, <1>21
<1>7. \A p \in 1 .. Len(F) : p # Mark("GST") =>
         F[p] \in Conversion /\ Stores(F[p]) = A[Arg("GST", p)][2]
    BY <1>2, <1>3, <1>5
<1>8. Mark("GST") # 0 => F[Mark("GST")] = (IF "GST" = "GGA" THEN "_" ELSE ";")
    BY <1>2, <1>6, Zenon
<1>9. /\ Len(F) \in Nat /\ Len(A) = (IF Mark("GST") = 0 THEN Len(F) ELSE Len(F) - 1)
      /\ 0 < Len(F) /\ 0 < Len(A) /\ Mark("GST") \in 0 .. Len(F) /\ Mark("GST") # 1
    BY <1>2, <1>5
<1>10. \A i \in 1 .. Len(A) : A[i] = <<A[i][1], Kind(A[i][1])>>
    BY <1>4, <1>5
<1>11. Agree("GST", F, A)
    BY <1>6, <1>7, <1>8, <1>9, <1>10, <1>18, <1>19, Zenon DEF Agree
<1> QED
    BY <1>1, <1>11, Zenon

LEMMA AgreeGSV == Agree("GSV", Format["GSV"], Args["GSV"])
<1> DEFINE F == <<"t", "i", "i", "i", ";", "i", "i", "i", "i", "i", "i", "i", "i", "i", "i", "i", "i", "i", "i", "i", "i">>
           P == <<<<"type", "text">>, <<"total_msgs", "int">>, <<"msg_nr", "int">>, <<"total_sats", "int">>>>
           S == Each(Sats, 16, "int")
           A == P \o S
<1>1. Format["GSV"] = F /\ Args["GSV"] = A
    BY DEF Format, Args
<1>2. Mark("GSV") = 5 /\ \A p \in 1 .. 21 : Arg("GSV", p) = (IF p < 5 THEN p ELSE p - 1)
    BY DEF Mark, Arg
<1>12. S \in Seq({S[i] : i \in 1 .. 16}) /\ Len(S) = 16 /\ \A i \in 1 .. 16 : S[i] = <<Sats[i], "int">>
    BY DEF Each
<1>13. P \in Seq({P[i] : i \in 1 .. 4}) /\ Len(P) = 4
    OBVIOUS
<1> HIDE DEF S
<1>15. /\ A = [i \in 1 .. 20 |-> A[i]]
       /\ Len(A) = 20 /\ \A i \in 1 .. 4 : A[i] = P[i]
       /\ \A i \in 5 .. 20 : A[i] = S[i - 4]
    <2> DEFINE V == {P[i] : i \in 1 .. 4} \cup {S[i] : i \in 1 .. 16}
    <2>1. P \in Seq(V) /\ S \in Seq(V)
        <3> HIDE DEF P
        <3> QED
            BY <1>12, <1>13
    <2> HIDE DEF P, V
    <2>2. Len(P) = 4 /\ Len(S) = 16 /\ 4 \in Nat /\ 16 \in Nat
        BY <1>12, <1>13
    <2>3. Joined(A, V, P, S, 4, 4 + 16)
        BY <2>1, <2>2, Joins, Zenon
    <2> HIDE DEF A
    <2> QED
        BY <2>3 DEF Joined
<1>16. A[1][2] = "text" /\ A[2][2] = "int" /\ A[3][2] = "int" /\ A[4][2] = "int"
    <2>1. P[1][2] = "text" /\ P[2][2] = "int" /\ P[3][2] = "int" /\ P[4][2] = "int"
        OBVIOUS
    <2>2. A[1] = P[1] /\ A[2] = P[2] /\ A[3] = P[3] /\ A[4] = P[4]
        <3> HIDE DEF A
        <3> QED
            BY <1>15
    <2> HIDE DEF A, P
    <2> QED
        BY <2>1, <2>2, Zenon
<1>17. \A i \in 5 .. 20 : A[i][2] = "int"
    <2> HIDE DEF A
    <2> QED
        BY <1>12, <1>15
<1>3. \A p \in 1 .. 21 : p # 5 => F[p] \in Conversion /\ Stores(F[p]) = A[IF p < 5 THEN p ELSE p - 1][2]
    <2>1. F[1] = "t" /\ F[2] = "i" /\ F[3] = "i" /\ F[4] = "i" /\ F[5] = ";"
        OBVIOUS
    <2>2. F[6] = "i" /\ F[7] = "i" /\ F[8] = "i" /\ F[9] = "i" /\ F[10] = "i" /\ F[11] = "i"
          /\ F[12] = "i" /\ F[13] = "i" /\ F[14] = "i" /\ F[15] = "i" /\ F[16] = "i"
          /\ F[17] = "i" /\ F[18] = "i" /\ F[19] = "i" /\ F[20] = "i" /\ F[21] = "i"
        OBVIOUS
    <2> HIDE DEF F, A
    <2>3. ASSUME NEW p \in 1 .. 4 PROVE F[p] \in Conversion /\ Stores(F[p]) = A[p][2]
        <3>1. p = 1 \/ p = 2 \/ p = 3 \/ p = 4
            OBVIOUS
        <3> QED
            BY <1>16, <2>1, <3>1, StoresIs, Zenon DEF Conversion
    <2>4. ASSUME NEW p \in 6 .. 21 PROVE F[p] \in Conversion /\ Stores(F[p]) = "int"
        <3>1. p = 6 \/ p = 7 \/ p = 8 \/ p = 9 \/ p = 10 \/ p = 11 \/ p = 12 \/ p = 13 \/ p = 14
            \/ p = 15 \/ p = 16 \/ p = 17 \/ p = 18 \/ p = 19 \/ p = 20 \/ p = 21
            OBVIOUS
        <3> QED
            BY <2>2, <3>1, StoresIs, Zenon DEF Conversion
    <2> QED
        BY <1>17, <2>3, <2>4
<1>4. \A i \in 1 .. 20 : A[i] = <<A[i][1], Kind(A[i][1])>>
    <2>1. \A i \in 1 .. 4 : P[i] = <<P[i][1], Kind(P[i][1])>>
        BY DEF Kind, Numbers, Floats, Chars, Sats, Deviations
    <2>3. \A i \in 1 .. 16 : Kind(Sats[i]) = "int"
        BY DEF Kind, Numbers
    <2>4. \A i \in 1 .. 16 : S[i] = <<S[i][1], Kind(S[i][1])>>
        BY <1>12, <2>3
    <2> HIDE DEF P, A
    <2>5. ASSUME NEW i \in 5 .. 20 PROVE A[i] = <<A[i][1], Kind(A[i][1])>>
        <3>1. i - 4 \in 1 .. 16
            OBVIOUS
        <3> QED
            BY <1>15, <2>4, <3>1
    <2>7. ASSUME NEW i \in 1 .. 4 PROVE A[i] = <<A[i][1], Kind(A[i][1])>>
        BY <1>15, <2>1
    <2> QED
        BY <2>5, <2>7
<1>5. Len(F) = 21 /\ Len(A) = 20
    BY <1>15
<1>20. F \in Seq({F[p] : p \in 1 .. 21}) /\ A \in Seq({A[i] : i \in 1 .. 20})
    <2>1. F = [i \in 1 .. 21 |-> F[i]]
        OBVIOUS
    <2>2. 21 \in Nat /\ 20 \in Nat
        OBVIOUS
    <2> HIDE DEF F, A
    <2>3. A = [i \in 1 .. 20 |-> A[i]]
        BY <1>15
    <2> QED
        BY <2>1, <2>2, <2>3, Tuple, Zenon
<1>21. \A i \in 2 .. 20 : A[i][1] # "type"
    <2>1. \A i \in 2 .. 4 : P[i][1] # "type"
        OBVIOUS
    <2>2. \A i \in 1 .. 16 : S[i][1] # "type"
        <3>1. \A i \in 1 .. 16 : Sats[i] # "type"
            BY DEF Sats
        <3> QED
            BY <1>12, <3>1
    <2> HIDE DEF A, P
    <2>4. ASSUME NEW i \in 5 .. 20 PROVE A[i][1] # "type"
        <3>1. i - 4 \in 1 .. 16
            OBVIOUS
        <3> QED
            BY <1>15, <2>2, <3>1, Zenon
    <2>5. ASSUME NEW i \in 2 .. 4 PROVE A[i][1] # "type"
        <3>1. i \in 1 .. 4
            OBVIOUS
        <3> QED
            BY <1>15, <2>1, <3>1, Zenon
    <2> QED
        BY <2>4, <2>5
<1>6. F[1] = "t" /\ A[1] = <<"type", "text">> /\ F[5] = ";"
    <2>1. F[1] = "t" /\ P[1] = <<"type", "text">> /\ F[5] = ";"
        OBVIOUS
    <2>2. A[1] = P[1]
        <3> HIDE DEF A
        <3> QED
            BY <1>15
    <2> HIDE DEF F, A, P
    <2> QED
        BY <2>1, <2>2, Zenon
<1> HIDE DEF F, A
<1>18. F \in Seq({F[p] : p \in 1 .. Len(F)}) /\ A \in Seq({A[i] : i \in 1 .. Len(A)})
    BY <1>5, <1>20
<1>19. \A i \in 2 .. Len(A) : A[i][1] # "type"
    BY <1>5, <1>21
<1>7. \A p \in 1 .. Len(F) : p # Mark("GSV") =>
         F[p] \in Conversion /\ Stores(F[p]) = A[Arg("GSV", p)][2]
    BY <1>2, <1>3, <1>5
<1>8. Mark("GSV") # 0 => F[Mark("GSV")] = (IF "GSV" = "GGA" THEN "_" ELSE ";")
    BY <1>2, <1>6, Zenon
<1>9. /\ Len(F) \in Nat /\ Len(A) = (IF Mark("GSV") = 0 THEN Len(F) ELSE Len(F) - 1)
      /\ 0 < Len(F) /\ 0 < Len(A) /\ Mark("GSV") \in 0 .. Len(F) /\ Mark("GSV") # 1
    BY <1>2, <1>5
<1>10. \A i \in 1 .. Len(A) : A[i] = <<A[i][1], Kind(A[i][1])>>
    BY <1>4, <1>5
<1>11. Agree("GSV", F, A)
    BY <1>6, <1>7, <1>8, <1>9, <1>10, <1>18, <1>19, Zenon DEF Agree
<1> QED
    BY <1>1, <1>11, Zenon


-----------------------------------------------------------------------------
(***************************************************************************)
(* The scan of a sentence.  The arguments not yet taken, the field that is *)
(* next, and the members written are those that belong to the place in the *)
(* format.                                                                 *)
(***************************************************************************)
Functions == {"RMC", "GGA", "GSA", "GLL", "GST", "GSV", "VTG", "own"}

\* How many fields the first p items of a format take, and where its ";" is.
Gone(fn, p) == IF fn = "GGA" THEN p ELSE Arg(fn, p)
Semicolon(fn) == IF fn = "GGA" THEN 0 ELSE Mark(fn)

\* How much of the format is behind.
Done == Len(Format[call.fn]) - Len(format)

Typed ==
    /\ call \in Calls /\ result \in {"none", "ok", "error"}
    /\ frame = [m \in Members(call.fn) |-> frame[m]]

Remains(F, A, fn, p) ==
    /\ p \in 0 .. Len(F)
    /\ format = SubSeq(F, p + 1, Len(F))
    /\ ap = SubSeq(A, Arg(fn, p) + 1, Len(A))

Counts(fn, p, n) ==
    /\ optional \in BOOLEAN /\ (optional <=> Semicolon(fn) \in 1 .. p)
    /\ field = (IF Gone(fn, p) < n THEN Gone(fn, p) + 1 ELSE 0)
    /\ (IF optional THEN Semicolon(fn) - 1 ELSE p) <= n

Written(A, k) == \A i \in 1 .. k : frame[A[i][1]][1] = A[i][2]

Named(p, f) == p >= 1 => frame["type"] = scan_t(f) /\ scan_t(f) # Error

Ended(fn) == result = "ok" => format = <<>> /\ (fn # "own" => Type(frame) = TypeOf[fn])

FrameInv ==
    /\ Typed
    /\ Remains(Format[call.fn], Args[call.fn], call.fn, Done)
    /\ Counts(call.fn, Done, Len(call.fields))
    /\ Written(Args[call.fn], Arg(call.fn, Done))
    /\ Named(Done, call.fields[1])
    /\ Ended(call.fn)

LEMMA AgreeAll == ASSUME NEW fn \in Functions PROVE Agree(fn, Format[fn], Args[fn])
    BY AgreeRMC, AgreeGGA, AgreeGSA, AgreeGLL, AgreeGST, AgreeGSV, AgreeVTG, Agreeown, Zenon DEF Functions

LEMMA Lengths ==
    ASSUME NEW fn, NEW F, NEW A, Agree(fn, F, A)
    PROVE  /\ Len(F) \in Nat \ {0} /\ Len(A) \in Nat \ {0}
           /\ Len(A) = (IF Mark(fn) = 0 THEN Len(F) ELSE Len(F) - 1)
           /\ Mark(fn) \in Nat /\ Mark(fn) # 1 /\ Mark(fn) <= Len(F)
           /\ Semicolon(fn) \in {0, Mark(fn)} /\ (fn # "GGA" => Semicolon(fn) = Mark(fn))
<1>1. Len(F) \in Nat /\ 0 < Len(F) /\ 0 < Len(A) /\ Mark(fn) \in 0 .. Len(F) /\ Mark(fn) # 1
      /\ Len(A) = (IF Mark(fn) = 0 THEN Len(F) ELSE Len(F) - 1)
    BY Zenon DEF Agree
<1>4. Mark(fn) \in Nat /\ Mark(fn) <= Len(F) /\ Len(F) \in Nat \ {0}
    BY <1>1
<1>5. Len(A) = Len(F) \/ Len(A) = Len(F) - 1
    BY <1>1, Zenon
<1>6. Len(A) \in Nat \ {0}
    <2>1. 0 < Len(A)
        BY <1>1, Zenon
    <2>2. PICK n \in Nat : n = Len(F)
        BY <1>4
    <2>3. Len(A) = n \/ Len(A) = n - 1
        BY <1>5, <2>2
    <2> QED
        BY <2>1, <2>2, <2>3
<1>2. Mark(fn) \in Nat /\ Mark(fn) <= Len(F) /\ Len(F) \in Nat \ {0} /\ Len(A) \in Nat \ {0}
    BY <1>4, <1>6
<1>3. Semicolon(fn) \in {0, Mark(fn)} /\ (fn # "GGA" => Semicolon(fn) = Mark(fn))
    BY DEF Semicolon
<1> QED
    BY <1>1, <1>2, <1>3

LEMMA CallIs ==
    ASSUME NEW s \in Calls
    PROVE  /\ s.fn \in Functions /\ s.fields \in Seq(Seq(STRING)) /\ s.tail \in Seq(STRING)
           /\ Len(s.fields) \in Nat /\ 1 <= Len(s.fields)
<1>1. s \in [fn : Functions, fields : Seq(Seq(STRING)) \ {<<>>}, tail : Seq(STRING)]
    BY CallsAssumption DEF Functions
<1>2. s.fn \in Functions /\ s.fields \in Seq(Seq(STRING)) \ {<<>>} /\ s.tail \in Seq(STRING)
    BY <1>1
<1>3. s.fields # <<>> /\ Len(s.fields) \in Nat
    BY <1>2
<1>4. Len(s.fields) # 0
    BY <1>2, EmptySeq
<1> QED
    BY <1>2, <1>3, <1>4

(* A conversion stores a value of its type. *)
LEMMA ScanStores ==
    ASSUME NEW c \in Conversion, NEW f, Scan(c, f) # Error
    PROVE  Scan(c, f)[1] = Stores(c)
<1>1. Scan("c", f)[1] = "char"
    BY DEF Scan, scan_c
<1>2. Scan("d", f) # Error => Scan("d", f)[1] = "int"
    BY DEF Scan, scan_d, Error
<1>3. Scan("f", f) # Error => Scan("f", f)[1] = "float"
    <2>1. Scan("f", f) = scan_f(f)
        BY DEF Scan
    <2>2. \/ scan_f(f) = Error \/ scan_f(f) = <<"float", 0, 0>>
          \/ \E v, w : scan_f(f) = <<"float", v, w>>
        BY Zenon DEF scan_f
    <2> QED
        BY <2>1, <2>2
<1>4. Scan("i", f) # Error => Scan("i", f)[1] = "int"
    <2>1. Scan("i", f) = scan_i(f)
        BY DEF Scan
    <2>2. scan_i(f) = Error \/ \E v : scan_i(f) = <<"int", v>>
        BY Zenon DEF scan_i
    <2> QED
        BY <2>1, <2>2
<1>5. Scan("s", f)[1] = "text"
    BY DEF Scan, scan_s
<1>6. Scan("t", f) # Error => Scan("t", f)[1] = "text"
    BY DEF Scan, scan_t
<1>7. Scan("D", f) # Error => Scan("D", f)[1] = "date"
    <2>1. Scan("D", f) = scan_D(f)
        BY DEF Scan
    <2>2. scan_D(f) = Error \/ \E u, v, w : scan_D(f) = <<"date", u, v, w>>
        BY Zenon DEF scan_D
    <2> QED
        BY <2>1, <2>2
<1>8. Scan("T", f) # Error => Scan("T", f)[1] = "time"
    <2>1. Scan("T", f) = scan_T(f)
        BY DEF Scan
    <2>2. scan_T(f) = Error \/ \E u, v, w, x : scan_T(f) = <<"time", u, v, w, x>>
        BY Zenon DEF scan_T
    <2> QED
        BY <2>1, <2>2
<1> QED
    BY <1>1, <1>2, <1>3, <1>4, <1>5, <1>6, <1>7, <1>8, StoresIs, Zenon DEF Conversion

(* One item of what is left of a sequence. *)
LEMMA OneTaken ==
    ASSUME NEW V, NEW s \in Seq(V), NEW p \in Nat, p < Len(s)
    PROVE  /\ SubSeq(s, p + 1, Len(s)) # <<>>
           /\ Head(SubSeq(s, p + 1, Len(s))) = s[p + 1]
           /\ Tail(SubSeq(s, p + 1, Len(s))) = SubSeq(s, (p + 1) + 1, Len(s))
           /\ Len(SubSeq(s, (p + 1) + 1, Len(s))) = Len(s) - (p + 1)
<1> DEFINE r == SubSeq(s, p + 1, Len(s))
           q == SubSeq(s, (p + 1) + 1, Len(s))
<1>1. r \in Seq(V) /\ Len(r) = Len(s) - p /\ \A i \in 1 .. Len(s) - p : r[i] = s[p + i]
    OBVIOUS
<1>2. q \in Seq(V) /\ Len(q) = Len(s) - (p + 1) /\ \A i \in 1 .. Len(s) - (p + 1) : q[i] = s[p + 1 + i]
    OBVIOUS
<1> HIDE DEF r, q
<1>3. r # <<>> /\ Head(r) = s[p + 1]
    BY <1>1
<1>4. Tail(r) \in Seq(V) /\ Len(Tail(r)) = Len(s) - (p + 1)
      /\ \A i \in 1 .. Len(s) - (p + 1) : Tail(r)[i] = r[i + 1]
    BY <1>1
<1>5. Tail(r) = q
    <2>1. ASSUME NEW i \in 1 .. Len(s) - (p + 1) PROVE Tail(r)[i] = q[i]
        <3>1. i + 1 \in 1 .. Len(s) - p /\ p + (i + 1) = p + 1 + i
            OBVIOUS
        <3> QED
            BY <1>1, <1>2, <1>4, <3>1
    <2> DEFINE u == Tail(r)
    <2>2. u \in Seq(V) /\ Len(u) = Len(q) /\ \A i \in 1 .. Len(q) : u[i] = q[i]
        BY <1>2, <1>4, <2>1
    <2> HIDE DEF u
    <2>3. u = q
        BY <1>2, <2>2
    <2> QED
        BY <2>3 DEF u
<1> QED
    BY <1>2, <1>3, <1>5 DEF r, q

(***************************************************************************)
(* The steps.                                                              *)
(***************************************************************************)
LEMMA InitInv == ScanInit => FrameInv
<1> SUFFICES ASSUME ScanInit PROVE FrameInv
    OBVIOUS
<1> DEFINE fn == call.fn
           F == Format[fn]
           A == Args[fn]
<1>1. /\ call \in Calls /\ format = F /\ ap = A /\ field = 1 /\ optional = FALSE /\ result = "none"
      /\ frame = [m \in Members(fn) |-> Stale]
    BY DEF ScanInit
<1>2. fn \in Functions /\ 1 <= Len(call.fields) /\ Len(call.fields) \in Nat
    BY <1>1, CallIs
<1>3. Agree(fn, F, A)
    BY <1>2, AgreeAll, Zenon
<1>4. /\ Len(F) \in Nat \ {0} /\ Len(A) \in Nat \ {0} /\ Mark(fn) \in Nat /\ Mark(fn) # 1
      /\ Semicolon(fn) \in {0, Mark(fn)}
    BY <1>3, Lengths
<1>12. F \in Seq({F[p] : p \in 1 .. Len(F)}) /\ A \in Seq({A[i] : i \in 1 .. Len(A)})
    BY <1>3, Zenon DEF Agree
<1> HIDE DEF fn, F, A
<1>5. Done = 0
    BY <1>1, <1>4 DEF Done, F, fn
<1>6. Arg(fn, 0) = 0 /\ Gone(fn, 0) = 0 /\ Semicolon(fn) \notin 1 .. 0
    BY <1>4 DEF Arg, Gone, Semicolon
<1>7. Typed
    BY <1>1 DEF Typed, fn
<1>8. Remains(F, A, fn, 0)
    <2>1. SubSeq(F, 0 + 1, Len(F)) = F
        BY <1>4, <1>12
    <2>2. SubSeq(A, 0 + 1, Len(A)) = A
        BY <1>4, <1>12
    <2> QED
        BY <1>1, <1>4, <1>6, <2>1, <2>2 DEF Remains
<1>9. Counts(fn, 0, Len(call.fields))
    <2>1. field = (IF Gone(fn, 0) < Len(call.fields) THEN Gone(fn, 0) + 1 ELSE 0)
        BY <1>1, <1>2, <1>6
    <2>2. 0 <= Len(call.fields)
        BY <1>2
    <2> QED
        BY <1>1, <1>6, <2>1, <2>2, Zenon DEF Counts
<1>10. Written(A, 0) /\ Named(0, call.fields[1])
    BY DEF Written, Named
<1>11. Ended(fn)
    BY <1>1 DEF Ended
<1> QED
    BY <1>5, <1>6, <1>7, <1>8, <1>9, <1>10, <1>11 DEF FrameInv, F, A, fn

\* The item of the format after p of them.
Item(F, A, fn, p) ==
    /\ p \in Nat /\ p < Len(F)
    /\ Head(format) = F[p + 1] /\ Len(Format[fn]) - Len(Tail(format)) = p + 1
    /\ Tail(format) = SubSeq(F, (p + 1) + 1, Len(F))

\* It takes an argument.
Taking(F, A, fn, p) ==
    /\ Arg(fn, p + 1) = Arg(fn, p) + 1 /\ Arg(fn, p + 1) \in 1 .. Len(A)
    /\ F[p + 1] \in Conversion /\ Stores(F[p + 1]) = A[Arg(fn, p + 1)][2]
    /\ Head(ap) = A[Arg(fn, p + 1)] /\ Tail(ap) = SubSeq(A, Arg(fn, p + 1) + 1, Len(A))

LEMMA ItemIs ==
    ASSUME FrameInv, Scanning
    PROVE  /\ Item(Format[call.fn], Args[call.fn], call.fn, Done)
           /\ Done + 1 # Mark(call.fn) => Taking(Format[call.fn], Args[call.fn], call.fn, Done)
           /\ Done + 1 = Mark(call.fn) =>
                Arg(call.fn, Done + 1) = Arg(call.fn, Done) /\ Head(format) = (IF call.fn = "GGA" THEN "_" ELSE ";")
<1> DEFINE fn == call.fn
           F == Format[fn]
           A == Args[fn]
           p == Done
<1>1. fn \in Functions /\ Agree(fn, F, A)
    BY CallIs, AgreeAll DEF FrameInv, Typed
<1>2. Remains(F, A, fn, p) /\ format # <<>>
    BY Zenon DEF FrameInv, Scanning
<1> HIDE DEF fn, F, A, p
<1>4. /\ Len(F) \in Nat \ {0} /\ Len(A) \in Nat \ {0} /\ Mark(fn) \in Nat /\ Mark(fn) # 1 /\ Mark(fn) <= Len(F)
      /\ Len(A) = (IF Mark(fn) = 0 THEN Len(F) ELSE Len(F) - 1)
    BY <1>1, Lengths
<1>5. F \in Seq({F[q] : q \in 1 .. Len(F)}) /\ A \in Seq({A[i] : i \in 1 .. Len(A)})
    BY <1>1, Zenon DEF Agree
<1>6. p \in Nat /\ p <= Len(F) /\ format = SubSeq(F, p + 1, Len(F)) /\ ap = SubSeq(A, Arg(fn, p) + 1, Len(A))
    BY <1>2, <1>4 DEF Remains
<1>7. p < Len(F)
    <2>1. ASSUME p = Len(F) PROVE FALSE
        <3>1. SubSeq(F, Len(F) + 1, Len(F)) = <<>>
            BY <1>4, <1>5
        <3> QED
            BY <1>2, <1>6, <2>1, <3>1
    <2> QED
        BY <1>4, <1>6, <2>1
<1>8. Item(F, A, fn, p)
    <2>1. /\ Head(format) = F[p + 1] /\ Tail(format) = SubSeq(F, (p + 1) + 1, Len(F))
          /\ Len(Tail(format)) = Len(F) - (p + 1)
        BY <1>5, <1>6, <1>7, OneTaken
    <2>2. Len(F) - Len(Tail(format)) = p + 1
        <3>1. PICK n \in Nat : n = Len(F)
            BY <1>4
        <3>2. n - (n - (p + 1)) = p + 1
            BY <1>6
        <3> QED
            BY <2>1, <3>1, <3>2, Zenon
    <2>3. Len(Format[fn]) - Len(Tail(format)) = p + 1
        BY <2>2 DEF F
    <2> QED
        BY <1>6, <1>7, <2>1, <2>3 DEF Item
<1>9. ASSUME p + 1 # Mark(fn) PROVE Taking(F, A, fn, p)
    <2>1. Arg(fn, p + 1) = Arg(fn, p) + 1 /\ Arg(fn, p) \in Nat /\ Arg(fn, p) < Len(A)
        BY <1>4, <1>6, <1>7, <1>9 DEF Arg
    <2>2. p + 1 \in 1 .. Len(F)
        BY <1>4, <1>6, <1>7
    <2>3. F[p + 1] \in Conversion /\ Stores(F[p + 1]) = A[Arg(fn, p + 1)][2]
        BY <1>1, <1>9, <2>2, Zenon DEF Agree
    <2>4. Head(ap) = A[Arg(fn, p) + 1] /\ Tail(ap) = SubSeq(A, (Arg(fn, p) + 1) + 1, Len(A))
        BY <1>5, <1>6, <2>1, OneTaken
    <2>5. Arg(fn, p) + 1 \in 1 .. Len(A)
        BY <1>4, <2>1
    <2> QED
        BY <2>1, <2>3, <2>4, <2>5, Zenon DEF Taking
<1>10. ASSUME p + 1 = Mark(fn)
       PROVE  Arg(fn, p + 1) = Arg(fn, p) /\ Head(format) = (IF fn = "GGA" THEN "_" ELSE ";")
    <2>1. Mark(fn) # 0
        BY <1>6, <1>10
    <2>2. Arg(fn, p + 1) = p /\ Arg(fn, p) = p
        BY <1>6, <1>10, <2>1 DEF Arg
    <2>3. F[Mark(fn)] = (IF fn = "GGA" THEN "_" ELSE ";")
        BY <1>1, <2>1, Zenon DEF Agree
    <2> QED
        BY <1>8, <1>10, <2>2, <2>3 DEF Item
<1> QED
    BY <1>8, <1>9, <1>10 DEF fn, F, A, p

LEMMA OptionalInv == FrameInv /\ scan_optional => FrameInv'
<1> SUFFICES ASSUME FrameInv, scan_optional PROVE FrameInv'
    OBVIOUS
<1>2. PICK fn, F, A, s : fn = call.fn /\ F = Format[call.fn] /\ A = Args[call.fn] /\ s = call.fields
    OBVIOUS
<1>3. PICK p : p = Done
    OBVIOUS
<1>4. /\ Typed /\ Remains(F, A, fn, p) /\ Counts(fn, p, Len(s)) /\ Written(A, Arg(fn, p))
      /\ Named(p, s[1]) /\ Ended(fn)
    BY <1>2, <1>3, Zenon DEF FrameInv
<1>5. fn \in Functions /\ Len(s) \in Nat /\ 1 <= Len(s) /\ s \in Seq(Seq(STRING)) /\ Agree(fn, F, A)
    BY <1>2, <1>4, CallIs, AgreeAll DEF Typed
<1>6. /\ Len(F) \in Nat \ {0} /\ Mark(fn) \in Nat /\ Mark(fn) # 1 /\ Mark(fn) <= Len(F)
      /\ Semicolon(fn) \in {0, Mark(fn)} /\ (fn # "GGA" => Semicolon(fn) = Mark(fn))
    BY <1>5, Lengths
<1>1. Scanning /\ Head(format) = ";" /\ optional' = TRUE /\ format' = Tail(format)
      /\ call' = call /\ ap' = ap /\ field' = field /\ frame' = frame /\ result' = result
    BY DEF scan_optional
<1>7. /\ Item(F, A, fn, p) /\ (p + 1 # Mark(fn) => Taking(F, A, fn, p))
      /\ (p + 1 = Mark(fn) => Arg(fn, p + 1) = Arg(fn, p) /\ Head(format) = (IF fn = "GGA" THEN "_" ELSE ";"))
    BY <1>1, <1>2, <1>3, ItemIs
<1>9. p + 1 = Mark(fn) /\ fn # "GGA"
    <2>1. ASSUME p + 1 # Mark(fn) PROVE FALSE
        <3>1. Head(format) \in Conversion
            BY <1>7, <2>1, Zenon DEF Item, Taking
        <3> QED
            BY <1>1, <3>1 DEF Conversion
    <2> QED
        BY <1>1, <1>7, <2>1
<1>10. p \in Nat /\ p < Len(F) /\ Arg(fn, p + 1) = Arg(fn, p) /\ p >= 1 /\ Semicolon(fn) = p + 1
    <2>1. p \in Nat /\ p < Len(F)
        BY <1>7 DEF Item
    <2>2. Arg(fn, p + 1) = Arg(fn, p) /\ Semicolon(fn) = p + 1
        BY <1>6, <1>7, <1>9, Zenon
    <2>3. p >= 1
        BY <1>6, <1>9, <2>1
    <2> QED
        BY <2>1, <2>2, <2>3
<1>11. Typed'
    BY <1>1, <1>4 DEF Typed
<1>12. Remains(F, A, fn, p + 1)'
    <2>1. p + 1 \in 0 .. Len(F)
        BY <1>6, <1>10
    <2>2. format' = SubSeq(F, (p + 1) + 1, Len(F))
        BY <1>1, <1>7, Zenon DEF Item
    <2>3. ap' = SubSeq(A, Arg(fn, p + 1) + 1, Len(A))
        BY <1>1, <1>4, <1>10, Zenon DEF Remains
    <2> QED
        BY <2>1, <2>2, <2>3, Zenon DEF Remains
<1>13. Counts(fn, p + 1, Len(s))'
    <2>1. optional' \in BOOLEAN /\ (optional' <=> Semicolon(fn) \in 1 .. p + 1)
        <3>1. Semicolon(fn) \in 1 .. p + 1
            BY <1>10
        <3> QED
            BY <1>1, <3>1, Zenon
    <2>2. ~optional
        BY <1>4, <1>10 DEF Counts
    <2>3. p <= Len(s) /\ field = (IF Gone(fn, p) < Len(s) THEN Gone(fn, p) + 1 ELSE 0)
        BY <1>4, <2>2, Zenon DEF Counts
    <2>4. Gone(fn, p + 1) = Gone(fn, p)
        BY <1>9, <1>10 DEF Gone
    <2>5. Semicolon(fn) - 1 <= Len(s)
        BY <1>10, <2>3
    <2> QED
        BY <1>1, <2>1, <2>3, <2>4, <2>5, Zenon DEF Counts
<1>14. Written(A, Arg(fn, p + 1))'
    BY <1>1, <1>4, <1>10, Zenon DEF Written
<1>15. Named(p + 1, s[1])'
    BY <1>1, <1>4, <1>10 DEF Named
<1>16. Ended(fn)'
    BY <1>1 DEF Ended, Scanning
<1>17. Done' = p + 1
    BY <1>1, <1>2, <1>7 DEF Done, Item
<1> QED
    <2>1. (call.fn)' = fn /\ (Format[call.fn])' = F /\ (Args[call.fn])' = A /\ (call.fields)' = s
        BY <1>1, <1>2
    <2> QED
        BY <1>17, <1>11, <1>12, <1>13, <1>14, <1>15, <1>16, <2>1, Zenon DEF FrameInv

LEMMA IgnoredInv == FrameInv /\ scan_ignored => FrameInv'
<1> SUFFICES ASSUME FrameInv, scan_ignored PROVE FrameInv'
    OBVIOUS
<1>2. PICK fn, F, A, s : fn = call.fn /\ F = Format[call.fn] /\ A = Args[call.fn] /\ s = call.fields
    OBVIOUS
<1>3. PICK p : p = Done
    OBVIOUS
<1>4. /\ Typed /\ Remains(F, A, fn, p) /\ Counts(fn, p, Len(s)) /\ Written(A, Arg(fn, p))
      /\ Named(p, s[1]) /\ Ended(fn)
    BY <1>2, <1>3, Zenon DEF FrameInv
<1>5. fn \in Functions /\ Len(s) \in Nat /\ 1 <= Len(s) /\ s \in Seq(Seq(STRING)) /\ Agree(fn, F, A)
    BY <1>2, <1>4, CallIs, AgreeAll DEF Typed
<1>6. /\ Len(F) \in Nat \ {0} /\ Mark(fn) \in Nat /\ Mark(fn) # 1 /\ Mark(fn) <= Len(F)
      /\ Semicolon(fn) \in {0, Mark(fn)} /\ (fn # "GGA" => Semicolon(fn) = Mark(fn))
    BY <1>5, Lengths
<1>1. Scanning /\ Head(format) = "_" /\ ~Misses /\ format' = Tail(format) /\ field' = next_field
      /\ call' = call /\ ap' = ap /\ optional' = optional /\ frame' = frame /\ result' = result
    BY DEF scan_ignored
<1>7. /\ Item(F, A, fn, p) /\ (p + 1 # Mark(fn) => Taking(F, A, fn, p))
      /\ (p + 1 = Mark(fn) => Arg(fn, p + 1) = Arg(fn, p) /\ Head(format) = (IF fn = "GGA" THEN "_" ELSE ";"))
    BY <1>1, <1>2, <1>3, ItemIs
<1>9. p + 1 = Mark(fn) /\ fn = "GGA"
    <2>1. ASSUME p + 1 # Mark(fn) PROVE FALSE
        <3>1. Head(format) \in Conversion
            BY <1>7, <2>1, Zenon DEF Item, Taking
        <3> QED
            BY <1>1, <3>1 DEF Conversion
    <2> QED
        BY <1>1, <1>7, <2>1
<1>10. p \in Nat /\ p < Len(F) /\ Arg(fn, p + 1) = Arg(fn, p) /\ p >= 1 /\ Semicolon(fn) = 0
    <2>1. p \in Nat /\ p < Len(F)
        BY <1>7 DEF Item
    <2>2. Arg(fn, p + 1) = Arg(fn, p) /\ Semicolon(fn) = 0
        BY <1>7, <1>9, Zenon DEF Semicolon
    <2>3. p >= 1
        BY <1>6, <1>9, <2>1
    <2> QED
        BY <2>1, <2>2, <2>3
<1>11. Typed'
    BY <1>1, <1>4 DEF Typed
<1>12. Remains(F, A, fn, p + 1)'
    <2>1. p + 1 \in 0 .. Len(F)
        BY <1>6, <1>10
    <2>2. format' = SubSeq(F, (p + 1) + 1, Len(F))
        BY <1>1, <1>7, Zenon DEF Item
    <2>3. ap' = SubSeq(A, Arg(fn, p + 1) + 1, Len(A))
        BY <1>1, <1>4, <1>10, Zenon DEF Remains
    <2> QED
        BY <2>1, <2>2, <2>3, Zenon DEF Remains
<1>13. Counts(fn, p + 1, Len(s))'
    <2>1. optional' \in BOOLEAN /\ ~optional /\ Semicolon(fn) \notin 1 .. p + 1
        <3>1. Semicolon(fn) \notin 1 .. p + 1 /\ Semicolon(fn) \notin 1 .. p
            BY <1>10
        <3> QED
            BY <1>1, <1>4, <3>1, Zenon DEF Counts
    <2>2. field = (IF p < Len(s) THEN p + 1 ELSE 0)
        BY <1>4, <1>9 DEF Counts, Gone
    <2>3. field # 0
        BY <1>1, <2>1 DEF Misses
    <2>4. p < Len(s) /\ field = p + 1
        BY <2>2, <2>3
    <2>5. field' = (IF p + 1 < Len(s) THEN (p + 1) + 1 ELSE 0)
        <3>1. field' = IF field \in 1 .. Len(s) - 1 THEN field + 1 ELSE 0
            BY <1>1, <1>2, Zenon DEF next_field
        <3> QED
            BY <1>5, <1>10, <2>4, <3>1
    <2>6. Gone(fn, p + 1) = p + 1
        BY <1>9 DEF Gone
    <2>7. p + 1 <= Len(s)
        BY <1>5, <1>10, <2>4
    <2> QED
        BY <1>1, <2>1, <2>5, <2>6, <2>7, Zenon DEF Counts
<1>14. Written(A, Arg(fn, p + 1))'
    BY <1>1, <1>4, <1>10, Zenon DEF Written
<1>15. Named(p + 1, s[1])'
    BY <1>1, <1>4, <1>10 DEF Named
<1>16. Ended(fn)'
    BY <1>1 DEF Ended, Scanning
<1>17. Done' = p + 1
    BY <1>1, <1>2, <1>7 DEF Done, Item
<1> QED
    <2>1. (call.fn)' = fn /\ (Format[call.fn])' = F /\ (Args[call.fn])' = A /\ (call.fields)' = s
        BY <1>1, <1>2
    <2> QED
        BY <1>17, <1>11, <1>12, <1>13, <1>14, <1>15, <1>16, <2>1, Zenon DEF FrameInv

LEMMA MissesInv == FrameInv /\ scan_misses => FrameInv'
<1> SUFFICES ASSUME FrameInv, scan_misses PROVE FrameInv'
    OBVIOUS
<1>2. PICK fn, F, A, s : fn = call.fn /\ F = Format[call.fn] /\ A = Args[call.fn] /\ s = call.fields
    OBVIOUS
<1>3. PICK p : p = Done
    OBVIOUS
<1>4. /\ Typed /\ Remains(F, A, fn, p) /\ Counts(fn, p, Len(s)) /\ Written(A, Arg(fn, p))
      /\ Named(p, s[1]) /\ Ended(fn)
    BY <1>2, <1>3, Zenon DEF FrameInv
<1>5. fn \in Functions /\ Len(s) \in Nat /\ 1 <= Len(s) /\ s \in Seq(Seq(STRING)) /\ Agree(fn, F, A)
    BY <1>2, <1>4, CallIs, AgreeAll DEF Typed
<1>6. /\ Len(F) \in Nat \ {0} /\ Mark(fn) \in Nat /\ Mark(fn) # 1 /\ Mark(fn) <= Len(F)
      /\ Semicolon(fn) \in {0, Mark(fn)} /\ (fn # "GGA" => Semicolon(fn) = Mark(fn))
    BY <1>5, Lengths
<1>1. result' = "error" /\ call' = call /\ format' = format /\ ap' = ap /\ field' = field
      /\ optional' = optional /\ frame' = frame
    BY DEF scan_misses
<1>11. Typed'
    BY <1>1, <1>4 DEF Typed
<1>12. Remains(F, A, fn, p)'
    BY <1>1, <1>4, Zenon DEF Remains
<1>13. Counts(fn, p, Len(s))'
    BY <1>1, <1>4, Zenon DEF Counts
<1>14. Written(A, Arg(fn, p))'
    BY <1>1, <1>4, Zenon DEF Written
<1>15. Named(p, s[1])'
    BY <1>1, <1>4, Zenon DEF Named
<1>16. Ended(fn)'
    BY <1>1 DEF Ended
<1>17. Done' = p
    BY <1>1, <1>3 DEF Done
<1> QED
    <2>1. (call.fn)' = fn /\ (Format[call.fn])' = F /\ (Args[call.fn])' = A /\ (call.fields)' = s
        BY <1>1, <1>2
    <2> QED
        BY <1>17, <1>11, <1>12, <1>13, <1>14, <1>15, <1>16, <2>1, Zenon DEF FrameInv


LEMMA ConvertInv == FrameInv /\ scan_convert => FrameInv'
<1> SUFFICES ASSUME FrameInv, scan_convert PROVE FrameInv'
    OBVIOUS
<1>2. PICK fn, F, A, s : fn = call.fn /\ F = Format[call.fn] /\ A = Args[call.fn] /\ s = call.fields
    OBVIOUS
<1>3. PICK p : p = Done
    OBVIOUS
<1>4. /\ Typed /\ Remains(F, A, fn, p) /\ Counts(fn, p, Len(s)) /\ Written(A, Arg(fn, p))
      /\ Named(p, s[1]) /\ Ended(fn)
    BY <1>2, <1>3, Zenon DEF FrameInv
<1>5. fn \in Functions /\ Len(s) \in Nat /\ 1 <= Len(s) /\ s \in Seq(Seq(STRING)) /\ Agree(fn, F, A)
    BY <1>2, <1>4, CallIs, AgreeAll DEF Typed
<1>6. /\ Len(F) \in Nat \ {0} /\ Mark(fn) \in Nat /\ Mark(fn) # 1 /\ Mark(fn) <= Len(F)
      /\ Semicolon(fn) \in {0, Mark(fn)} /\ (fn # "GGA" => Semicolon(fn) = Mark(fn))
    BY <1>5, Lengths
<1> DEFINE v == Scan(Head(format), FieldText)
<1>1. /\ Scanning /\ Head(format) \notin {";", "_"} /\ ~Misses /\ call' = call /\ optional' = optional
      /\ \/ /\ v = Error /\ result' = "error" /\ format' = format /\ ap' = ap /\ field' = field
            /\ frame' = frame
         \/ /\ v # Error /\ result' = result /\ format' = Tail(format) /\ ap' = Tail(ap)
            /\ field' = next_field /\ frame' = [frame EXCEPT ![Head(ap)[1]] = v]
    BY Zenon DEF scan_convert
<1>7. /\ Item(F, A, fn, p) /\ (p + 1 # Mark(fn) => Taking(F, A, fn, p))
      /\ (p + 1 = Mark(fn) => Arg(fn, p + 1) = Arg(fn, p) /\ Head(format) = (IF fn = "GGA" THEN "_" ELSE ";"))
    BY <1>1, <1>2, <1>3, ItemIs
<1>8. CASE v = Error
    <2>1. result' = "error" /\ format' = format /\ ap' = ap /\ field' = field /\ frame' = frame
        BY <1>1, <1>8, Zenon
    <2> HIDE DEF v
    <2>2. Typed'
        BY <1>1, <1>4, <2>1 DEF Typed
    <2>3. Remains(F, A, fn, p)'
        BY <1>1, <1>4, <2>1, Zenon DEF Remains
    <2>4. Counts(fn, p, Len(s))'
        BY <1>1, <1>4, <2>1, Zenon DEF Counts
    <2>5. Written(A, Arg(fn, p))' /\ Named(p, s[1])'
        BY <1>1, <1>4, <2>1, Zenon DEF Written, Named
    <2>6. Ended(fn)'
        BY <2>1 DEF Ended
    <2>7. Done' = p
        BY <1>1, <1>3, <2>1 DEF Done
    <2>8. (call.fn)' = fn /\ (Format[call.fn])' = F /\ (Args[call.fn])' = A /\ (call.fields)' = s
        BY <1>1, <1>2
    <2> QED
        BY <2>2, <2>3, <2>4, <2>5, <2>6, <2>7, <2>8, Zenon DEF FrameInv
<1>9. ASSUME v # Error PROVE FrameInv'
    <2>1. /\ result' = "none" /\ format' = Tail(format) /\ ap' = Tail(ap) /\ field' = next_field
          /\ frame' = [frame EXCEPT ![Head(ap)[1]] = v]
        BY <1>1, <1>9, Zenon DEF Scanning
    <2>2. p + 1 # Mark(fn)
        BY <1>1, <1>7
    <2>3. p \in Nat /\ p < Len(F) /\ Head(format) = F[p + 1]
        BY <1>7 DEF Item
    <2>4. PICK k \in Nat : k = Arg(fn, p + 1)
        <3>1. Arg(fn, p + 1) \in 1 .. Len(A)
            BY <1>7, <2>2, Zenon DEF Taking
        <3> QED
            BY <3>1
    <2>5. /\ Arg(fn, p) = k - 1 /\ k \in 1 .. Len(A) /\ F[p + 1] \in Conversion /\ Stores(F[p + 1]) = A[k][2]
          /\ Head(ap) = A[k] /\ Tail(ap) = SubSeq(A, k + 1, Len(A))
        <3>1. k = Arg(fn, p) + 1
            BY <1>7, <2>2, <2>4, Zenon DEF Taking
        <3>2. Arg(fn, p) \in Int
            BY <1>6, <2>3 DEF Arg
        <3>3. Arg(fn, p) = k - 1
            BY <3>1, <3>2
        <3> QED
            BY <1>7, <2>2, <2>4, <3>3, Zenon DEF Taking
    <2>6. Scan(F[p + 1], FieldText) # Error /\ v = Scan(F[p + 1], FieldText)
        BY <1>9, <2>3
    <2>7. v[1] = A[k][2]
        BY <2>5, <2>6, ScanStores, Zenon
    <2>8. /\ A[1] = <<"type", "text">> /\ F[1] = "t" /\ \A i \in 1 .. Len(A) : A[i] = <<A[i][1], Kind(A[i][1])>>
          /\ \A i \in 2 .. Len(A) : A[i][1] # "type"
          /\ A \in Seq({A[i] : i \in 1 .. Len(A)}) /\ 0 < Len(A)
        BY <1>5, Zenon DEF Agree
    <2> DEFINE M == Members(fn)
    <2>9. M = {A[i][1] : i \in 1 .. Len(A)}
        <3>1. DOMAIN A = 1 .. Len(A)
            BY <2>8
        <3>2. Args[fn] = A
            BY <1>2
        <3> QED
            BY <3>1, <3>2, Zenon DEF Members
    <2> HIDE DEF v, M
    <2>10. PICK m : m = A[k][1]
        OBVIOUS
    <2>11. /\ frame = [x \in M |-> frame[x]] /\ m \in M /\ frame' = [frame EXCEPT ![m] = v]
        BY <1>2, <1>4, <2>1, <2>5, <2>9, <2>10 DEF Typed, M
    <2>12. frame' = [x \in M |-> frame'[x]] /\ frame'[m] = v /\ \A x \in M : x # m => frame'[x] = frame[x]
        BY <2>11
    <2>13. Typed'
        BY <1>1, <1>2, <1>4, <2>1, <2>12 DEF Typed, M
    <2>14. Remains(F, A, fn, p + 1)'
        <3>1. p + 1 \in 0 .. Len(F)
            BY <1>6, <2>3
        <3>2. format' = SubSeq(F, (p + 1) + 1, Len(F))
            BY <2>1, <1>7, Zenon DEF Item
        <3>3. ap' = SubSeq(A, Arg(fn, p + 1) + 1, Len(A))
            BY <2>1, <2>4, <2>5, Zenon
        <3> QED
            BY <3>1, <3>2, <3>3, Zenon DEF Remains
    <2>15. Counts(fn, p + 1, Len(s))'
        <3>1. Gone(fn, p + 1) = Gone(fn, p) + 1 /\ Gone(fn, p) \in Nat
            BY <2>4, <2>5, <2>3 DEF Gone
        <3>2. Semicolon(fn) \in 1 .. p + 1 <=> Semicolon(fn) \in 1 .. p
            BY <1>6, <2>2, <2>3
        <3>3. /\ optional \in BOOLEAN /\ (optional <=> Semicolon(fn) \in 1 .. p)
              /\ field = (IF Gone(fn, p) < Len(s) THEN Gone(fn, p) + 1 ELSE 0)
              /\ (IF optional THEN Semicolon(fn) - 1 ELSE p) <= Len(s)
            BY <1>4, Zenon DEF Counts
        <3>4. optional' \in BOOLEAN /\ (optional' <=> Semicolon(fn) \in 1 .. p + 1)
            BY <1>1, <3>2, <3>3, Zenon
        <3>5. field' = IF field \in 1 .. Len(s) - 1 THEN field + 1 ELSE 0
            BY <1>2, <2>1, Zenon DEF next_field
        <3>6. field' = (IF Gone(fn, p + 1) < Len(s) THEN Gone(fn, p + 1) + 1 ELSE 0)
            <4>1. PICK g \in Nat, n \in Nat : g = Gone(fn, p) /\ n = Len(s) /\ Gone(fn, p + 1) = g + 1
                BY <1>5, <3>1
            <4>2. field = (IF g < n THEN g + 1 ELSE 0)
                BY <3>3, <4>1, Zenon
            <4>3. field' = IF field \in 1 .. n - 1 THEN field + 1 ELSE 0
                BY <3>5, <4>1, Zenon
            <4>4. field' = (IF g + 1 < n THEN (g + 1) + 1 ELSE 0)
                BY <4>2, <4>3
            <4> QED
                BY <4>1, <4>4, Zenon
        <3>7. ASSUME ~optional PROVE p + 1 <= Len(s)
            <4>1. Semicolon(fn) \notin 1 .. p
                BY <3>3, <3>7, Zenon
            <4>2. Gone(fn, p) = p
                BY <1>6, <2>3, <4>1 DEF Gone, Arg
            <4>3. field # 0
                BY <1>1, <3>7, Zenon DEF Misses
            <4>4. p < Len(s)
                BY <3>3, <4>2, <4>3, Zenon
            <4> QED
                BY <1>5, <2>3, <4>4
        <3> QED
            BY <1>1, <3>3, <3>4, <3>6, <3>7, Zenon DEF Counts
    <2>16. Written(A, Arg(fn, p + 1))'
        <3> SUFFICES ASSUME NEW i \in 1 .. k PROVE frame'[A[i][1]][1] = A[i][2]
            BY <2>4, Zenon DEF Written
        <3>1. i \in 1 .. Len(A) /\ k \in 1 .. Len(A)
            BY <2>5, <2>8
        <3>2. A[i] = <<A[i][1], Kind(A[i][1])>> /\ A[k] = <<A[k][1], Kind(A[k][1])>> /\ A[i][1] \in M
            BY <2>8, <2>9, <3>1, Zenon
        <3>3. CASE A[i][1] = m
            <4>1. A[i] = A[k]
                BY <2>10, <3>2, <3>3, Zenon
            <4> QED
                BY <2>7, <2>12, <3>3, <4>1, Zenon
        <3>4. CASE A[i][1] # m
            <4>1. i # k
                BY <2>10, <3>4
            <4>2. i \in 1 .. k - 1
                BY <4>1
            <4> QED
                BY <1>4, <2>5, <2>12, <3>2, <3>4, <4>2, Zenon DEF Written
        <3> QED
            BY <3>3, <3>4
    <2>17. Named(p + 1, s[1])'
        <3>1. CASE p = 0
            <4>1. k = 1 /\ Gone(fn, p) = 0
                BY <1>6, <2>3, <2>5, <3>1 DEF Arg, Gone
            <4>2. field = 1
                BY <1>4, <1>5, <4>1 DEF Counts
            <4>3. FieldText = s[1]
                BY <1>2, <4>2 DEF FieldText
            <4>4. F[p + 1] = "t"
                BY <2>8, <3>1
            <4>5. v = scan_t(s[1]) /\ scan_t(s[1]) # Error
                BY <2>6, <4>3, <4>4 DEF Scan
            <4>6. m = "type"
                BY <2>8, <2>10, <4>1
            <4> QED
                BY <2>12, <4>5, <4>6, Zenon DEF Named
        <3>2. CASE p # 0
            <4>1. k \in 2 .. Len(A)
                BY <1>6, <2>3, <2>5, <3>2 DEF Arg
            <4>2. m # "type"
                BY <2>8, <2>10, <4>1, Zenon
            <4>3. 1 \in 1 .. Len(A) /\ A[1][1] = "type"
                BY <2>8, <4>1
            <4>4. "type" \in M
                BY <2>9, <4>3, Zenon
            <4>5. frame'["type"] = frame["type"]
                BY <2>12, <4>2, <4>4, Zenon
            <4>6. p >= 1
                BY <2>3, <3>2
            <4> QED
                BY <1>4, <4>5, <4>6, Zenon DEF Named
        <3> QED
            BY <3>1, <3>2
    <2>18. Ended(fn)'
        BY <2>1 DEF Ended
    <2>19. Done' = p + 1
        BY <1>1, <1>2, <1>7, <2>1 DEF Done, Item
    <2>20. (call.fn)' = fn /\ (Format[call.fn])' = F /\ (Args[call.fn])' = A /\ (call.fields)' = s
        BY <1>1, <1>2
    <2> QED
        BY <2>13, <2>14, <2>15, <2>16, <2>17, <2>18, <2>19, <2>20, Zenon DEF FrameInv
<1> QED
    BY <1>8, <1>9

\* Multiplying by a direction changes no type and does not touch the kind of the sentence.
LEMMA Turns ==
    ASSUME NEW f, NEW m \in DOMAIN f
    PROVE  /\ m \notin {"latitude", "longitude", "variation"} => Turned(f)[m] = f[m]
           /\ f[m][1] = Kind(m) => Turned(f)[m][1] = Kind(m)
<1>1. DOMAIN Directed = {"latitude", "longitude", "variation"}
    BY DEF Directed
<1>2. m \in {"latitude", "longitude", "variation"} => Kind(m) = "float"
    <2>1. m \in {"latitude", "longitude", "variation"} => m \notin Numbers /\ m \in Floats
        BY DEF Numbers, Floats, Sats
    <2> QED
        BY <2>1, Zenon DEF Kind
<1>3. Turned(f)[m] = IF m \in DOMAIN Directed /\ Directed[m] \in DOMAIN f
                       THEN <<"float", f[m][2] * f[Directed[m]][2], f[m][3]>> ELSE f[m]
    BY DEF Turned
<1>4. \/ m \in {"latitude", "longitude", "variation"} /\ \E x, y : Turned(f)[m] = <<"float", x, y>>
      \/ Turned(f)[m] = f[m]
    BY <1>1, <1>3, Zenon
<1>5. m \notin {"latitude", "longitude", "variation"} => Turned(f)[m] = f[m]
    BY <1>1, <1>3, Zenon
<1> QED
    BY <1>2, <1>4, <1>5

LEMMA ParseInv == FrameInv /\ parse => FrameInv'
<1> SUFFICES ASSUME FrameInv, parse PROVE FrameInv'
    OBVIOUS
<1>2. PICK fn, F, A, s : fn = call.fn /\ F = Format[call.fn] /\ A = Args[call.fn] /\ s = call.fields
    OBVIOUS
<1>3. PICK p : p = Done
    OBVIOUS
<1>4. /\ Typed /\ Remains(F, A, fn, p) /\ Counts(fn, p, Len(s)) /\ Written(A, Arg(fn, p))
      /\ Named(p, s[1]) /\ Ended(fn)
    BY <1>2, <1>3, Zenon DEF FrameInv
<1>5. fn \in Functions /\ Len(s) \in Nat /\ 1 <= Len(s) /\ s \in Seq(Seq(STRING)) /\ Agree(fn, F, A)
    BY <1>2, <1>4, CallIs, AgreeAll DEF Typed
<1>6. /\ Len(F) \in Nat \ {0} /\ Mark(fn) \in Nat /\ Mark(fn) # 1 /\ Mark(fn) <= Len(F)
      /\ Semicolon(fn) \in {0, Mark(fn)} /\ (fn # "GGA" => Semicolon(fn) = Mark(fn))
    BY <1>5, Lengths
<1>1. /\ result = "none" /\ format = <<>> /\ call' = call /\ format' = format /\ ap' = ap /\ field' = field
      /\ optional' = optional
      /\ \/ frame' = frame /\ result' = "error"
         \/ frame' = frame /\ fn = "own" /\ result' = "ok"
         \/ frame' = Turned(frame) /\ Type(frame) = TypeOf[fn] /\ result' = "ok"
    BY <1>2, Zenon DEF parse
<1>7. /\ A[1] = <<"type", "text">> /\ \A i \in 1 .. Len(A) : A[i] = <<A[i][1], Kind(A[i][1])>>
      /\ A \in Seq({A[i] : i \in 1 .. Len(A)}) /\ 0 < Len(A)
      /\ Len(A) = (IF Mark(fn) = 0 THEN Len(F) ELSE Len(F) - 1)
    BY <1>5, Zenon DEF Agree
<1>8. p \in 0 .. Len(F)
    BY <1>4, Zenon DEF Remains
<1>9. Arg(fn, p) <= Len(A) /\ Arg(fn, p) \in Int
    BY <1>6, <1>7, <1>8 DEF Arg
<1>10. frame = [m \in Members(fn) |-> frame[m]] /\ Members(fn) = {A[i][1] : i \in 1 .. Len(A)}
    <2>1. DOMAIN A = 1 .. Len(A)
        BY <1>7
    <2>2. frame = [m \in Members(fn) |-> frame[m]]
        BY <1>2, <1>4, Zenon DEF Typed
    <2> QED
        BY <1>2, <2>1, <2>2, Zenon DEF Members
<1>18. "type" \in Members(fn) /\ DOMAIN frame = Members(fn)
    <2>1. 1 \in 1 .. Len(A) /\ A[1][1] = "type"
        BY <1>7
    <2>2. DOMAIN frame = Members(fn)
        BY <1>10
    <2> QED
        BY <1>10, <2>1, <2>2, Zenon
<1>19. \/ frame' = frame
       \/ frame' = Turned(frame) /\ Type(frame) = TypeOf[fn]
    BY <1>1, Zenon
<1>20. frame'["type"] = frame["type"]
    BY <1>18, <1>19, Turns
<1>11. Typed'
    <2>1. DOMAIN Turned(frame) = DOMAIN frame /\ Turned(frame) = [m \in DOMAIN frame |-> Turned(frame)[m]]
        BY DEF Turned
    <2>2. frame' = [m \in Members(fn) |-> frame'[m]]
        BY <1>10, <1>18, <1>19, <2>1, Zenon
    <2>3. result' \in {"none", "ok", "error"}
        BY <1>1
    <2> QED
        BY <1>1, <1>2, <1>4, <2>2, <2>3, Zenon DEF Typed
<1>12. Remains(F, A, fn, p)'
    BY <1>1, <1>4, Zenon DEF Remains
<1>13. Counts(fn, p, Len(s))'
    BY <1>1, <1>4, Zenon DEF Counts
<1>14. Written(A, Arg(fn, p))'
    <2> SUFFICES ASSUME NEW i \in 1 .. Arg(fn, p) PROVE frame'[A[i][1]][1] = A[i][2]
        BY Zenon DEF Written
    <2>1. i \in 1 .. Len(A)
        BY <1>7, <1>9
    <2>2. A[i] = <<A[i][1], Kind(A[i][1])>> /\ A[i][1] \in DOMAIN frame /\ frame[A[i][1]][1] = A[i][2]
        BY <1>4, <1>7, <1>10, <1>18, <2>1, Zenon DEF Written
    <2>3. PICK m \in DOMAIN frame : m = A[i][1]
        BY <2>2, Zenon
    <2>4. A[i][2] = Kind(m)
        BY <2>2, <2>3
    <2>5. frame[m][1] = Kind(m) => Turned(frame)[m][1] = Kind(m)
        BY Turns, Zenon
    <2> QED
        BY <1>19, <2>2, <2>3, <2>4, <2>5, Zenon
<1>15. Named(p, s[1])'
    BY <1>4, <1>20, Zenon DEF Named
<1>16. Ended(fn)'
    BY <1>1, <1>20, Zenon DEF Ended, Type
<1>17. Done' = p
    BY <1>1, <1>3 DEF Done
<1> QED
    <2>1. (call.fn)' = fn /\ (Format[call.fn])' = F /\ (Args[call.fn])' = A /\ (call.fields)' = s
        BY <1>1, <1>2
    <2> QED
        BY <1>17, <1>11, <1>12, <1>13, <1>14, <1>15, <1>16, <2>1, Zenon DEF FrameInv


LEMMA NextInv == FrameInv /\ [ScanNext]_scanning => FrameInv'
<1>1. ASSUME FrameInv, UNCHANGED scanning PROVE FrameInv'
    <2>1. /\ call' = call /\ format' = format /\ ap' = ap /\ field' = field /\ optional' = optional
          /\ frame' = frame /\ result' = result
        BY <1>1 DEF scanning
    <2> QED
        BY <1>1, <2>1, Zenon DEF FrameInv, Typed, Remains, Counts, Written, Named, Ended, Done
<1> QED
    BY <1>1, OptionalInv, IgnoredInv, ConvertInv, MissesInv, ParseInv, Zenon DEF ScanNext

(* What Mandatory chooses. *)
LEMMA MandatoryIs ==
    ASSUME NEW fn \in Functions
    PROVE  Mandatory(fn) = (IF Semicolon(fn) = 0 THEN Len(Format[fn]) ELSE Semicolon(fn) - 1)
<1> DEFINE F == Format[fn]
           A == Args[fn]
           n == IF Semicolon(fn) = 0 THEN Len(F) ELSE Semicolon(fn) - 1
           P(k) == /\ \A i \in 1 .. k : F[i] # ";"
                   /\ k < Len(F) => F[k + 1] = ";"
<1>1. Agree(fn, F, A)
    BY AgreeAll
<1> HIDE DEF F, A
<1>2. /\ Len(F) \in Nat \ {0} /\ Mark(fn) \in Nat /\ Mark(fn) # 1 /\ Mark(fn) <= Len(F)
      /\ Semicolon(fn) \in {0, Mark(fn)} /\ (fn # "GGA" => Semicolon(fn) = Mark(fn))
    BY <1>1, Lengths
<1>3. n \in 0 .. Len(F)
    BY <1>2
<1>4. ASSUME NEW i \in 1 .. Len(F), i # Semicolon(fn) PROVE F[i] # ";"
    <2>1. CASE i # Mark(fn)
        <3>1. F[i] \in Conversion
            BY <1>1, <2>1, Zenon DEF Agree
        <3> QED
            BY <3>1 DEF Conversion
    <2>2. CASE i = Mark(fn)
        <3>1. fn = "GGA" /\ Mark(fn) # 0
            BY <1>2, <1>4, <2>2
        <3>2. F[i] = "_"
            BY <1>1, <2>2, <3>1, Zenon DEF Agree
        <3> QED
            BY <3>2
    <2> QED
        BY <2>1, <2>2
<1>5. Semicolon(fn) # 0 => F[Semicolon(fn)] = ";"
    <2> SUFFICES ASSUME Semicolon(fn) # 0 PROVE F[Semicolon(fn)] = ";"
        OBVIOUS
    <2>1. fn # "GGA" /\ Mark(fn) # 0 /\ Semicolon(fn) = Mark(fn)
        BY <1>2 DEF Semicolon
    <2> QED
        BY <1>1, <2>1, Zenon DEF Agree
<1>6. P(n)
    <2>1. ASSUME NEW i \in 1 .. n PROVE F[i] # ";"
        <3>1. i \in 1 .. Len(F) /\ i # Semicolon(fn)
            BY <1>2
        <3> QED
            BY <1>4, <3>1
    <2>2. ASSUME n < Len(F) PROVE F[n + 1] = ";"
        <3>1. Semicolon(fn) # 0 /\ n + 1 = Semicolon(fn)
            BY <1>2, <2>2
        <3> QED
            BY <1>5, <3>1
    <2> QED
        BY <2>1, <2>2
<1>7. ASSUME NEW k \in 0 .. Len(F), P(k) PROVE k = n
    <2>1. k < n => FALSE
        <3> SUFFICES ASSUME k < n PROVE FALSE
            OBVIOUS
        <3>1. k < Len(F) /\ k + 1 \in 1 .. n
            BY <1>2, <1>3
        <3> QED
            BY <1>6, <1>7, <3>1
    <2>2. k > n => FALSE
        <3> SUFFICES ASSUME k > n PROVE FALSE
            OBVIOUS
        <3>1. n < Len(F) /\ n + 1 \in 1 .. k
            BY <1>2, <1>3
        <3> QED
            BY <1>6, <1>7, <3>1
    <2> QED
        BY <1>2, <1>3, <2>1, <2>2
<1> HIDE DEF n, P
<1>8. (CHOOSE k \in 0 .. Len(F) : P(k)) = n
    BY <1>3, <1>6, <1>7
<1> QED
    BY <1>8 DEF Mandatory, F, P, n

(* The characters behind "$GP" of the first field. *)
LEMMA Inner ==
    ASSUME NEW V, NEW f \in Seq(V), Len(f) >= 6
    PROVE  SubSeq(SubSeq(f, 2, 6), 3, 5) = SubSeq(f, 4, 6)
<1> DEFINE g == SubSeq(f, 2, 6)
<1>2. g \in Seq(V) /\ Len(g) = 5 /\ \A i \in 1 .. 5 : g[i] = f[i + 1]
    OBVIOUS
<1> HIDE DEF g
<1> DEFINE h == SubSeq(g, 3, 5)
           k == SubSeq(f, 4, 6)
<1>3. h \in Seq(V) /\ Len(h) = 3 /\ \A i \in 1 .. 3 : h[i] = g[i + 2]
    BY <1>2
<1>4. k \in Seq(V) /\ Len(k) = 3 /\ \A i \in 1 .. 3 : k[i] = f[i + 3]
    OBVIOUS
<1>5. \A i \in 1 .. 3 : g[i + 2] = f[i + 3]
    <2> SUFFICES ASSUME NEW i \in 1 .. 3 PROVE g[i + 2] = f[i + 3]
        OBVIOUS
    <2>1. i + 2 \in 1 .. 5 /\ (i + 2) + 1 = i + 3
        OBVIOUS
    <2> HIDE DEF h, k
    <2> QED
        BY <1>2, <2>1, Zenon
<1> HIDE DEF h, k
<1>6. h = k
    BY <1>3, <1>4, <1>5
<1> QED
    BY <1>6 DEF h, k, g

LEMMA KindOf ==
    ASSUME NEW f \in Seq(STRING), scan_t(f) # Error
    PROVE  scan_t(f) = <<"text", SubSeq(f, 2, 6)>> /\ SubSeq(SubSeq(f, 2, 6), 3, 5) = SubSeq(f, 4, 6)
<1>1. Len(f) >= 6 /\ scan_t(f) = <<"text", SubSeq(f, 2, 6)>>
    BY DEF scan_t
<1> QED
    BY <1>1, Inner

LEMMA InvWhole == FrameInv => FrameWhole
<1> SUFFICES ASSUME FrameInv PROVE FrameWhole
    OBVIOUS
<1>2. PICK fn, F, A, s : fn = call.fn /\ F = Format[call.fn] /\ A = Args[call.fn] /\ s = call.fields
    OBVIOUS
<1>3. PICK p : p = Done
    OBVIOUS
<1>4. /\ Typed /\ Remains(F, A, fn, p) /\ Counts(fn, p, Len(s)) /\ Written(A, Arg(fn, p))
      /\ Named(p, s[1]) /\ Ended(fn)
    BY <1>2, <1>3, Zenon DEF FrameInv
<1>5. fn \in Functions /\ Len(s) \in Nat /\ 1 <= Len(s) /\ s \in Seq(Seq(STRING)) /\ Agree(fn, F, A)
    BY <1>2, <1>4, CallIs, AgreeAll DEF Typed
<1>6. /\ Len(F) \in Nat \ {0} /\ Mark(fn) \in Nat /\ Mark(fn) # 1 /\ Mark(fn) <= Len(F)
      /\ Semicolon(fn) \in {0, Mark(fn)} /\ (fn # "GGA" => Semicolon(fn) = Mark(fn))
      /\ Len(A) = (IF Mark(fn) = 0 THEN Len(F) ELSE Len(F) - 1)
    BY <1>5, Lengths
<1>7. A \in Seq({A[i] : i \in 1 .. Len(A)})
    BY <1>5, Zenon DEF Agree
<1>8. FrameTypes
    <2>1. fn \in DOMAIN Format
        BY <1>5 DEF Functions, Format
    <2>2. field \in 0 .. Len(s)
        <3>1. Gone(fn, p) \in Nat
            BY <1>4, <1>6 DEF Remains, Gone, Arg
        <3> QED
            BY <1>4, <1>5, <3>1 DEF Counts
    <2>3. DOMAIN frame = Members(fn)
        BY <1>2, <1>4 DEF Typed
    <2> QED
        BY <1>2, <1>4, <2>1, <2>2, <2>3 DEF FrameTypes, Typed, Counts
<1>9. ASSUME result = "ok"
      PROVE  /\ \A i \in DOMAIN A : frame[A[i][1]][1] = A[i][2]
             /\ Len(s) >= Mandatory(fn)
             /\ fn # "own" => minmea_sentence_id(call) \in {<<"INVALID">>, TypeOf[fn]}
    <2>1. format = <<>> /\ (fn # "own" => Type(frame) = TypeOf[fn])
        BY <1>4, <1>9 DEF Ended
    <2>2. p = Len(F)
        BY <1>2, <1>3, <1>6, <2>1 DEF Done
    <2>3. Arg(fn, p) = Len(A) /\ DOMAIN A = 1 .. Len(A)
        BY <1>6, <1>7, <2>2 DEF Arg
    <2>4. \A i \in DOMAIN A : frame[A[i][1]][1] = A[i][2]
        BY <1>4, <2>3, Zenon DEF Written
    <2>5. Mandatory(fn) = (IF Semicolon(fn) = 0 THEN Len(F) ELSE Semicolon(fn) - 1)
        BY <1>2, <1>5, MandatoryIs
    <2>6. Len(s) >= Mandatory(fn)
        <3>1. optional <=> Semicolon(fn) # 0
            <4>1. Semicolon(fn) \in 1 .. p <=> Semicolon(fn) # 0
                BY <1>6, <2>2
            <4> QED
                BY <1>4, <4>1, Zenon DEF Counts
        <3>2. (IF Semicolon(fn) # 0 THEN Semicolon(fn) - 1 ELSE p) <= Len(s)
            BY <1>4, <3>1, Zenon DEF Counts
        <3> QED
            BY <1>5, <1>6, <2>2, <2>5, <3>2
    <2>7. fn # "own" => minmea_sentence_id(call) \in {<<"INVALID">>, TypeOf[fn]}
        <3> SUFFICES ASSUME fn # "own" PROVE minmea_sentence_id(call) \in {<<"INVALID">>, TypeOf[fn]}
            OBVIOUS
        <3>1. p >= 1 /\ 1 \in 1 .. Len(s)
            BY <1>5, <1>6, <2>2
        <3>2. PICK f \in Seq(STRING) : f = s[1]
            BY <1>5, <3>1
        <3>3. frame["type"] = scan_t(f) /\ scan_t(f) # Error
            BY <1>4, <3>1, <3>2, Zenon DEF Named
        <3>4. frame["type"] = <<"text", SubSeq(f, 2, 6)>> /\ SubSeq(SubSeq(f, 2, 6), 3, 5) = SubSeq(f, 4, 6)
            BY <3>3, KindOf
        <3>5. frame["type"][2] = SubSeq(f, 2, 6)
            BY <3>4
        <3>6. TypeOf[fn] = SubSeq(f, 4, 6)
            BY <2>1, <3>4, <3>5, Zenon DEF Type
        <3> QED
            BY <1>2, <3>2, <3>6, Zenon DEF minmea_sentence_id
    <2> QED
        BY <2>4, <2>6, <2>7
<1> QED
    BY <1>2, <1>8, <1>9, Zenon DEF FrameWhole

(***************************************************************************)
(* Whatever the sentence and however it is cut, a parse function that      *)
(* returns success has written every member of its frame from it.          *)
(***************************************************************************)
THEOREM FramesWhole == ScanSpec => []FrameWhole
<1>1. ScanSpec => []FrameInv
    BY InitInv, NextInv, PTL DEF ScanSpec
<1> QED
    BY <1>1, InvWhole, PTL


-----------------------------------------------------------------------------
(***************************************************************************)
(* Characters.                                                             *)
(***************************************************************************)
LEMMA AsciiIs == DOMAIN Ascii = 1 .. 95 /\ Ascii[11] = "*" /\ Ascii[5] = "$"
    BY DEF Ascii

LEMMA Unprintable == ASSUME NEW i \in 1 .. 95 PROVE Ascii[i] \notin {"nul", "\n", "\r"}
<1> DEFINE A == Ascii
<1>1. i = 1 \/ i = 2 \/ i = 3 \/ i = 4 \/ i = 5 \/ i = 6 \/ i = 7 \/ i = 8 \/ i = 9 \/ i = 10 \/ i =
      11 \/ i = 12 \/ i = 13 \/ i = 14 \/ i = 15 \/ i = 16 \/ i = 17 \/ i = 18 \/ i = 19 \/ i = 20
      \/ i = 21 \/ i = 22 \/ i = 23 \/ i = 24 \/ i = 25 \/ i = 26 \/ i = 27 \/ i = 28 \/ i = 29 \/ i
      = 30 \/ i = 31 \/ i = 32 \/ i = 33 \/ i = 34 \/ i = 35 \/ i = 36 \/ i = 37 \/ i = 38 \/ i = 39
      \/ i = 40 \/ i = 41 \/ i = 42 \/ i = 43 \/ i = 44 \/ i = 45 \/ i = 46 \/ i = 47 \/ i = 48 \/ i
      = 49 \/ i = 50 \/ i = 51 \/ i = 52 \/ i = 53 \/ i = 54 \/ i = 55 \/ i = 56 \/ i = 57 \/ i = 58
      \/ i = 59 \/ i = 60 \/ i = 61 \/ i = 62 \/ i = 63 \/ i = 64 \/ i = 65 \/ i = 66 \/ i = 67 \/ i
      = 68 \/ i = 69 \/ i = 70 \/ i = 71 \/ i = 72 \/ i = 73 \/ i = 74 \/ i = 75 \/ i = 76 \/ i = 77
      \/ i = 78 \/ i = 79 \/ i = 80 \/ i = 81 \/ i = 82 \/ i = 83 \/ i = 84 \/ i = 85 \/ i = 86 \/ i
      = 87 \/ i = 88 \/ i = 89 \/ i = 90 \/ i = 91 \/ i = 92 \/ i = 93 \/ i = 94 \/ i = 95
    OBVIOUS
<1>2. A[1] \notin {"nul", "\n", "\r"} /\ A[2] \notin {"nul", "\n", "\r"} /\ A[3] \notin {"nul",
      "\n", "\r"} /\ A[4] \notin {"nul", "\n", "\r"} /\ A[5] \notin {"nul", "\n", "\r"} /\ A[6]
      \notin {"nul", "\n", "\r"} /\ A[7] \notin {"nul", "\n", "\r"} /\ A[8] \notin {"nul", "\n",
      "\r"} /\ A[9] \notin {"nul", "\n", "\r"} /\ A[10] \notin {"nul", "\n", "\r"} /\ A[11] \notin
      {"nul", "\n", "\r"} /\ A[12] \notin {"nul", "\n", "\r"} /\ A[13] \notin {"nul", "\n", "\r"} /\
      A[14] \notin {"nul", "\n", "\r"} /\ A[15] \notin {"nul", "\n", "\r"} /\ A[16] \notin {"nul",
      "\n", "\r"} /\ A[17] \notin {"nul", "\n", "\r"} /\ A[18] \notin {"nul", "\n", "\r"} /\ A[19]
      \notin {"nul", "\n", "\r"} /\ A[20] \notin {"nul", "\n", "\r"} /\ A[21] \notin {"nul", "\n",
      "\r"} /\ A[22] \notin {"nul", "\n", "\r"} /\ A[23] \notin {"nul", "\n", "\r"} /\ A[24] \notin
      {"nul", "\n", "\r"}
    BY DEF Ascii
<1>3. A[25] \notin {"nul", "\n", "\r"} /\ A[26] \notin {"nul", "\n", "\r"} /\ A[27] \notin {"nul",
      "\n", "\r"} /\ A[28] \notin {"nul", "\n", "\r"} /\ A[29] \notin {"nul", "\n", "\r"} /\ A[30]
      \notin {"nul", "\n", "\r"} /\ A[31] \notin {"nul", "\n", "\r"} /\ A[32] \notin {"nul", "\n",
      "\r"} /\ A[33] \notin {"nul", "\n", "\r"} /\ A[34] \notin {"nul", "\n", "\r"} /\ A[35] \notin
      {"nul", "\n", "\r"} /\ A[36] \notin {"nul", "\n", "\r"} /\ A[37] \notin {"nul", "\n", "\r"} /\
      A[38] \notin {"nul", "\n", "\r"} /\ A[39] \notin {"nul", "\n", "\r"} /\ A[40] \notin {"nul",
      "\n", "\r"} /\ A[41] \notin {"nul", "\n", "\r"} /\ A[42] \notin {"nul", "\n", "\r"} /\ A[43]
      \notin {"nul", "\n", "\r"} /\ A[44] \notin {"nul", "\n", "\r"} /\ A[45] \notin {"nul", "\n",
      "\r"} /\ A[46] \notin {"nul", "\n", "\r"} /\ A[47] \notin {"nul", "\n", "\r"} /\ A[48] \notin
      {"nul", "\n", "\r"}
    BY DEF Ascii
<1>4. A[49] \notin {"nul", "\n", "\r"} /\ A[50] \notin {"nul", "\n", "\r"} /\ A[51] \notin {"nul",
      "\n", "\r"} /\ A[52] \notin {"nul", "\n", "\r"} /\ A[53] \notin {"nul", "\n", "\r"} /\ A[54]
      \notin {"nul", "\n", "\r"} /\ A[55] \notin {"nul", "\n", "\r"} /\ A[56] \notin {"nul", "\n",
      "\r"} /\ A[57] \notin {"nul", "\n", "\r"} /\ A[58] \notin {"nul", "\n", "\r"} /\ A[59] \notin
      {"nul", "\n", "\r"} /\ A[60] \notin {"nul", "\n", "\r"} /\ A[61] \notin {"nul", "\n", "\r"} /\
      A[62] \notin {"nul", "\n", "\r"} /\ A[63] \notin {"nul", "\n", "\r"} /\ A[64] \notin {"nul",
      "\n", "\r"} /\ A[65] \notin {"nul", "\n", "\r"} /\ A[66] \notin {"nul", "\n", "\r"} /\ A[67]
      \notin {"nul", "\n", "\r"} /\ A[68] \notin {"nul", "\n", "\r"} /\ A[69] \notin {"nul", "\n",
      "\r"} /\ A[70] \notin {"nul", "\n", "\r"} /\ A[71] \notin {"nul", "\n", "\r"} /\ A[72] \notin
      {"nul", "\n", "\r"}
    BY DEF Ascii
<1>5. A[73] \notin {"nul", "\n", "\r"} /\ A[74] \notin {"nul", "\n", "\r"} /\ A[75] \notin {"nul",
      "\n", "\r"} /\ A[76] \notin {"nul", "\n", "\r"} /\ A[77] \notin {"nul", "\n", "\r"} /\ A[78]
      \notin {"nul", "\n", "\r"} /\ A[79] \notin {"nul", "\n", "\r"} /\ A[80] \notin {"nul", "\n",
      "\r"} /\ A[81] \notin {"nul", "\n", "\r"} /\ A[82] \notin {"nul", "\n", "\r"} /\ A[83] \notin
      {"nul", "\n", "\r"} /\ A[84] \notin {"nul", "\n", "\r"} /\ A[85] \notin {"nul", "\n", "\r"} /\
      A[86] \notin {"nul", "\n", "\r"} /\ A[87] \notin {"nul", "\n", "\r"} /\ A[88] \notin {"nul",
      "\n", "\r"} /\ A[89] \notin {"nul", "\n", "\r"} /\ A[90] \notin {"nul", "\n", "\r"} /\ A[91]
      \notin {"nul", "\n", "\r"} /\ A[92] \notin {"nul", "\n", "\r"} /\ A[93] \notin {"nul", "\n",
      "\r"} /\ A[94] \notin {"nul", "\n", "\r"} /\ A[95] \notin {"nul", "\n", "\r"}
    BY DEF Ascii
<1> HIDE DEF A
<1>6. A[i] \notin {"nul", "\n", "\r"}
    BY <1>1, <1>2, <1>3, <1>4, <1>5
<1> QED
    BY <1>6 DEF A

LEMMA DigitsPrint == ASSUME NEW i \in 1 .. 10 PROVE Digits[i] \in ToSet(Ascii) /\ Digits[i] # "*"
<1>1. i = 1 \/ i = 2 \/ i = 3 \/ i = 4 \/ i = 5 \/ i = 6 \/ i = 7 \/ i = 8 \/ i = 9 \/ i = 10
    OBVIOUS
<1>2. Ascii[17] = Digits[1] /\ Ascii[18] = Digits[2] /\ Ascii[19] = Digits[3] /\ Ascii[20] =
      Digits[4] /\ Ascii[21] = Digits[5] /\ Ascii[22] = Digits[6] /\ Ascii[23] = Digits[7] /\
      Ascii[24] = Digits[8] /\ Ascii[25] = Digits[9] /\ Ascii[26] = Digits[10]
    BY DEF Ascii, Digits
<1>3. Digits[1] # "*" /\ Digits[2] # "*" /\ Digits[3] # "*" /\ Digits[4] # "*" /\ Digits[5] # "*" /\
      Digits[6] # "*" /\ Digits[7] # "*" /\ Digits[8] # "*" /\ Digits[9] # "*" /\ Digits[10] # "*"
    BY DEF Digits
<1>4. i + 16 \in 1 .. 95 /\ Digits[i] = Ascii[i + 16]
    BY <1>1, <1>2
<1>5. Digits[i] # "*"
    BY <1>1, <1>3
<1> QED
    BY <1>4, <1>5, AsciiIs, Zenon DEF ToSet

LEMMA UpperPrint == ASSUME NEW i \in 1 .. 6 PROVE Upper[i] \in ToSet(Ascii) /\ Upper[i] # "*"
<1>1. i = 1 \/ i = 2 \/ i = 3 \/ i = 4 \/ i = 5 \/ i = 6
    OBVIOUS
<1>2. Ascii[34] = Upper[1] /\ Ascii[35] = Upper[2] /\ Ascii[36] = Upper[3] /\ Ascii[37] = Upper[4]
      /\ Ascii[38] = Upper[5] /\ Ascii[39] = Upper[6]
    BY DEF Ascii, Upper
<1>3. Upper[1] # "*" /\ Upper[2] # "*" /\ Upper[3] # "*" /\ Upper[4] # "*" /\ Upper[5] # "*" /\
      Upper[6] # "*"
    BY DEF Upper
<1>4. i + 33 \in 1 .. 95 /\ Upper[i] = Ascii[i + 33]
    BY <1>1, <1>2
<1>5. Upper[i] # "*"
    BY <1>1, <1>3
<1> QED
    BY <1>4, <1>5, AsciiIs, Zenon DEF ToSet

LEMMA LowerPrint == ASSUME NEW i \in 1 .. 6 PROVE Lower[i] \in ToSet(Ascii) /\ Lower[i] # "*"
<1>1. i = 1 \/ i = 2 \/ i = 3 \/ i = 4 \/ i = 5 \/ i = 6
    OBVIOUS
<1>2. Ascii[66] = Lower[1] /\ Ascii[67] = Lower[2] /\ Ascii[68] = Lower[3] /\ Ascii[69] = Lower[4]
      /\ Ascii[70] = Lower[5] /\ Ascii[71] = Lower[6]
    BY DEF Ascii, Lower
<1>3. Lower[1] # "*" /\ Lower[2] # "*" /\ Lower[3] # "*" /\ Lower[4] # "*" /\ Lower[5] # "*" /\
      Lower[6] # "*"
    BY DEF Lower
<1>4. i + 65 \in 1 .. 95 /\ Lower[i] = Ascii[i + 65]
    BY <1>1, <1>2
<1>5. Lower[i] # "*"
    BY <1>1, <1>3
<1> QED
    BY <1>4, <1>5, AsciiIs, Zenon DEF ToSet


(* The characters that print have different codes, all of them of a byte. *)
LEMMA CodeIs ==
    /\ DOMAIN Code = ToSet(Ascii) /\ \A c \in ToSet(Ascii) : Code[c] \in 0 .. 255
    /\ \A c, d \in ToSet(Ascii) : Code[c] = Code[d] => c = d
<1>1. ASSUME NEW c \in ToSet(Ascii)
      PROVE  /\ Place(Ascii, c) \in 1 .. 95 /\ Ascii[Place(Ascii, c)] = c /\ Code[c] = 31 + Place(Ascii, c)
    <2>1. \E i \in DOMAIN Ascii : Ascii[i] = c
        BY Zenon DEF ToSet
    <2>2. Place(Ascii, c) \in DOMAIN Ascii /\ Ascii[Place(Ascii, c)] = c
        BY <2>1, Zenon DEF Place
    <2>3. Code[c] = 31 + Place(Ascii, c)
        BY DEF Code
    <2> QED
        BY <2>2, <2>3, AsciiIs, Zenon
<1>2. DOMAIN Code = ToSet(Ascii)
    BY DEF Code
<1>3. ASSUME NEW c \in ToSet(Ascii) PROVE Code[c] \in 0 .. 255
    BY <1>1
<1>4. ASSUME NEW c \in ToSet(Ascii), NEW d \in ToSet(Ascii), Code[c] = Code[d] PROVE c = d
    <2>1. PICK x \in 1 .. 95, y \in 1 .. 95 : x = Place(Ascii, c) /\ y = Place(Ascii, d)
        BY <1>1
    <2>2. 31 + x = 31 + y
        BY <1>1, <1>4, <2>1, Zenon
    <2>3. x = y
        BY <2>2
    <2> QED
        BY <1>1, <2>1, <2>3, Zenon
<1> QED
    BY <1>2, <1>3, <1>4, Zenon

LEMMA PrintIs ==
    /\ isprint("*") /\ ~isprint("nul") /\ ~isprint("\n") /\ ~isprint("\r")
<1>1. "*" \in ToSet(Ascii)
    <2>1. 11 \in 1 .. 95
        OBVIOUS
    <2> QED
        BY <2>1, AsciiIs, Zenon DEF ToSet
<1>2. ASSUME NEW c \in {"nul", "\n", "\r"} PROVE c \notin ToSet(Ascii)
    BY AsciiIs, Unprintable, Zenon DEF ToSet
<1> QED
    BY <1>1, <1>2, CodeIs, Zenon DEF isprint

(* A digit of the checksum. *)
LEMMA PlaceIs ==
    ASSUME NEW s, NEW n, DOMAIN s = 1 .. n, NEW c \in ToSet(s)
    PROVE  Place(s, c) \in 1 .. n /\ s[Place(s, c)] = c
<1>1. \E i \in DOMAIN s : s[i] = c
    BY Zenon DEF ToSet
<1> QED
    BY <1>1, Zenon DEF Place

LEMMA HexIs ==
    ASSUME NEW c
    PROVE  /\ hex2int(c) \in 0 .. 15 \cup {-1}
           /\ hex2int(c) # -1 => isprint(c) /\ c # "*"
<1>1. DOMAIN Digits = 1 .. 10 /\ DOMAIN Upper = 1 .. 6 /\ DOMAIN Lower = 1 .. 6
    BY DEF Digits, Upper, Lower
<1>2. DOMAIN Digit = ToSet(Digits) /\ \A d \in ToSet(Digits) : Digit[d] = Place(Digits, d) - 1
    BY DEF Digit
<1>3. CASE c \in ToSet(Digits)
    <2>1. PICK i \in 1 .. 10 : i = Place(Digits, c) /\ Digits[i] = c
        BY <1>1, <1>3, PlaceIs
    <2>2. hex2int(c) = i - 1
        BY <1>2, <1>3, <2>1 DEF hex2int, isdigit
    <2>3. c \in ToSet(Ascii) /\ c # "*"
        BY <2>1, DigitsPrint, Zenon
    <2> QED
        BY <2>2, <2>3, CodeIs DEF isprint
<1>4. CASE c \notin ToSet(Digits) /\ c \in ToSet(Upper)
    <2>1. PICK i \in 1 .. 6 : i = Place(Upper, c) /\ Upper[i] = c
        BY <1>1, <1>4, PlaceIs
    <2>2. hex2int(c) = i - 1 + 10
        BY <1>2, <1>4, <2>1 DEF hex2int, isdigit
    <2>3. c \in ToSet(Ascii) /\ c # "*"
        BY <2>1, UpperPrint, Zenon
    <2> QED
        BY <2>2, <2>3, CodeIs DEF isprint
<1>5. CASE c \notin ToSet(Digits) /\ c \notin ToSet(Upper) /\ c \in ToSet(Lower)
    <2>1. PICK i \in 1 .. 6 : i = Place(Lower, c) /\ Lower[i] = c
        BY <1>1, <1>5, PlaceIs
    <2>2. hex2int(c) = i - 1 + 10
        BY <1>2, <1>5, <2>1 DEF hex2int, isdigit
    <2>3. c \in ToSet(Ascii) /\ c # "*"
        BY <2>1, LowerPrint, Zenon
    <2> QED
        BY <2>2, <2>3, CodeIs DEF isprint
<1>6. CASE c \notin ToSet(Digits) /\ c \notin ToSet(Upper) /\ c \notin ToSet(Lower)
    <2>1. hex2int(c) = -1
        BY <1>2, <1>6 DEF hex2int, isdigit
    <2> QED
        BY <2>1
<1> QED
    BY <1>3, <1>4, <1>5, <1>6

(* The bits of a byte are those of one byte only. *)
Binary(n) ==
    ((n \div 1) % 2) + 2 * ((n \div 2) % 2) + 4 * ((n \div 4) % 2) + 8 * ((n \div 8) % 2)
      + 16 * ((n \div 16) % 2) + 32 * ((n \div 32) % 2) + 64 * ((n \div 64) % 2) + 128 * ((n \div 128) % 2)

LEMMA BinaryIs == ASSUME NEW n \in 0 .. 255 PROVE Binary(n) = n
    BY DEF Binary

Bit(n, w) == (n \div w) % 2 = 1

LEMMA BitsDiffer ==
    ASSUME NEW m \in 0 .. 255, NEW n \in 0 .. 255, Bits(m) = Bits(n)
    PROVE  m = n
<1>1. Weight[1] = 1 /\ Weight[2] = 2 /\ Weight[3] = 4 /\ Weight[4] = 8 /\ Weight[5] = 16 /\ Weight[6] = 32
      /\ Weight[7] = 64 /\ Weight[8] = 128
    BY DEF Weight
<1>2. ASSUME NEW b \in 1 .. 8 PROVE Bit(m, Weight[b]) <=> Bit(n, Weight[b])
    BY Zenon DEF Bits, Bit
<1>3. 1 \in 1 .. 8 /\ 2 \in 1 .. 8 /\ 3 \in 1 .. 8 /\ 4 \in 1 .. 8 /\ 5 \in 1 .. 8 /\ 6 \in 1 .. 8
      /\ 7 \in 1 .. 8 /\ 8 \in 1 .. 8
    OBVIOUS
<1>4. /\ (Bit(m, 1) <=> Bit(n, 1)) /\ (Bit(m, 2) <=> Bit(n, 2)) /\ (Bit(m, 4) <=> Bit(n, 4))
      /\ (Bit(m, 8) <=> Bit(n, 8)) /\ (Bit(m, 16) <=> Bit(n, 16)) /\ (Bit(m, 32) <=> Bit(n, 32))
      /\ (Bit(m, 64) <=> Bit(n, 64)) /\ (Bit(m, 128) <=> Bit(n, 128))
    BY <1>1, <1>2, <1>3
<1>5. ASSUME NEW w \in {1, 2, 4, 8, 16, 32, 64, 128}, Bit(m, w) <=> Bit(n, w)
      PROVE  (m \div w) % 2 = (n \div w) % 2
    BY <1>5 DEF Bit
<1>6. Binary(m) = Binary(n)
    BY <1>4, <1>5, Zenon DEF Binary
<1> QED
    BY <1>6, BinaryIs


-----------------------------------------------------------------------------
(***************************************************************************)
(* Induction.                                                              *)
(***************************************************************************)
LEMMA LessIsWellFounded ==
    \E R : IsWellFoundedOn(R, Nat) /\ \A a, b \in Nat : a < b => <<a, b>> \in R
<1>1. \A a, b \in Nat : a < b => <<a, b>> \in OpToRel(<, Nat)
    <2> SUFFICES ASSUME NEW a \in Nat, NEW b \in Nat, a < b
                 PROVE  <<a, b>> \in OpToRel(<, Nat)
        BY Zenon
    <2>1. <<a, b>> \in Nat \X Nat /\ <<a, b>>[1] < <<a, b>>[2]
        OBVIOUS
    <2> QED
        BY <2>1, Zenon DEF OpToRel
<1> QED
    BY <1>1, NatLessThanWellFounded, Zenon

\* A set of naturals that is not empty has a least element.
LEMMA LeastElement ==
    ASSUME NEW T, T \subseteq Nat, T # {}
    PROVE  \E i \in T : \A j \in T : i <= j
<1>1. PICK R : IsWellFoundedOn(R, Nat) /\ \A a, b \in Nat : a < b => <<a, b>> \in R
    BY LessIsWellFounded, Zenon
<1>2. IsWellFoundedOn(R, Nat)
    BY <1>1, Zenon
<1>3. PICK i \in T : \A j \in T : ~ (<<j, i>> \in R)
    BY <1>2, WFMin, Zenon
<1>4. ASSUME NEW j \in T PROVE i <= j
    <2>1. i \in Nat /\ j \in Nat
        OBVIOUS
    <2>2. ~ (j < i)
        BY <1>1, <1>3, <2>1, Zenon
    <2> QED
        BY <2>1, <2>2
<1> QED
    BY <1>4

\* Induction: a set that holds 0 and with every number the next one.
LEMMA Inductive ==
    ASSUME NEW T, 0 \in T, \A i \in Nat : i \in T => i + 1 \in T
    PROVE  \A i \in Nat : i \in T
<1> DEFINE U == {i \in Nat : i \notin T}
<1> SUFFICES ASSUME U # {} PROVE FALSE
    OBVIOUS
<1>1. PICK m \in U : \A j \in U : m <= j
    <2>1. U \subseteq Nat
        OBVIOUS
    <2> QED
        BY <2>1, LeastElement
<1>2. m \in Nat /\ m # 0 /\ m \notin T
    OBVIOUS
<1>3. m - 1 \in Nat /\ (m - 1) + 1 = m /\ ~ (m <= m - 1)
    BY <1>2
<1>4. m - 1 \in T
    BY <1>1, <1>3
<1> QED
    BY <1>2, <1>3, <1>4


\* Fields with commas between them.
Glyphs == STRING \cup {","}
Glue(a, b) == a \o <<",">> \o b

LEMMA OneOf == ASSUME NEW V, NEW x \in V PROVE <<x>> \in Seq(V)
    OBVIOUS

LEMMA SeqMore == ASSUME NEW V, NEW W, V \subseteq W, NEW x \in Seq(V) PROVE x \in Seq(W)
<1>1. Len(x) \in Nat /\ x = [i \in 1 .. Len(x) |-> x[i]] /\ \A i \in 1 .. Len(x) : x[i] \in W
    OBVIOUS
<1>2. x \in [1 .. Len(x) -> W]
    BY <1>1
<1> QED
    BY <1>1, <1>2

LEMMA Glued == ASSUME NEW a \in Seq(Glyphs), NEW b \in Seq(Glyphs) PROVE Glue(a, b) \in Seq(Glyphs)
<1>1. "," \in Glyphs
    BY DEF Glyphs
<1>2. <<",">> \in Seq(Glyphs)
    BY <1>1, OneOf, Zenon
<1>3. a \o <<",">> \in Seq(Glyphs)
    BY <1>2, ConcatProperties
<1> QED
    BY <1>3, ConcatProperties DEF Glue

LEMMA Woven ==
    ASSUME NEW X, \A a, b \in X : Glue(a, b) \in X, NEW n \in Nat, 1 <= n, NEW P, \A i \in 1 .. n : P[i] \in X
    PROVE  (CHOOSE g : g = [i \in 1 .. n |-> IF i = 1 THEN P[1] ELSE Glue(g[i - 1], P[i])])[n] \in X
<1> DEFINE Good(f, k) ==
              f \in [1 .. k -> X] /\ \A i \in 1 .. k : f[i] = IF i = 1 THEN P[1] ELSE Glue(f[i - 1], P[i])
           T == {k \in Nat : k + 1 <= n => \E f : Good(f, k + 1)}
<1>1. 0 \in T
    <2> DEFINE f == [i \in 1 .. 0 + 1 |-> P[1]]
    <2>1. f \in [1 .. 0 + 1 -> X]
        OBVIOUS
    <2>2. \A i \in 1 .. 0 + 1 : f[i] = IF i = 1 THEN P[1] ELSE Glue(f[i - 1], P[i])
        OBVIOUS
    <2> HIDE DEF f
    <2> QED
        BY <2>1, <2>2
<1>2. ASSUME NEW k \in Nat, k \in T PROVE k + 1 \in T
    <2> SUFFICES ASSUME (k + 1) + 1 <= n PROVE \E g : Good(g, (k + 1) + 1)
        OBVIOUS
    <2>1. PICK m \in Nat : m = k + 1 /\ m <= n /\ m + 1 <= n /\ 1 <= m
        OBVIOUS
    <2>2. PICK f : Good(f, m)
        BY <1>2, <2>1
    <2>3. f \in [1 .. m -> X] /\ f[m] \in X /\ P[m + 1] \in X
        <3>1. m \in 1 .. m /\ m + 1 \in 1 .. n
            BY <2>1
        <3> QED
            BY <2>2, <3>1
    <2> DEFINE g == [i \in 1 .. m + 1 |-> IF i <= m THEN f[i] ELSE Glue(f[m], P[m + 1])]
    <2>4. Glue(f[m], P[m + 1]) \in X
        BY <2>3
    <2>5. g \in [1 .. m + 1 -> X]
        <3>1. ASSUME NEW i \in 1 .. m + 1 PROVE (IF i <= m THEN f[i] ELSE Glue(f[m], P[m + 1])) \in X
            BY <2>3, <2>4
        <3> QED
            BY <3>1
    <2>6. ASSUME NEW i \in 1 .. m + 1 PROVE g[i] = IF i = 1 THEN P[1] ELSE Glue(g[i - 1], P[i])
        <3>1. CASE i = 1
            <4>1. i \in 1 .. m /\ g[i] = f[i]
                BY <2>1, <3>1
            <4> QED
                BY <2>2, <3>1, <4>1
        <3>2. CASE i # 1 /\ i <= m
            <4>1. i \in 1 .. m /\ g[i] = f[i] /\ g[i - 1] = f[i - 1]
                BY <3>2
            <4> QED
                BY <2>2, <3>2, <4>1
        <3>3. CASE i = m + 1
            <4>1. g[i] = Glue(f[m], P[m + 1]) /\ i - 1 = m /\ g[m] = f[m] /\ i # 1
                BY <2>1, <3>3
            <4> QED
                BY <3>3, <4>1
        <3> QED
            BY <3>1, <3>2, <3>3
    <2> HIDE DEF g
    <2>7. Good(g, m + 1)
        BY <2>5, <2>6
    <2> QED
        BY <2>1, <2>7
<1>3. \E f : Good(f, n)
    <2>1. n - 1 \in Nat /\ (n - 1) + 1 = n
        OBVIOUS
    <2> HIDE DEF Good
    <2>2. n - 1 \in T
        <3> HIDE DEF T
        <3> QED
            BY <1>1, <1>2, <2>1, Inductive
    <2> QED
        BY <2>1, <2>2
<1> DEFINE F(g) == [i \in 1 .. n |-> IF i = 1 THEN P[1] ELSE Glue(g[i - 1], P[i])]
           upto == CHOOSE g : g = F(g)
<1>4. \E f : f = F(f)
    <2>1. PICK f : Good(f, n)
        BY <1>3
    <2>2. f = F(f)
        BY <2>1
    <2> QED
        BY <2>2, Zenon
<1>5. upto = F(upto)
    <2> HIDE DEF F
    <2> QED
        BY <1>4, Zenon
<1> HIDE DEF upto
<1>6. \A i \in 1 .. n : upto[i] = IF i = 1 THEN P[1] ELSE Glue(upto[i - 1], P[i])
    BY <1>5
<1> HIDE DEF F, Good, T
<1> DEFINE U == {k \in Nat : k + 1 <= n => upto[k + 1] \in X}
<1>7. 0 \in U
    <2>1. 1 \in 1 .. n /\ 0 + 1 = 1
        OBVIOUS
    <2> QED
        BY <1>6, <2>1
<1>8. ASSUME NEW k \in Nat, k \in U PROVE k + 1 \in U
    <2> SUFFICES ASSUME (k + 1) + 1 <= n PROVE upto[(k + 1) + 1] \in X
        OBVIOUS
    <2>1. PICK m \in 1 .. n : m = (k + 1) + 1 /\ m # 1 /\ m - 1 = k + 1 /\ k + 1 <= n
        OBVIOUS
    <2>2. upto[m - 1] \in X /\ P[m] \in X
        BY <1>8, <2>1
    <2>3. upto[m] = Glue(upto[m - 1], P[m])
        BY <1>6, <2>1
    <2> QED
        BY <2>1, <2>2, <2>3
<1>9. upto[n] \in X
    <2>1. n - 1 \in Nat /\ (n - 1) + 1 = n
        OBVIOUS
    <2>2. n - 1 \in U
        <3> HIDE DEF U
        <3> QED
            BY <1>7, <1>8, <2>1, Inductive
    <2> QED
        BY <2>1, <2>2
<1> QED
    BY <1>9 DEF upto, F

LEMMA TextIs == ASSUME NEW s \in Calls PROVE Text(s) \in Seq(Glyphs)
<1> DEFINE X == Seq(Glyphs)
           P == s.fields
           n == Len(P)
           upto == CHOOSE g : g = [i \in 1 .. n |-> IF i = 1 THEN P[1] ELSE Glue(g[i - 1], P[i])]
<1>1. n \in Nat /\ 1 <= n /\ P \in Seq(Seq(STRING)) /\ s.tail \in Seq(STRING)
    BY CallIs
<1>2. \A x \in Seq(STRING) : x \in X
    <2>1. STRING \subseteq Glyphs
        BY DEF Glyphs
    <2> QED
        BY <2>1, SeqMore
<1>3. \A i \in 1 .. n : P[i] \in X
    BY <1>1, <1>2
<1>4. \A a, b \in X : Glue(a, b) \in X
    BY Glued
<1>5. Text(s) = upto[n] \o s.tail
    BY DEF Text, Glue
<1> HIDE DEF X, P, n
<1>6. upto[n] \in X
    BY <1>1, <1>3, <1>4, Woven
<1> HIDE DEF upto
<1> QED
    BY <1>1, <1>2, <1>5, <1>6, ConcatProperties DEF X


-----------------------------------------------------------------------------
(***************************************************************************)
(* The checksum and what stands around it.                                 *)
(***************************************************************************)
(* With one character changed, some bit is in one character more or less. *)
LEMMA SumDiffers ==
    ASSUME NEW s \in Seq(ToSet(Ascii)), NEW j \in 1 .. Len(s), NEW c \in ToSet(Ascii), c # s[j]
    PROVE  minmea_checksum([s EXCEPT ![j] = c]) # minmea_checksum(s)
<1> DEFINE u == [s EXCEPT ![j] = c]
           D == 1 .. Len(s)
           In(w, b) == {i \in D : b \in Bits(Code[w[i]])}
<1>1. /\ s[j] \in ToSet(Ascii) /\ DOMAIN s = D /\ DOMAIN u = D /\ u[j] = c /\ \A i \in D : i # j => u[i] = s[i]
      /\ Len(s) \in Nat
    OBVIOUS
<1>2. Code[c] \in 0 .. 255 /\ Code[s[j]] \in 0 .. 255 /\ Code[c] # Code[s[j]]
    BY <1>1, CodeIs
<1> HIDE DEF u
<1>3. PICK b \in 1 .. 8 : b \in Bits(Code[c]) <=> b \notin Bits(Code[s[j]])
    <2>1. Bits(Code[c]) # Bits(Code[s[j]])
        BY <1>2, BitsDiffer
    <2>2. Bits(Code[c]) \subseteq 1 .. 8 /\ Bits(Code[s[j]]) \subseteq 1 .. 8
        BY Zenon DEF Bits
    <2> HIDE DEF u
    <2> QED
        BY <2>1, <2>2, Zenon
<1>4. IsFiniteSet(D)
    BY <1>1, FS_Interval
<1>5. /\ b \in minmea_checksum(s) <=> Cardinality(In(s, b)) % 2 = 1
      /\ b \in minmea_checksum(u) <=> Cardinality(In(u, b)) % 2 = 1
    BY <1>1, Zenon DEF minmea_checksum
<1>6. /\ In(s, b) \subseteq D /\ In(u, b) \subseteq D
      /\ \A i \in D : i # j => (i \in In(s, b) <=> i \in In(u, b))
      /\ j \in In(s, b) <=> j \notin In(u, b)
    BY <1>1, <1>3
<1> HIDE DEF In, D
<1>7. IsFiniteSet(In(s, b)) /\ IsFiniteSet(In(u, b))
    BY <1>4, <1>6, FS_Subset
<1>8. PICK x \in Nat, y \in Nat : x = Cardinality(In(s, b)) /\ y = Cardinality(In(u, b))
    BY <1>7, FS_CardinalityType
<1>9. x = y + 1 \/ y = x + 1
    <2>1. CASE j \in In(s, b)
        <3>1. In(s, b) = In(u, b) \cup {j} /\ j \notin In(u, b)
            BY <1>6, <2>1
        <3> QED
            BY <1>7, <1>8, <3>1, FS_AddElement
    <2>2. CASE j \notin In(s, b)
        <3>1. In(u, b) = In(s, b) \cup {j}
            BY <1>6, <2>2
        <3> QED
            BY <1>7, <1>8, <2>2, <3>1, FS_AddElement
    <2> QED
        BY <2>1, <2>2
<1>10. x % 2 = 1 <=> ~(y % 2 = 1)
    BY <1>9
<1> QED
    BY <1>5, <1>8, <1>10, Zenon DEF u

(* Where the body ends. *)
Stops(t, k) == At(t, k) = "*" \/ ~isprint(At(t, k))
Ends(t, e) == e \in 2 .. Len(t) + 1 /\ Stops(t, e) /\ \A i \in 2 .. e - 1 : ~Stops(t, i)

LEMMA AtIs ==
    ASSUME NEW V, NEW t \in Seq(V), NEW k \in Int
    PROVE  At(t, k) = IF 1 <= k /\ k <= Len(t) THEN t[k] ELSE "nul"
    BY DEF At

LEMMA EndChosen ==
    ASSUME NEW V, NEW t \in Seq(V)
    PROVE  BodyEnd(t) = CHOOSE e : Ends(t, e)
<1>1. ASSUME NEW e \in 2 .. Len(t) + 1
      PROVE  (/\ At(t, e) = "*" \/ ~isprint(At(t, e))
              /\ \A i \in 2 .. e - 1 : t[i] # "*" /\ isprint(t[i])) <=> Ends(t, e)
    <2>1. ASSUME NEW i \in 2 .. e - 1 PROVE At(t, i) = t[i]
        BY AtIs
    <2> QED
        BY <2>1, Zenon DEF Ends, Stops
<1>2. \A e : e \in 2 .. Len(t) + 1 /\ (/\ At(t, e) = "*" \/ ~isprint(At(t, e))
                                      /\ \A i \in 2 .. e - 1 : t[i] # "*" /\ isprint(t[i])) <=> Ends(t, e)
    BY <1>1, Zenon DEF Ends
<1> QED
    BY <1>2, Zenon DEF BodyEnd

LEMMA EndOnly ==
    ASSUME NEW V, NEW t \in Seq(V), NEW d, NEW e, Ends(t, d), Ends(t, e)
    PROVE  d = e
<1>1. d \in Int /\ e \in Int /\ 2 <= d /\ 2 <= e
    BY DEF Ends
<1>2. ~(d < e)
    <2> SUFFICES ASSUME d < e PROVE FALSE
        OBVIOUS
    <2>1. d \in 2 .. e - 1
        BY <1>1
    <2> QED
        BY <2>1, Zenon DEF Ends
<1>3. ~(e < d)
    <2> SUFFICES ASSUME e < d PROVE FALSE
        OBVIOUS
    <2>1. e \in 2 .. d - 1
        BY <1>1
    <2> QED
        BY <2>1, Zenon DEF Ends
<1> QED
    BY <1>1, <1>2, <1>3

LEMMA EndIs ==
    ASSUME NEW V, NEW t \in Seq(V), NEW e, Ends(t, e)
    PROVE  BodyEnd(t) = e
    BY EndChosen, EndOnly, Zenon

LEMMA EndExists ==
    ASSUME NEW V, NEW t \in Seq(V), 1 <= Len(t)
    PROVE  Ends(t, BodyEnd(t))
<1> DEFINE T == {k \in 2 .. Len(t) + 1 : Stops(t, k)}
<1>1. Len(t) + 1 \in T
    <2>1. Len(t) + 1 \in 2 .. Len(t) + 1
        OBVIOUS
    <2>2. At(t, Len(t) + 1) = "nul"
        BY AtIs
    <2> QED
        BY <2>1, <2>2, PrintIs DEF Stops
<1>2. T \subseteq Nat /\ T # {}
    BY <1>1
<1>3. PICK e \in T : \A j \in T : e <= j
    BY <1>2, LeastElement
<1>4. Ends(t, e)
    <2>1. ASSUME NEW i \in 2 .. e - 1 PROVE ~Stops(t, i)
        <3>1. i \in 2 .. Len(t) + 1 /\ ~(e <= i)
            OBVIOUS
        <3> QED
            BY <1>3, <3>1
    <2> QED
        BY <2>1 DEF Ends
<1> QED
    BY <1>4, EndIs, Zenon

\* What the strict check has seen of a sentence whose body ends at e.
Tails == {<<>>, <<"\n">>, <<"\r", "\n">>}
Passed(t, e) ==
    /\ Ends(t, e) /\ At(t, 1) = "$" /\ At(t, e) = "*"
    /\ hex2int(At(t, e + 1)) # -1 /\ hex2int(At(t, e + 2)) # -1
    /\ minmea_checksum(SubSeq(t, 2, e - 1)) = Bits(16 * hex2int(At(t, e + 1)) + hex2int(At(t, e + 2)))
    /\ SubSeq(t, e + 3, Len(t)) \in Tails

LEMMA PassedIs ==
    ASSUME NEW V, NEW t \in Seq(V), minmea_check(t, TRUE)
    PROVE  Passed(t, BodyEnd(t))
<1>1. At(t, 1) = "$"
    BY Zenon DEF minmea_check
<1>2. 1 <= Len(t)
    BY <1>1, AtIs
<1>3. Ends(t, BodyEnd(t))
    BY <1>2, EndExists
<1> DEFINE e == BodyEnd(t)
<1> HIDE DEF e
<1>4. At(t, e) = "*"
    BY Zenon DEF minmea_check, e
<1>5. /\ hex2int(At(t, e + 1)) # -1 /\ hex2int(At(t, e + 2)) # -1
      /\ minmea_checksum(SubSeq(t, 2, e - 1)) = Bits(16 * hex2int(At(t, e + 1)) + hex2int(At(t, e + 2)))
      /\ SubSeq(t, e + 3, Len(t)) \in Tails
    BY <1>4, Zenon DEF minmea_check, e, Tails
<1> QED
    BY <1>1, <1>3, <1>4, <1>5, Zenon DEF Passed, e


(* The lengths of what may follow the checksum, and what it begins with. *)
LEMMA TailIs ==
    ASSUME NEW x \in Tails
    PROVE  /\ Len(x) \in 0 .. 2
           /\ Len(x) >= 1 => x[1] \in {"\n", "\r"}
<1>1. CASE x = <<>>
    BY <1>1
<1>2. CASE x = <<"\n">>
    BY <1>2
<1>3. CASE x = <<"\r", "\n">>
    BY <1>3
<1> QED
    BY <1>1, <1>2, <1>3, Zenon DEF Tails

LEMMA TailsEqual == ASSUME NEW x \in Tails, NEW y \in Tails, Len(x) = Len(y) PROVE x = y
<1>1. Len(<<>>) = 0 /\ Len(<<"\n">>) = 1 /\ Len(<<"\r", "\n">>) = 2
    OBVIOUS
<1> DEFINE a == <<"\n">>
           b == <<"\r", "\n">>
           o == <<>>
<1>2. (x = o \/ x = a \/ x = b) /\ (y = o \/ y = a \/ y = b)
    BY Zenon DEF Tails
<1>3. Len(o) = 0 /\ Len(a) = 1 /\ Len(b) = 2
    BY <1>1
<1> HIDE DEF a, b, o
<1>4. CASE x = o
    BY <1>2, <1>3, <1>4
<1>5. CASE x = a
    BY <1>2, <1>3, <1>5
<1>6. CASE x = b
    BY <1>2, <1>3, <1>6
<1> QED
    BY <1>2, <1>4, <1>5, <1>6

LEMMA BodyIs ==
    ASSUME NEW V, NEW t \in Seq(V), NEW e \in Nat, 2 <= e, e <= Len(t)
    PROVE  /\ SubSeq(t, 2, e - 1) \in Seq(V) /\ Len(SubSeq(t, 2, e - 1)) = e - 2
           /\ \A k \in 1 .. e - 2 : SubSeq(t, 2, e - 1)[k] = t[k + 1]
    OBVIOUS

(* What is known of a sentence that passed. *)
LEMMA Extent ==
    ASSUME NEW V, NEW t \in Seq(V), NEW e, Passed(t, e)
    PROVE  /\ e \in Nat /\ 2 <= e /\ e + 2 <= Len(t) /\ Len(t) <= e + 4
           /\ isprint(At(t, e + 1)) /\ At(t, e + 1) # "*" /\ isprint(At(t, e + 2)) /\ At(t, e + 2) # "*"
           /\ ~isprint(At(t, e + 3))
<1>1. e \in Nat /\ 2 <= e /\ e <= Len(t) + 1 /\ Len(t) \in Nat
    BY DEF Passed, Ends
<1>2. isprint(At(t, e + 1)) /\ At(t, e + 1) # "*" /\ isprint(At(t, e + 2)) /\ At(t, e + 2) # "*"
    BY HexIs, Zenon DEF Passed
<1>3. e + 2 <= Len(t)
    <2>1. At(t, e + 2) # "nul"
        BY <1>2, PrintIs
    <2>2. e + 2 \in Int
        BY <1>1
    <2> QED
        BY <1>1, <2>1, <2>2, AtIs
<1> DEFINE x == SubSeq(t, e + 3, Len(t))
<1>4. Len(x) = Len(t) - (e + 2) /\ \A i \in 1 .. Len(t) - (e + 2) : x[i] = t[e + 2 + i]
    BY <1>1, <1>3
<1>5. x \in Tails
    BY DEF Passed
<1> HIDE DEF x
<1>6. Len(t) <= e + 4
    <2>1. Len(x) <= 2
        <3>1. Len(x) \in 0 .. 2
            BY <1>5, TailIs
        <3> QED
            BY <3>1
    <2> QED
        BY <1>1, <1>4, <2>1
<1>7. ~isprint(At(t, e + 3))
    <2>1. CASE Len(t) = e + 2
        <3>1. At(t, e + 3) = "nul"
            BY <1>1, <2>1, AtIs
        <3> QED
            BY <3>1, PrintIs
    <2>2. CASE Len(t) # e + 2
        <3>1. 1 \in 1 .. Len(t) - (e + 2) /\ e + 2 + 1 = e + 3 /\ Len(x) >= 1 /\ e + 3 \in Int
              /\ 1 <= e + 3 /\ e + 3 <= Len(t)
            BY <1>1, <1>3, <1>4, <2>2
        <3>2. At(t, e + 3) = t[e + 3]
            BY <3>1, AtIs
        <3>3. x[1] = t[e + 3] /\ x[1] \in {"\n", "\r"}
            BY <1>4, <1>5, <3>1, TailIs
        <3> QED
            BY <3>2, <3>3, PrintIs
    <2> QED
        BY <2>1, <2>2
<1> QED
    BY <1>1, <1>2, <1>3, <1>6, <1>7

(***************************************************************************)
(* Two sentences that differ in one place and both pass: it is a digit of  *)
(* the checksum, in the other case.                                        *)
(***************************************************************************)
LEMMA OneOfThem ==
    ASSUME NEW V, NEW t \in Seq(V), NEW i \in 1 .. Len(t), NEW c \in V,
           NEW e, Passed(t, e), NEW d, Passed([t EXCEPT ![i] = c], d)
    PROVE  c = t[i] \/ (i > e /\ SameDigit(c, t[i]))
<1> DEFINE u == [t EXCEPT ![i] = c]
<1>1. u \in Seq(V) /\ Len(u) = Len(t) /\ u[i] = c /\ \A k \in 1 .. Len(t) : k # i => u[k] = t[k]
    OBVIOUS
<1>2. Passed(u, d)
    OBVIOUS
<1> HIDE DEF u
<1>3. PICK n \in Nat : n = Len(t) /\ n = Len(u)
    BY <1>1
<1>4. /\ e \in Nat /\ 2 <= e /\ e + 2 <= n /\ n <= e + 4
      /\ isprint(At(t, e + 1)) /\ At(t, e + 1) # "*" /\ isprint(At(t, e + 2)) /\ At(t, e + 2) # "*"
      /\ ~isprint(At(t, e + 3))
    BY <1>3, Extent
<1>5. /\ d \in Nat /\ 2 <= d /\ d + 2 <= n /\ n <= d + 4
      /\ isprint(At(u, d + 1)) /\ At(u, d + 1) # "*" /\ isprint(At(u, d + 2)) /\ At(u, d + 2) # "*"
    BY <1>1, <1>2, <1>3, Extent
<1>6. At(t, i) = t[i] /\ At(u, i) = c /\ \A k \in Int : k # i => At(u, k) = At(t, k)
    <2>1. At(t, i) = t[i] /\ At(u, i) = c
        BY <1>1, AtIs
    <2>2. ASSUME NEW k \in Int, k # i PROVE At(u, k) = At(t, k)
        BY <1>1, <2>2, AtIs
    <2> QED
        BY <2>1, <2>2
<1>7. \A k \in Int : k # i => (Stops(u, k) <=> Stops(t, k))
    BY <1>6, Zenon DEF Stops
<1>8. Ends(t, e) /\ Ends(u, d) /\ At(t, e) = "*" /\ At(u, d) = "*"
    BY <1>2, Zenon DEF Passed
<1>9. Stops(t, e) /\ \A k \in 2 .. e - 1 : ~Stops(t, k)
    BY <1>8, Zenon DEF Ends
<1>10. ASSUME i # e, i < e => ~Stops(u, i) PROVE d = e
    <2>1. e \in 2 .. Len(u) + 1 /\ e \in Int
        BY <1>3, <1>4
    <2>2. Stops(u, e)
        BY <1>7, <1>9, <1>10, <2>1
    <2>3. ASSUME NEW k \in 2 .. e - 1 PROVE ~Stops(u, k)
        <3>1. CASE k # i
            BY <1>7, <1>9, <3>1
        <3>2. CASE k = i
            <4>1. i < e
                BY <1>4, <3>2
            <4> QED
                BY <1>10, <4>1, <3>2
        <3> QED
            BY <3>1, <3>2
    <2>4. Ends(u, e)
        BY <2>1, <2>2, <2>3 DEF Ends
    <2> QED
        BY <1>1, <1>8, <2>4, EndOnly
<1>11. CASE i = 1
    <2>1. At(t, 1) = "$" /\ At(u, 1) = "$"
        BY <1>2, Zenon DEF Passed
    <2> QED
        BY <1>6, <1>11, <2>1
<1>12. CASE 1 < i /\ i < e /\ Stops(u, i)
    <2>1. d = i
        <3>1. i \in 2 .. Len(u) + 1
            BY <1>3, <1>4, <1>12
        <3>2. ASSUME NEW k \in 2 .. i - 1 PROVE ~Stops(u, k)
            <4>1. k \in 2 .. e - 1 /\ k # i
                BY <1>4, <1>12
            <4> QED
                BY <1>7, <1>9, <4>1
        <3>3. Ends(u, i)
            BY <1>12, <3>1, <3>2 DEF Ends
        <3> QED
            BY <1>1, <1>8, <3>3, EndOnly
    <2>2. At(u, e) = "*"
        BY <1>4, <1>6, <1>8, <1>12
    <2>3. e = d + 1 \/ e = d + 2
        BY <1>4, <1>5, <1>12, <2>1
    <2> QED
        BY <1>5, <2>2, <2>3
<1>13. CASE 1 < i /\ i < e /\ ~Stops(u, i)
    <2>1. d = e
        BY <1>10, <1>13
    <2> DEFINE s == SubSeq(t, 2, e - 1)
               w == SubSeq(u, 2, e - 1)
               j == i - 1
    <2>2. s \in Seq(V) /\ Len(s) = e - 2 /\ \A k \in 1 .. e - 2 : s[k] = t[k + 1]
        <3>1. e <= Len(t)
            BY <1>3, <1>4
        <3> QED
            BY <1>4, <3>1, BodyIs
    <2>3. w \in Seq(V) /\ Len(w) = e - 2 /\ \A k \in 1 .. e - 2 : w[k] = u[k + 1]
        <3>1. e <= Len(u)
            BY <1>3, <1>4
        <3> QED
            BY <1>1, <1>4, <3>1, BodyIs
    <2> HIDE DEF s, w
    <2>4. j \in 1 .. e - 2 /\ j + 1 = i
        BY <1>4, <1>13
    <2>5. ASSUME NEW k \in 1 .. e - 2 PROVE s[k] \in ToSet(Ascii)
        <3>1. k + 1 \in 2 .. e - 1 /\ k + 1 \in Int /\ 1 <= k + 1 /\ k + 1 <= Len(t)
            BY <1>3, <1>4
        <3>2. At(t, k + 1) = t[k + 1]
            BY <3>1, AtIs
        <3>3. isprint(At(t, k + 1))
            BY <1>9, <3>1, Zenon DEF Stops
        <3> QED
            BY <2>2, <3>2, <3>3, CodeIs DEF isprint
    <2>6. s \in Seq(ToSet(Ascii))
        <3>1. Len(s) \in Nat /\ s = [k \in 1 .. Len(s) |-> s[k]] /\ \A k \in 1 .. Len(s) : s[k] \in ToSet(Ascii)
            BY <2>2, <2>5
        <3>2. s \in [1 .. Len(s) -> ToSet(Ascii)]
            BY <3>1
        <3> QED
            BY <3>1, <3>2
    <2>7. c \in ToSet(Ascii)
        BY <1>6, <1>13, CodeIs DEF Stops, isprint
    <2>8. w = [s EXCEPT ![j] = c]
        <3> DEFINE x == [s EXCEPT ![j] = c]
        <3>1. x \in Seq(V) /\ Len(x) = e - 2 /\ x[j] = c /\ \A k \in 1 .. e - 2 : k # j => x[k] = s[k]
            BY <2>2, <2>4
        <3> HIDE DEF x, j
        <3>2. ASSUME NEW k \in 1 .. e - 2 PROVE w[k] = x[k]
            <4>1. CASE k = j
                BY <1>1, <2>3, <2>4, <3>1, <4>1
            <4>2. CASE k # j
                <5>1. k + 1 \in 1 .. Len(t) /\ k + 1 # i
                    BY <1>3, <1>4, <2>4, <4>2
                <5> QED
                    BY <1>1, <2>2, <2>3, <3>1, <4>2, <5>1
            <4> QED
                BY <4>1, <4>2
        <3>3. w = x
            BY <2>3, <3>1, <3>2
        <3> QED
            BY <3>3 DEF x
    <2>9. minmea_checksum(w) = minmea_checksum(s)
        <3>1. At(u, e + 1) = At(t, e + 1) /\ At(u, e + 2) = At(t, e + 2)
            BY <1>4, <1>6, <1>13
        <3> QED
            BY <1>2, <2>1, <3>1, Zenon DEF Passed, s, w
    <2>10. c = s[j]
        <3>1. j \in 1 .. Len(s)
            BY <2>2, <2>4
        <3> QED
            BY <2>6, <2>7, <2>8, <2>9, <3>1, SumDiffers
    <2> QED
        BY <2>2, <2>4, <2>10
<1>14. CASE i = e
    <2> SUFFICES ASSUME c # t[i] PROVE FALSE
        OBVIOUS
    <2>1. c # "*"
        BY <1>6, <1>8, <1>14
    <2>2. d # e
        BY <1>6, <1>8, <1>14, <2>1
    <2>3. ~Stops(u, e)
        <3> SUFFICES ASSUME Stops(u, e) PROVE FALSE
            OBVIOUS
        <3>1. e \in 2 .. Len(u) + 1
            BY <1>3, <1>4
        <3>2. ASSUME NEW k \in 2 .. e - 1 PROVE ~Stops(u, k)
            BY <1>7, <1>9, <1>14
        <3>3. Ends(u, e)
            BY <3>1, <3>2 DEF Ends
        <3> QED
            BY <1>1, <1>8, <2>2, <3>3, EndOnly
    <2>4. ~Stops(u, e + 1) /\ ~Stops(u, e + 2)
        BY <1>4, <1>6, <1>14 DEF Stops
    <2>5. Stops(u, e + 3) /\ At(u, e + 3) # "*"
        <3>1. At(u, e + 3) = At(t, e + 3)
            BY <1>4, <1>6, <1>14
        <3> QED
            BY <1>4, <3>1, PrintIs DEF Stops
    <2>6. Ends(u, e + 3)
        <3>1. e + 3 \in 2 .. Len(u) + 1
            BY <1>3, <1>4
        <3>2. ASSUME NEW k \in 2 .. (e + 3) - 1 PROVE ~Stops(u, k)
            <4>1. CASE k < e
                <5>1. k \in 2 .. e - 1 /\ k # i
                    BY <1>4, <1>14, <4>1
                <5> QED
                    BY <1>7, <1>9, <5>1
            <4>2. CASE ~(k < e)
                <5>1. k = e \/ k = e + 1 \/ k = e + 2
                    BY <1>4, <4>2
                <5> QED
                    BY <2>3, <2>4, <5>1
            <4> QED
                BY <4>1, <4>2
        <3> QED
            BY <2>5, <3>1, <3>2 DEF Ends
    <2>7. d = e + 3
        BY <1>1, <1>8, <2>6, EndOnly
    <2> QED
        BY <1>8, <2>5, <2>7
<1>15. CASE i = e + 1 \/ i = e + 2
    <2>1. d = e
        BY <1>4, <1>10, <1>15
    <2>2. SubSeq(u, 2, e - 1) = SubSeq(t, 2, e - 1)
        <3> DEFINE s == SubSeq(t, 2, e - 1)
                   w == SubSeq(u, 2, e - 1)
        <3>1. s \in Seq(V) /\ Len(s) = e - 2 /\ \A k \in 1 .. e - 2 : s[k] = t[k + 1]
            <4>1. e <= Len(t)
                BY <1>3, <1>4
            <4> QED
                BY <1>4, <4>1, BodyIs
        <3>2. w \in Seq(V) /\ Len(w) = e - 2 /\ \A k \in 1 .. e - 2 : w[k] = u[k + 1]
            <4>1. e <= Len(u)
                BY <1>3, <1>4
            <4> QED
                BY <1>1, <1>4, <4>1, BodyIs
        <3> HIDE DEF s, w
        <3>3. ASSUME NEW k \in 1 .. e - 2 PROVE w[k] = s[k]
            <4>1. k + 1 \in 1 .. Len(t) /\ k + 1 # i
                BY <1>3, <1>4, <1>15
            <4> QED
                BY <1>1, <3>1, <3>2, <4>1
        <3>4. w = s
            BY <3>1, <3>2, <3>3
        <3> QED
            BY <3>4 DEF s, w
    <2>3. PICK a \in 0 .. 15, b \in 0 .. 15 : a = hex2int(At(t, e + 1)) /\ b = hex2int(At(t, e + 2))
        BY HexIs DEF Passed
    <2>4. PICK x \in 0 .. 15, y \in 0 .. 15 : x = hex2int(At(u, e + 1)) /\ y = hex2int(At(u, e + 2))
        BY <1>2, <2>1, HexIs DEF Passed
    <2>5. Bits(16 * a + b) = Bits(16 * x + y)
        BY <1>2, <2>1, <2>2, <2>3, <2>4, Zenon DEF Passed
    <2>6. 16 * a + b = 16 * x + y
        <3>1. 16 * a + b \in 0 .. 255 /\ 16 * x + y \in 0 .. 255
            OBVIOUS
        <3> QED
            BY <2>5, <3>1, BitsDiffer
    <2>7. a = x /\ b = y
        BY <2>6
    <2>8. hex2int(c) = hex2int(t[i]) /\ hex2int(c) # -1
        <3>1. CASE i = e + 1
            <4>1. hex2int(c) = x /\ hex2int(t[i]) = a /\ x # -1
                BY <1>6, <2>3, <2>4, <3>1
            <4> QED
                BY <2>7, <4>1
        <3>2. CASE i = e + 2
            <4>1. hex2int(c) = y /\ hex2int(t[i]) = b /\ y # -1
                BY <1>6, <2>3, <2>4, <3>2
            <4> QED
                BY <2>7, <4>1
        <3> QED
            BY <1>15, <3>1, <3>2
    <2>9. i > e
        BY <1>4, <1>15
    <2> QED
        BY <2>8, <2>9, Zenon DEF SameDigit
<1>16. CASE i >= e + 3
    <2>1. d = e
        BY <1>4, <1>10, <1>16
    <2> DEFINE x == SubSeq(t, e + 3, Len(t))
               y == SubSeq(u, e + 3, Len(u))
    <2>2. Len(x) = n - (e + 2) /\ \A k \in 1 .. n - (e + 2) : x[k] = t[e + 2 + k]
        BY <1>3, <1>4
    <2>3. Len(y) = n - (e + 2) /\ \A k \in 1 .. n - (e + 2) : y[k] = u[e + 2 + k]
        BY <1>1, <1>3, <1>4
    <2>4. x \in Tails /\ y \in Tails
        BY <1>2, <2>1, Zenon DEF Passed
    <2> HIDE DEF x, y
    <2>5. x = y
        BY <2>2, <2>3, <2>4, TailsEqual
    <2>6. i - (e + 2) \in 1 .. n - (e + 2) /\ e + 2 + (i - (e + 2)) = i
        BY <1>3, <1>4, <1>16
    <2>7. t[i] = u[i]
        BY <2>2, <2>3, <2>5, <2>6
    <2> QED
        BY <1>1, <2>7
<1> QED
    <2>1. i = 1 \/ (1 < i /\ i < e) \/ i = e \/ i = e + 1 \/ i = e + 2 \/ i >= e + 3
        BY <1>4
    <2> QED
        BY <1>11, <1>12, <1>13, <1>14, <1>15, <1>16, <2>1

LEMMA DamageIs == ASSUME call \in Calls PROVE DamageSeen
<1> SUFFICES ASSUME minmea_check(Text(call), TRUE),
                    NEW i \in DOMAIN Text(call), NEW c \in ToSet(Ascii) \cup {"\n", "\r"},
                    minmea_check([Text(call) EXCEPT ![i] = c], TRUE)
             PROVE  c = Text(call)[i] \/ (i > BodyEnd(Text(call)) /\ SameDigit(c, Text(call)[i]))
    BY Zenon DEF DamageSeen
<1> DEFINE t == Text(call)
           W == Glyphs \cup (ToSet(Ascii) \cup {"\n", "\r"})
<1>1. t \in Seq(W)
    <2>1. t \in Seq(Glyphs) /\ Glyphs \subseteq W
        BY TextIs
    <2> QED
        BY <2>1, SeqMore
<1>2. c \in W
    OBVIOUS
<1> HIDE DEF W
<1>3. i \in 1 .. Len(t)
    BY <1>1
<1>4. [t EXCEPT ![i] = c] \in Seq(W)
    BY <1>1, <1>2, <1>3
<1> HIDE DEF t
<1>5. Passed(t, BodyEnd(t)) /\ Passed([t EXCEPT ![i] = c], BodyEnd([t EXCEPT ![i] = c]))
    BY <1>1, <1>4, PassedIs, Zenon DEF t
<1>6. c = t[i] \/ (i > BodyEnd(t) /\ SameDigit(c, t[i]))
    BY <1>1, <1>2, <1>3, <1>5, OneOfThem
<1> QED
    BY <1>6 DEF t

(***************************************************************************)
(* No character of a sentence that the strict check accepts can be         *)
(* replaced without its seeing it.                                         *)
(***************************************************************************)
THEOREM DamageIsSeen == ScanSpec => []DamageSeen
<1>1. ScanSpec => []FrameInv
    BY InitInv, NextInv, PTL DEF ScanSpec
<1>2. FrameInv => DamageSeen
    BY DamageIs DEF FrameInv, Typed
<1> QED
    BY <1>1, <1>2, PTL

-----------------------------------------------------------------------------
(***************************************************************************)
(* Fractions: the numbers and the characters they are made of.             *)
(***************************************************************************)
LEMMA TwosAre == ASSUME NEW b \in 8 .. 32 PROVE 2 ^ (b - 1) \in Nat /\ 2 ^ (b - 1) >= 128 /\ 2 ^ b = 2 * 2 ^ (b - 1)
<1>1. /\ 2 ^ 7 = 128 /\ 2 ^ 8 = 256 /\ 2 ^ 9 = 512 /\ 2 ^ 10 = 1024 /\ 2 ^ 11 = 2048 /\ 2 ^ 12 = 4096
      /\ 2 ^ 13 = 8192 /\ 2 ^ 14 = 16384 /\ 2 ^ 15 = 32768 /\ 2 ^ 16 = 65536 /\ 2 ^ 17 = 131072
      /\ 2 ^ 18 = 262144 /\ 2 ^ 19 = 524288 /\ 2 ^ 20 = 1048576 /\ 2 ^ 21 = 2097152 /\ 2 ^ 22 = 4194304
      /\ 2 ^ 23 = 8388608 /\ 2 ^ 24 = 16777216 /\ 2 ^ 25 = 33554432 /\ 2 ^ 26 = 67108864 /\ 2 ^ 27 = 134217728 /\ 2 ^ 28 = 268435456
      /\ 2 ^ 29 = 536870912 /\ 2 ^ 30 = 1073741824 /\ 2 ^ 31 = 2147483648 /\ 2 ^ 32 = 4294967296
    OBVIOUS
<1>2. \/ b = 8 \/ b = 9 \/ b = 10 \/ b = 11 \/ b = 12 \/ b = 13 \/ b = 14 \/ b = 15 \/ b = 16 \/ b = 17
      \/ b = 18 \/ b = 19 \/ b = 20 \/ b = 21 \/ b = 22 \/ b = 23 \/ b = 24 \/ b = 25 \/ b = 26 \/ b = 27
      \/ b = 28 \/ b = 29 \/ b = 30 \/ b = 31 \/ b = 32
    OBVIOUS
<1> DEFINE P == [k \in 7 .. 32 |-> 2 ^ k]
<1>3. /\ P[7] = 128 /\ P[8] = 256 /\ P[9] = 512 /\ P[10] = 1024 /\ P[11] = 2048 /\ P[12] = 4096
      /\ P[13] = 8192 /\ P[14] = 16384 /\ P[15] = 32768 /\ P[16] = 65536 /\ P[17] = 131072
      /\ P[18] = 262144 /\ P[19] = 524288 /\ P[20] = 1048576 /\ P[21] = 2097152 /\ P[22] = 4194304
      /\ P[23] = 8388608 /\ P[24] = 16777216 /\ P[25] = 33554432 /\ P[26] = 67108864 /\ P[27] = 134217728 /\ P[28] = 268435456
      /\ P[29] = 536870912 /\ P[30] = 1073741824 /\ P[31] = 2147483648 /\ P[32] = 4294967296
    BY <1>1
<1>4. PICK a \in 7 .. 31 : a = b - 1
    OBVIOUS
<1>5. b \in 7 .. 32 /\ a \in 7 .. 32
    BY <1>4
<1>6. \A k \in 7 .. 32 : 2 ^ k = P[k]
    BY Zenon
<1> HIDE DEF P
<1>7. P[a] \in Nat /\ P[a] >= 128 /\ P[b] = 2 * P[a]
    BY <1>2, <1>3, <1>4
<1> QED
    BY <1>4, <1>5, <1>6, <1>7, Zenon

LEMMA IntIs == IntMax \in Nat /\ IntMax >= 127 /\ \A n \in 0 .. IntMax : Wrap(n) = n
<1>1. PICK h \in Nat : h = 2 ^ (IntBits - 1) /\ h >= 128 /\ 2 ^ IntBits = 2 * h
    BY BitsAssumption, TwosAre
<1>2. IntMax = h - 1
    BY <1>1 DEF IntMax
<1>3. IntMax \in Nat /\ IntMax >= 127
    BY <1>1, <1>2
<1>4. ASSUME NEW n \in 0 .. IntMax PROVE Wrap(n) = n
    <2>1. n + IntMax + 1 \in 0 .. 2 * h - 1
        BY <1>1, <1>2
    <2>2. (n + IntMax + 1) % (2 * h) = n + IntMax + 1
        BY <1>1, <2>1
    <2>3. Wrap(n) = ((n + IntMax + 1) % (2 * h)) - IntMax - 1
        BY <1>1, Zenon DEF Wrap
    <2> QED
        BY <1>3, <2>2, <2>3
<1> QED
    BY <1>3, <1>4

LEMMA TensAre ==
    /\ 10 ^ 0 = 1
    /\ \A d \in 0 .. 9 : 10 ^ d \in Nat \ {0}
    /\ \A d \in 0 .. 8 : 10 ^ (d + 1) = 10 * 10 ^ d
    /\ \A d, e \in 0 .. 9 : d <= e => 10 ^ d <= 10 ^ e
<1>1. /\ 10 ^ 0 = 1 /\ 10 ^ 1 = 10 /\ 10 ^ 2 = 100 /\ 10 ^ 3 = 1000 /\ 10 ^ 4 = 10000 /\ 10 ^ 5 = 100000
      /\ 10 ^ 6 = 1000000 /\ 10 ^ 7 = 10000000 /\ 10 ^ 8 = 100000000 /\ 10 ^ 9 = 1000000000
    OBVIOUS
<1>2. ASSUME NEW d \in 0 .. 9 PROVE \/ d = 0 \/ d = 1 \/ d = 2 \/ d = 3 \/ d = 4 \/ d = 5 \/ d = 6 \/ d = 7 \/ d = 8 \/ d = 9
    OBVIOUS
<1> DEFINE P == [k \in 0 .. 9 |-> 10 ^ k]
<1>3. /\ P[0] = 1 /\ P[1] = 10 /\ P[2] = 100 /\ P[3] = 1000 /\ P[4] = 10000 /\ P[5] = 100000
      /\ P[6] = 1000000 /\ P[7] = 10000000 /\ P[8] = 100000000 /\ P[9] = 1000000000
    BY <1>1
<1>4. \A k \in 0 .. 9 : 10 ^ k = P[k]
    BY Zenon
<1> HIDE DEF P
<1>5. \A d \in 0 .. 9 : 10 ^ d \in Nat \ {0}
    <2>1. ASSUME NEW d \in 0 .. 9 PROVE P[d] \in Nat \ {0}
        BY <1>2, <1>3
    <2> QED
        BY <1>4, <2>1, Zenon
<1>6. ASSUME NEW d \in 0 .. 8 PROVE 10 ^ (d + 1) = 10 * 10 ^ d
    <2>1. PICK e \in 0 .. 9 : e = d + 1
        OBVIOUS
    <2>2. d \in 0 .. 9
        OBVIOUS
    <2>3. P[e] = 10 * P[d]
        BY <1>2, <1>3, <2>1, <2>2
    <2> QED
        BY <1>4, <2>1, <2>2, <2>3, Zenon
<1>7. \A d, e \in 0 .. 9 : d <= e => 10 ^ d <= 10 ^ e
    <2>1. ASSUME NEW d \in 0 .. 9, NEW e \in 0 .. 9, d <= e PROVE P[d] <= P[e]
        BY <1>2, <1>3, <2>1
    <2> QED
        BY <1>4, <2>1, Zenon
<1>8. 10 ^ 0 = 1
    OBVIOUS
<1> QED
    BY <1>5, <1>6, <1>7, <1>8

LEMMA NumeralsAre ==
    ASSUME NEW i \in 1 .. 10
    PROVE  Digits[i] \notin {"+", "-", ".", " "}
<1>1. DOMAIN Digits = 1 .. 10 /\ Digits[1] = "0" /\ Digits[2] = "1" /\ Digits[3] = "2" /\ Digits[4] = "3" /\ Digits[5] = "4"
      /\ Digits[6] = "5" /\ Digits[7] = "6" /\ Digits[8] = "7" /\ Digits[9] = "8" /\ Digits[10] = "9"
    BY DEF Digits
<1>2. i = 1 \/ i = 2 \/ i = 3 \/ i = 4 \/ i = 5 \/ i = 6 \/ i = 7 \/ i = 8 \/ i = 9 \/ i = 10
    OBVIOUS
<1> QED
    BY <1>1, <1>2

LEMMA DigitIs ==
    ASSUME NEW c
    PROVE  /\ isdigit(c) <=> c \in Numerals
           /\ c \in Numerals => Digit[c] \in 0 .. 9 /\ c \notin {"+", "-", ".", " "}
<1>1. DOMAIN Digits = 1 .. 10
    BY DEF Digits
<1>2. DOMAIN Digit = ToSet(Digits) /\ \A d \in ToSet(Digits) : Digit[d] = Place(Digits, d) - 1
    BY DEF Digit
<1>3. ASSUME c \in ToSet(Digits) PROVE Digit[c] \in 0 .. 9 /\ c \notin {"+", "-", ".", " "}
    <2>1. PICK i \in 1 .. 10 : i = Place(Digits, c) /\ Digits[i] = c
        BY <1>1, <1>3, PlaceIs
    <2>2. Digit[c] \in 0 .. 9
        BY <1>2, <1>3, <2>1
    <2> QED
        BY <2>1, <2>2, NumeralsAre
<1> QED
    BY <1>2, <1>3, Zenon DEF Numerals, isdigit

-----------------------------------------------------------------------------
(***************************************************************************)
(* The loop over the characters, and the number they write, as functions   *)
(* of how many there have been.                                            *)
(***************************************************************************)
\* Each value follows from the one before.
Begun(g, n, V, a, G) == g \in [0 .. n -> V] /\ g[0] = a /\ \A k \in 1 .. n : g[k] = G[k][g[k - 1]]

LEMMA Recursion ==
    ASSUME NEW V, NEW a \in V, NEW n \in Nat, NEW G \in [1 .. n -> [V -> V]]
    PROVE  \E g : Begun(g, n, V, a, G)
<1> DEFINE T == {m \in Nat : m <= n => \E g : Begun(g, m, V, a, G)}
<1>1. 0 \in T
    <2>1. Begun([k \in 0 .. 0 |-> a], 0, V, a, G)
        BY DEF Begun
    <2> QED
        BY <2>1
<1>2. \A m \in Nat : m \in T => m + 1 \in T
    <2> SUFFICES ASSUME NEW m \in Nat, m + 1 <= n, NEW f, Begun(f, m, V, a, G)
                 PROVE  \E g : Begun(g, m + 1, V, a, G)
        OBVIOUS
    <2> DEFINE g == [k \in 0 .. m + 1 |-> IF k <= m THEN f[k] ELSE G[m + 1][f[m]]]
    <2>1. f \in [0 .. m -> V] /\ f[0] = a /\ \A k \in 1 .. m : f[k] = G[k][f[k - 1]]
        BY DEF Begun
    <2>2. f[m] \in V /\ G[m + 1][f[m]] \in V
        <3>1. f[m] \in V /\ m + 1 \in 1 .. n
            BY <2>1
        <3> QED
            BY <3>1
    <2>3. g \in [0 .. m + 1 -> V] /\ g[0] = a
        BY <2>1, <2>2
    <2>4. ASSUME NEW k \in 1 .. m + 1 PROVE g[k] = G[k][g[k - 1]]
        <3>1. CASE k = m + 1
            <4>1. k - 1 = m /\ g[m] = f[m] /\ g[k] = G[m + 1][f[m]]
                BY <3>1
            <4> QED
                BY <3>1, <4>1
        <3>2. CASE k # m + 1
            <4>1. k \in 1 .. m /\ k - 1 <= m
                BY <3>2
            <4>2. g[k] = f[k] /\ g[k - 1] = f[k - 1]
                BY <4>1
            <4> QED
                BY <2>1, <4>1, <4>2
        <3> QED
            BY <3>1, <3>2
    <2> HIDE DEF g
    <2>5. Begun(g, m + 1, V, a, G)
        BY <2>3, <2>4 DEF Begun
    <2> QED
        BY <2>5
<1> HIDE DEF T
<1>3. n \in T
    BY <1>1, <1>2, Inductive
<1> QED
    BY <1>3 DEF T

States == [stop : {"no", "cut", "error"}, sign : {-1, 0, 1}, value : Int, scale : Int]

LEMMA WrapInt == ASSUME NEW n \in Int PROVE Wrap(n) \in Int
<1>1. PICK h \in Nat : h = 2 ^ (IntBits - 1) /\ h >= 128 /\ 2 ^ IntBits = 2 * h
    BY BitsAssumption, TwosAre
<1>2. IntMax \in Int
    BY IntIs
<1>3. (n + IntMax + 1) % (2 * h) \in Int
    BY <1>1, <1>2
<1>4. Wrap(n) = ((n + IntMax + 1) % (2 * h)) - IntMax - 1
    BY <1>1, Zenon DEF Wrap
<1> QED
    BY <1>2, <1>3, <1>4

LEMMA CharTyped == ASSUME NEW s \in States, NEW c PROVE Float_char(s, c) \in States
<1>1. ASSUME NEW d \in 0 .. 9 PROVE Float_digit(s, d) \in States
    <2>1. Wrap(10 * s.scale) \in Int
        BY WrapInt DEF States
    <2> DEFINE v == IF s.value = -1 THEN 0 ELSE s.value
    <2>2. v \in Int /\ 10 * v + d \in Int
        BY DEF States
    <2> HIDE DEF v
    <2>3. /\ [s EXCEPT !.value = v, !.stop = IF s.scale # 0 THEN "cut" ELSE "error"] \in States
          /\ [s EXCEPT !.value = 10 * v + d, !.scale = Wrap(10 * @)] \in States
        BY <2>1, <2>2 DEF States
    <2> QED
        BY <2>3, Zenon DEF Float_digit, v
<1>2. isdigit(c) => Float_digit(s, Digit[c]) \in States
    BY <1>1, DigitIs
<1>3. /\ [s EXCEPT !.sign = IF c = "+" THEN 1 ELSE -1] \in States /\ [s EXCEPT !.scale = 1] \in States
      /\ [s EXCEPT !.stop = "error"] \in States
    BY DEF States
<1> QED
    BY <1>2, <1>3, Zenon DEF Float_char

LEMMA FloatTyped == Float \in States
    BY DEF Float, States

\* after is the state after each character.
Loops(f, after) ==
    /\ after \in [0 .. Len(f) -> States] /\ after[0] = Float
    /\ \A k \in 1 .. Len(f) : after[k] = Float_char(after[k - 1], f[k])

LEMMA LoopIs ==
    ASSUME NEW V, NEW f \in Seq(V)
    PROVE  \E after : Loops(f, after) /\ Float_loop(f) = after[Len(f)]
<1> DEFINE n == Len(f)
           F(g) == [k \in 0 .. n |-> IF k = 0 THEN Float ELSE Float_char(g[k - 1], f[k])]
           after == CHOOSE g : g = F(g)
           G == [k \in 1 .. n |-> [s \in States |-> Float_char(s, f[k])]]
<1>1. n \in Nat
    OBVIOUS
<1>2. PICK h : Begun(h, n, States, Float, G)
    <2>1. G \in [1 .. n -> [States -> States]]
        BY CharTyped
    <2> HIDE DEF G, n
    <2> QED
        BY <1>1, <2>1, FloatTyped, Recursion
<1>3. h \in [0 .. n -> States] /\ h[0] = Float /\ \A k \in 1 .. n : h[k] = G[k][h[k - 1]]
    BY <1>2, Zenon DEF Begun
<1>4. \A k \in 1 .. n : h[k] = Float_char(h[k - 1], f[k])
    <2> SUFFICES ASSUME NEW k \in 1 .. n PROVE h[k] = Float_char(h[k - 1], f[k])
        OBVIOUS
    <2>1. h[k - 1] \in States
        BY <1>1, <1>3
    <2> QED
        BY <1>3, <2>1
<1> HIDE DEF G, n
<1>5. h = F(h)
    BY <1>1, <1>3, <1>4
<1>6. after = F(after)
    <2> HIDE DEF F
    <2> QED
        BY <1>5, Zenon
<1> HIDE DEF after
<1>7. after[0] = Float /\ \A k \in 1 .. n : after[k] = Float_char(after[k - 1], f[k])
    BY <1>1, <1>6
<1>8. after = [k \in 0 .. n |-> after[k]]
    BY <1>6
<1> HIDE DEF F
<1> DEFINE T == {k \in Nat : k <= n => after[k] \in States}
<1>9. 0 \in T
    BY <1>7, FloatTyped
<1>10. ASSUME NEW k \in Nat, k \in T PROVE k + 1 \in T
    <2> SUFFICES ASSUME k + 1 <= n PROVE after[k + 1] \in States
        OBVIOUS
    <2>1. k <= n /\ k + 1 \in 1 .. n /\ (k + 1) - 1 = k
        BY <1>1
    <2>2. after[k + 1] = Float_char(after[k], f[k + 1])
        BY <1>7, <2>1
    <2> QED
        BY <1>10, <2>1, <2>2, CharTyped
<1>11. \A k \in 0 .. n : after[k] \in States
    <2>1. \A k \in Nat : k \in T
        <3> HIDE DEF T
        <3> QED
            BY <1>9, <1>10, Inductive
    <2> QED
        BY <1>1, <2>1
<1>12. Loops(f, after)
    <2>1. after \in [0 .. n -> States]
        BY <1>8, <1>11
    <2> QED
        BY <1>7, <2>1 DEF Loops, n
<1>13. Float_loop(f) = after[n]
    BY DEF Float_loop, after, F, n
<1> QED
    BY <1>12, <1>13 DEF n

\* upto is the number the characters so far write.
Writes(f, upto) ==
    /\ upto \in [0 .. Len(f) -> Nat] /\ upto[0] = 0
    /\ \A k \in 1 .. Len(f) : upto[k] = Next_digit(upto[k - 1], f[k])

LEMMA NextTyped ==
    ASSUME NEW n \in Nat, NEW c
    PROVE  Next_digit(n, c) \in Nat /\ Next_digit(n, c) >= n
<1>1. isdigit(c) => Digit[c] \in 0 .. 9
    BY DigitIs
<1> QED
    BY <1>1 DEF Next_digit

LEMMA CappedIs ==
    ASSUME NEW V, NEW f \in Seq(V)
    PROVE  \E upto : Writes(f, upto) /\ \A k \in 0 .. Len(f) : Capped(f, k) = upto[k]
<1> DEFINE n == Len(f)
           F(g) == [k \in 0 .. n |-> IF k = 0 THEN 0 ELSE Next_digit(g[k - 1], f[k])]
           upto == CHOOSE g : g = F(g)
           G == [k \in 1 .. n |-> [s \in Nat |-> Next_digit(s, f[k])]]
<1>1. n \in Nat
    OBVIOUS
<1>2. PICK h : Begun(h, n, Nat, 0, G)
    <2>1. G \in [1 .. n -> [Nat -> Nat]]
        BY NextTyped
    <2> HIDE DEF G, n
    <2> QED
        BY <1>1, <2>1, Recursion
<1>3. h \in [0 .. n -> Nat] /\ h[0] = 0 /\ \A k \in 1 .. n : h[k] = G[k][h[k - 1]]
    BY <1>2, Zenon DEF Begun
<1>4. \A k \in 1 .. n : h[k] = Next_digit(h[k - 1], f[k])
    <2> SUFFICES ASSUME NEW k \in 1 .. n PROVE h[k] = Next_digit(h[k - 1], f[k])
        OBVIOUS
    <2>1. h[k - 1] \in Nat
        BY <1>1, <1>3
    <2> QED
        BY <1>3, <2>1
<1> HIDE DEF G, n
<1>5. h = F(h)
    BY <1>1, <1>3, <1>4
<1>6. upto = F(upto)
    <2> HIDE DEF F
    <2> QED
        BY <1>5, Zenon
<1> HIDE DEF upto
<1>7. upto[0] = 0 /\ \A k \in 1 .. n : upto[k] = Next_digit(upto[k - 1], f[k])
    BY <1>1, <1>6
<1>8. upto = [k \in 0 .. n |-> upto[k]]
    BY <1>6
<1> HIDE DEF F
<1> DEFINE T == {k \in Nat : k <= n => upto[k] \in Nat}
<1>9. 0 \in T
    BY <1>7
<1>10. ASSUME NEW k \in Nat, k \in T PROVE k + 1 \in T
    <2> SUFFICES ASSUME k + 1 <= n PROVE upto[k + 1] \in Nat
        OBVIOUS
    <2>1. k <= n /\ k + 1 \in 1 .. n /\ (k + 1) - 1 = k
        BY <1>1
    <2>2. upto[k + 1] = Next_digit(upto[k], f[k + 1])
        BY <1>7, <2>1
    <2> QED
        BY <1>10, <2>1, <2>2, NextTyped
<1>11. \A k \in 0 .. n : upto[k] \in Nat
    <2>1. \A k \in Nat : k \in T
        <3> HIDE DEF T
        <3> QED
            BY <1>9, <1>10, Inductive
    <2> QED
        BY <1>1, <2>1
<1>12. Writes(f, upto)
    <2>1. upto \in [0 .. n -> Nat]
        BY <1>8, <1>11
    <2> QED
        BY <1>7, <2>1 DEF Writes, n
<1>13. \A k \in 0 .. n : Capped(f, k) = upto[k]
    BY DEF Capped, upto, F, n
<1> QED
    BY <1>12, <1>13 DEF n

\* Where it stops being an int.
LEMMA FittingIs ==
    ASSUME NEW V, NEW f \in Seq(V), NEW upto, Writes(f, upto), \A k \in 0 .. Len(f) : Capped(f, k) = upto[k]
    PROVE  /\ Fitting(f) \in 0 .. Len(f)
           /\ Fitting(f) < Len(f) => upto[Fitting(f) + 1] > IntMax
           /\ \A k \in 0 .. Fitting(f) : upto[k] <= IntMax
<1>1. PICK n \in Nat : n = Len(f)
    OBVIOUS
<1>2. /\ \A k \in 0 .. n : upto[k] \in Nat /\ Capped(f, k) = upto[k]
      /\ upto[0] = 0 /\ \A k \in 0 .. n - 1 : upto[k] <= upto[k + 1]
    <2>1. upto \in [0 .. n -> Nat] /\ upto[0] = 0 /\ \A k \in 1 .. n : upto[k] = Next_digit(upto[k - 1], f[k])
        BY <1>1 DEF Writes
    <2>2. ASSUME NEW k \in 0 .. n - 1 PROVE upto[k] <= upto[k + 1]
        <3>1. k + 1 \in 1 .. n /\ (k + 1) - 1 = k /\ upto[k] \in Nat
            BY <1>1, <2>1
        <3>2. upto[k + 1] = Next_digit(upto[k], f[k + 1])
            BY <2>1, <3>1
        <3> QED
            BY <3>1, <3>2, NextTyped
    <2> QED
        BY <1>1, <2>1, <2>2
<1>3. IntMax \in Nat
    BY IntIs
<1> DEFINE P(k) == Capped(f, k) <= IntMax /\ (k < n => Capped(f, k + 1) > IntMax)
<1>4. \E k \in 0 .. n : P(k)
    <2>1. CASE upto[n] <= IntMax
        BY <1>1, <1>2, <2>1
    <2>2. CASE upto[n] > IntMax
        <3> DEFINE T == {k \in Nat : k <= n => upto[k] <= IntMax}
        <3>1. 0 \in T /\ n \notin T
            BY <1>1, <1>2, <1>3, <2>2
        <3>2. PICK k \in Nat : k \in T /\ k + 1 \notin T
            <4> HIDE DEF T
            <4> QED
                BY <1>1, <3>1, Inductive
        <3>3. k \in 0 .. n /\ k + 1 \in 0 .. n /\ upto[k] <= IntMax /\ ~(upto[k + 1] <= IntMax)
            BY <1>1, <3>2
        <3>4. upto[k + 1] > IntMax
            BY <1>2, <1>3, <3>3
        <3> QED
            BY <1>2, <3>3, <3>4
    <2> QED
        BY <1>1, <1>2, <1>3, <2>1, <2>2
<1>5. PICK m : m = Fitting(f)
    OBVIOUS
<1>6. m \in 0 .. n /\ P(m)
    <2>1. m = CHOOSE k \in 0 .. n : P(k)
        BY <1>1, <1>5 DEF Fitting
    <2> HIDE DEF P
    <2> QED
        BY <1>4, <2>1, Zenon
<1>7. upto[m] <= IntMax /\ (m < n => upto[m + 1] > IntMax)
    BY <1>1, <1>2, <1>6
<1> DEFINE U == {j \in Nat : j <= m => upto[m - j] <= IntMax}
<1>8. 0 \in U
    BY <1>6, <1>7
<1>9. ASSUME NEW j \in Nat, j \in U PROVE j + 1 \in U
    <2> SUFFICES ASSUME j + 1 <= m PROVE upto[m - (j + 1)] <= IntMax
        OBVIOUS
    <2>1. PICK k \in 0 .. n - 1 : k = m - (j + 1) /\ k + 1 = m - j /\ j <= m /\ k \in 0 .. n /\ k + 1 \in 0 .. n
        BY <1>1, <1>6
    <2>2. upto[k + 1] <= IntMax /\ upto[k] <= upto[k + 1] /\ upto[k] \in Nat /\ upto[k + 1] \in Nat
        BY <1>2, <1>9, <2>1
    <2> QED
        BY <1>3, <2>1, <2>2
<1>10. \A k \in 0 .. m : upto[k] <= IntMax
    <2>1. \A j \in Nat : j \in U
        <3> HIDE DEF U
        <3> QED
            BY <1>8, <1>9, Inductive
    <2> SUFFICES ASSUME NEW k \in 0 .. m PROVE upto[k] <= IntMax
        OBVIOUS
    <2>2. m - k \in Nat /\ m - k <= m /\ m - (m - k) = k
        BY <1>1, <1>6
    <2> QED
        BY <2>1, <2>2
<1> QED
    BY <1>1, <1>5, <1>6, <1>7, <1>10

\* Blanks in front change nothing.
LEMMA BlankLeft == Float_char(Float, " ") = Float
<1>1. ~isdigit(" ") /\ Float.stop = "no"
    BY DigitIs DEF Float
<1> QED
    BY <1>1 DEF Float_char

LEMMA RestIs ==
    ASSUME NEW V, NEW f \in Seq(V)
    PROVE  /\ Rest(f) \in Seq(V)
           /\ Rest(f) # <<>> => Rest(f)[1] # " "
           /\ \E b \in Nat : /\ b + Len(Rest(f)) = Len(f)
                             /\ \A k \in 1 .. b : f[k] = " "
                             /\ \A k \in 1 .. Len(Rest(f)) : Rest(f)[k] = f[b + k]
<1> DEFINE I == {i \in 1 .. Len(f) : f[i] # " "}
           first == SelectInSeq(f, LAMBDA c : c # " ")
<1>1. PICK n \in Nat : n = Len(f)
    OBVIOUS
<1>2. first = IF I # {} THEN Min(I) ELSE 0
    BY DEF SelectInSeq
<1>3. Rest(f) = IF first = 0 THEN <<>> ELSE SubSeq(f, first, Len(f))
    BY DEF Rest
<1>4. I \subseteq 1 .. n /\ (\A k \in 1 .. n : k \notin I => f[k] = " ") /\ \A k \in I : f[k] # " "
    BY <1>1, Zenon
<1>7. I \subseteq Nat /\ I \subseteq Int
    <2>1. I \subseteq 1 .. n
        BY <1>4, Zenon
    <2> HIDE DEF I
    <2> QED
        BY <2>1
<1> HIDE DEF first, I
<1>5. CASE I = {}
    <2>1. Rest(f) = <<>>
        BY <1>2, <1>3, <1>5
    <2>2. \A k \in 1 .. n : f[k] = " "
        BY <1>4, <1>5, Zenon
    <2>3. <<>> \in Seq(V) /\ Len(<<>>) = 0 /\ n + 0 = n /\ \A k \in 1 .. 0 : FALSE
        BY <1>1
    <2> QED
        BY <1>1, <2>1, <2>2, <2>3, Zenon
<1>6. CASE I # {}
    <2>1. PICK m \in I : \A i \in I : m <= i
        <3>1. I \subseteq Nat
            BY <1>7
        <3> QED
            BY <1>6, <3>1, LeastElement
    <2>2. Min(I) = m
        <3>1. I \subseteq Int
            BY <1>7
        <3>2. \A x \in I : (\A y \in I : x <= y) => x = m
            BY <2>1, <3>1
        <3> QED
            BY <2>1, <3>1, <3>2 DEF Min
    <2>3. m \in 1 .. n
        BY <1>4
    <2>4. first = m /\ m # 0
        BY <1>2, <1>6, <2>2, <2>3
    <2>5. PICK r : r = Rest(f) /\ r = SubSeq(f, m, n)
        BY <1>1, <1>3, <2>4
    <2>6. PICK b \in Nat : b = m - 1 /\ b + 1 = m /\ b + 1 <= n
        BY <1>1, <2>3
    <2>7. r \in Seq(V) /\ Len(r) = n - b /\ \A k \in 1 .. Len(r) : r[k] = f[b + k]
        <3>1. r \in Seq(V) /\ Len(r) = n - m + 1 /\ \A k \in 1 .. n - m + 1 : r[k] = f[m + k - 1]
            BY <1>1, <2>3, <2>5
        <3>2. Len(r) = n - b /\ Len(r) \in Nat
            BY <1>1, <2>6, <3>1
        <3>3. ASSUME NEW k \in 1 .. Len(r) PROVE r[k] = f[b + k]
            <4>1. k \in 1 .. n - m + 1 /\ m + k - 1 = b + k
                BY <1>1, <2>6, <3>1
            <4> QED
                BY <3>1, <4>1
        <3> QED
            BY <3>1, <3>2, <3>3
    <2>8. ASSUME NEW k \in 1 .. b PROVE f[k] = " "
        <3>1. k \in 1 .. n /\ ~(m <= k)
            BY <1>1, <2>6
        <3> QED
            BY <1>4, <2>1, <3>1, Zenon
    <2>9. r[1] # " "
        <3>1. 1 \in 1 .. Len(r)
            BY <1>1, <2>6, <2>7
        <3>2. r[1] = f[m]
            BY <2>6, <2>7, <3>1
        <3> QED
            BY <1>4, <3>2, Zenon
    <2>10. b + Len(r) = Len(f)
        BY <1>1, <2>6, <2>7
    <2> QED
        BY <2>5, <2>7, <2>8, <2>9, <2>10, Zenon
<1> QED
    BY <1>5, <1>6

LEMMA BlanksSkipped == ASSUME NEW V, NEW f \in Seq(V) PROVE Float_loop(f) = Float_loop(Rest(f))
<1>1. PICK r \in Seq(V) : r = Rest(f)
    BY RestIs
<1>2. PICK b \in Nat : /\ b + Len(r) = Len(f) /\ \A k \in 1 .. b : f[k] = " "
                       /\ \A k \in 1 .. Len(r) : r[k] = f[b + k]
    BY <1>1, RestIs
<1>3. PICK a : Loops(f, a) /\ Float_loop(f) = a[Len(f)]
    BY LoopIs
<1>4. PICK z : Loops(r, z) /\ Float_loop(r) = z[Len(r)]
    BY LoopIs
<1>5. PICK n \in Nat, m \in Nat : n = Len(f) /\ m = Len(r)
    OBVIOUS
<1>14. b + m = n
    BY <1>2, <1>5, Zenon
<1>6. a[0] = Float /\ \A k \in 1 .. n : a[k] = Float_char(a[k - 1], f[k])
    BY <1>3, <1>5 DEF Loops
<1>7. z[0] = Float /\ \A k \in 1 .. m : z[k] = Float_char(z[k - 1], r[k])
    BY <1>4, <1>5 DEF Loops
<1> DEFINE T == {k \in Nat : k <= b => a[k] = Float}
<1>8. 0 \in T
    BY <1>6
<1>9. ASSUME NEW k \in Nat, k \in T PROVE k + 1 \in T
    <2> SUFFICES ASSUME k + 1 <= b PROVE a[k + 1] = Float
        OBVIOUS
    <2>1. k <= b /\ k + 1 \in 1 .. n /\ k + 1 \in 1 .. b /\ (k + 1) - 1 = k
        BY <1>14
    <2>2. a[k + 1] = Float_char(a[k], f[k + 1]) /\ a[k] = Float /\ f[k + 1] = " "
        BY <1>2, <1>6, <1>9, <2>1
    <2> QED
        BY <2>2, BlankLeft
<1>10. a[b] = Float
    <2>1. \A k \in Nat : k \in T
        <3> HIDE DEF T
        <3> QED
            BY <1>8, <1>9, Inductive
    <2> QED
        BY <2>1
<1> HIDE DEF T
<1> DEFINE U == {k \in Nat : k <= m => a[b + k] = z[k]}
<1>11. 0 \in U
    BY <1>7, <1>10
<1>12. ASSUME NEW k \in Nat, k \in U PROVE k + 1 \in U
    <2> SUFFICES ASSUME k + 1 <= m PROVE a[b + (k + 1)] = z[k + 1]
        OBVIOUS
    <2>1. PICK j \in 1 .. n : j = b + (k + 1) /\ j - 1 = b + k /\ k + 1 \in 1 .. m /\ (k + 1) - 1 = k /\ k <= m
        BY <1>14
    <2>2. a[j] = Float_char(a[j - 1], f[j]) /\ z[k + 1] = Float_char(z[k], r[k + 1]) /\ r[k + 1] = f[j] /\ a[b + k] = z[k]
        BY <1>2, <1>5, <1>6, <1>7, <1>12, <2>1
    <2> QED
        BY <2>1, <2>2
<1>13. a[b + m] = z[m]
    <2>1. \A k \in Nat : k \in U
        <3> HIDE DEF U
        <3> QED
            BY <1>11, <1>12, Inductive
    <2> QED
        BY <2>1
<1> QED
    BY <1>1, <1>2, <1>3, <1>4, <1>5, <1>13

-----------------------------------------------------------------------------
(***************************************************************************)
(* What the loop has read after k characters, as long as they are those of *)
(* a number and the number is an int.                                      *)
(***************************************************************************)
With(f, k, C) == {i \in 1 .. k : f[i] \in C}
Behind(f, k) == {i \in With(f, k, Numerals) : \E j \in With(f, k, {"."}) : j < i}
Single(S) == \A i, j \in S : i = j

Wellformed(f, k) ==
    /\ \A i \in 1 .. k : f[i] \in Numerals \cup {"+", "-", "."}
    /\ Single(With(f, k, {"."})) /\ Single(With(f, k, {"+", "-"}))
    /\ \A i \in With(f, k, {"+", "-"}), j \in With(f, k, Numerals) : i < j

Signed(f, k) ==
    IF With(f, k, {"+", "-"}) = {} THEN 0 ELSE IF With(f, k, {"-"}) = {} THEN 1 ELSE -1

HasRead(f, k, s, v) ==
    IF Wellformed(f, k)
      THEN /\ s.stop = "no" /\ s.sign = Signed(f, k)
           /\ s.value = (IF With(f, k, Numerals) = {} THEN -1 ELSE v)
           /\ With(f, k, Numerals) = {} => v = 0
           /\ s.scale = (IF With(f, k, {"."}) = {} THEN 0 ELSE 10 ^ Cardinality(Behind(f, k)))
      ELSE s.stop = "error"

LEMMA WithNext ==
    ASSUME NEW f, NEW k \in Nat, NEW C
    PROVE  /\ f[k + 1] \in C => With(f, k + 1, C) = With(f, k, C) \cup {k + 1}
           /\ f[k + 1] \notin C => With(f, k + 1, C) = With(f, k, C)
<1>1. 1 .. k + 1 = (1 .. k) \cup {k + 1}
    OBVIOUS
<1> QED
    BY <1>1, Zenon DEF With

LEMMA WithIs ==
    ASSUME NEW f, NEW k \in Nat, NEW C
    PROVE  /\ With(f, k, C) \subseteq 1 .. k /\ IsFiniteSet(With(f, k, C))
           /\ With(f, k, C) \subseteq Nat /\ \A i \in With(f, k, C) : i < k + 1 /\ ~(k + 1 < i) /\ i # k + 1
<1>1. With(f, k, C) \subseteq 1 .. k
    BY Zenon DEF With
<1>2. IsFiniteSet(1 .. k)
    BY FS_Interval
<1>3. IsFiniteSet(With(f, k, C))
    BY <1>1, <1>2, FS_Subset
<1>4. \A i \in 1 .. k : i \in Nat /\ i < k + 1 /\ ~(k + 1 < i) /\ i # k + 1
    OBVIOUS
<1> QED
    BY <1>1, <1>3, <1>4, Zenon

\* A digit more.
LEMMA WellDigit ==
    ASSUME NEW f, NEW k \in Nat, f[k + 1] \in Numerals
    PROVE  /\ Wellformed(f, k + 1) <=> Wellformed(f, k)
           /\ With(f, k + 1, {"."}) = With(f, k, {"."}) /\ Signed(f, k + 1) = Signed(f, k)
           /\ With(f, k + 1, Numerals) # {}
           /\ With(f, k, {"."}) = {} => Cardinality(Behind(f, k + 1)) = Cardinality(Behind(f, k))
           /\ With(f, k, {"."}) # {} => Cardinality(Behind(f, k + 1)) = Cardinality(Behind(f, k)) + 1
           /\ Cardinality(Behind(f, k)) \in Nat
<1>1. f[k + 1] \notin {"."} /\ f[k + 1] \notin {"+", "-"} /\ f[k + 1] \notin {"-"}
    BY DigitIs
<1>2. /\ With(f, k + 1, {"."}) = With(f, k, {"."}) /\ With(f, k + 1, {"+", "-"}) = With(f, k, {"+", "-"})
      /\ With(f, k + 1, {"-"}) = With(f, k, {"-"})
      /\ With(f, k + 1, Numerals) = With(f, k, Numerals) \cup {k + 1}
    BY <1>1, WithNext, ZenonT(40)
<1>3. 1 .. k + 1 = (1 .. k) \cup {k + 1}
    OBVIOUS
<1>4. \A i \in With(f, k, {"+", "-"}) : i < k + 1
    BY WithIs
<1>5. Wellformed(f, k + 1) <=> Wellformed(f, k)
    BY <1>2, <1>3, <1>4, Zenon DEF Wellformed
<1>6. \A j \in With(f, k, {"."}) : j < k + 1
    BY WithIs
<1>7. Behind(f, k + 1) = IF With(f, k, {"."}) = {} THEN Behind(f, k) ELSE Behind(f, k) \cup {k + 1}
    BY <1>2, <1>6, Zenon DEF Behind
<1>8. IsFiniteSet(Behind(f, k)) /\ k + 1 \notin Behind(f, k)
    <2>1. Behind(f, k) \subseteq With(f, k, Numerals)
        BY Zenon DEF Behind
    <2>2. k + 1 \notin With(f, k, Numerals) /\ IsFiniteSet(With(f, k, Numerals))
        BY WithIs
    <2> QED
        BY <2>1, <2>2, FS_Subset
<1>9. Cardinality(Behind(f, k)) \in Nat /\ Cardinality(Behind(f, k) \cup {k + 1}) = Cardinality(Behind(f, k)) + 1
    BY <1>8, FS_CardinalityType, FS_AddElement
<1>10. Signed(f, k + 1) = Signed(f, k)
    BY <1>2, Zenon DEF Signed
<1>11. With(f, k + 1, Numerals) # {}
    BY <1>2
<1> QED
    BY <1>2, <1>5, <1>7, <1>9, <1>10, <1>11, Zenon

LEMMA WellPoint ==
    ASSUME NEW f, NEW k \in Nat, f[k + 1] = "."
    PROVE  /\ Wellformed(f, k + 1) <=> Wellformed(f, k) /\ With(f, k, {"."}) = {}
           /\ With(f, k + 1, Numerals) = With(f, k, Numerals) /\ Signed(f, k + 1) = Signed(f, k)
           /\ With(f, k + 1, {"."}) # {}
           /\ With(f, k, {"."}) = {} => Cardinality(Behind(f, k + 1)) = 0
<1>1. f[k + 1] \notin Numerals /\ f[k + 1] \notin {"+", "-"} /\ f[k + 1] \notin {"-"} /\ f[k + 1] \in {"."}
    BY DigitIs
<1>2. /\ With(f, k + 1, {"."}) = With(f, k, {"."}) \cup {k + 1}
      /\ With(f, k + 1, {"+", "-"}) = With(f, k, {"+", "-"}) /\ With(f, k + 1, {"-"}) = With(f, k, {"-"})
      /\ With(f, k + 1, Numerals) = With(f, k, Numerals)
    BY <1>1, WithNext, ZenonT(40)
<1>3. 1 .. k + 1 = (1 .. k) \cup {k + 1}
    OBVIOUS
<1>4. \A i \in With(f, k, {"."}) : i # k + 1
    BY WithIs
<1>5. Single(With(f, k + 1, {"."})) <=> With(f, k, {"."}) = {}
    BY <1>2, <1>4, Zenon DEF Single
<1>6. With(f, k, {"."}) = {} => Single(With(f, k, {"."}))
    BY Zenon DEF Single
<1>7. (\A i \in 1 .. k + 1 : f[i] \in Numerals \cup {"+", "-", "."}) <=> (\A i \in 1 .. k : f[i] \in Numerals \cup {"+", "-", "."})
    BY <1>1, <1>3, Zenon
<1>8. Wellformed(f, k + 1) <=> Wellformed(f, k) /\ With(f, k, {"."}) = {}
    BY <1>2, <1>5, <1>6, <1>7, Zenon DEF Wellformed
<1>9. ASSUME With(f, k, {"."}) = {} PROVE Cardinality(Behind(f, k + 1)) = 0
    <2>1. \A i \in With(f, k, Numerals) : ~(k + 1 < i)
        BY WithIs
    <2>2. Behind(f, k + 1) = {}
        BY <1>2, <1>9, <2>1, Zenon DEF Behind
    <2> QED
        BY <2>2, FS_EmptySet
<1>10. Signed(f, k + 1) = Signed(f, k)
    BY <1>2, Zenon DEF Signed
<1>11. With(f, k + 1, {"."}) # {}
    BY <1>2
<1> QED
    BY <1>2, <1>8, <1>9, <1>10, <1>11, Zenon

LEMMA WellSign ==
    ASSUME NEW f, NEW k \in Nat, f[k + 1] \in {"+", "-"}
    PROVE  /\ Wellformed(f, k + 1) <=>
                Wellformed(f, k) /\ With(f, k, {"+", "-"}) = {} /\ With(f, k, Numerals) = {}
           /\ With(f, k + 1, Numerals) = With(f, k, Numerals) /\ With(f, k + 1, {"."}) = With(f, k, {"."})
           /\ Behind(f, k + 1) = Behind(f, k)
           /\ With(f, k, {"+", "-"}) = {} => Signed(f, k + 1) = IF f[k + 1] = "+" THEN 1 ELSE -1
<1>1. f[k + 1] \notin Numerals /\ f[k + 1] \notin {"."}
    BY DigitIs
<1>2. /\ With(f, k + 1, {"+", "-"}) = With(f, k, {"+", "-"}) \cup {k + 1}
      /\ With(f, k + 1, {"."}) = With(f, k, {"."})
      /\ With(f, k + 1, Numerals) = With(f, k, Numerals)
      /\ f[k + 1] = "-" => With(f, k + 1, {"-"}) = With(f, k, {"-"}) \cup {k + 1}
      /\ f[k + 1] # "-" => With(f, k + 1, {"-"}) = With(f, k, {"-"})
    BY <1>1, WithNext, ZenonT(40)
<1>3. 1 .. k + 1 = (1 .. k) \cup {k + 1}
    OBVIOUS
<1>4. (\A i \in With(f, k, {"+", "-"}) : i # k + 1) /\ \A j \in With(f, k, Numerals) : ~(k + 1 < j)
    BY WithIs
<1>5. Single(With(f, k + 1, {"+", "-"})) <=> With(f, k, {"+", "-"}) = {}
    BY <1>2, <1>4, Zenon DEF Single
<1>6. With(f, k, {"+", "-"}) = {} => Single(With(f, k, {"+", "-"}))
    BY Zenon DEF Single
<1>7. (\A i \in 1 .. k + 1 : f[i] \in Numerals \cup {"+", "-", "."}) <=> (\A i \in 1 .. k : f[i] \in Numerals \cup {"+", "-", "."})
    BY <1>1, <1>3, Zenon
<1>8. (\A i \in With(f, k + 1, {"+", "-"}), j \in With(f, k + 1, Numerals) : i < j) => With(f, k, Numerals) = {}
    BY <1>2, <1>4, Zenon
<1>9. Wellformed(f, k + 1) <=>
        Wellformed(f, k) /\ With(f, k, {"+", "-"}) = {} /\ With(f, k, Numerals) = {}
    BY <1>2, <1>5, <1>6, <1>7, <1>8, Zenon DEF Wellformed
<1>10. ASSUME With(f, k, {"+", "-"}) = {} PROVE Signed(f, k + 1) = IF f[k + 1] = "+" THEN 1 ELSE -1
    <2>1. With(f, k, {"-"}) = {}
        BY <1>10, Zenon DEF With
    <2>2. With(f, k + 1, {"+", "-"}) # {}
        BY <1>2
    <2>3. CASE f[k + 1] = "+"
        <3>1. With(f, k + 1, {"-"}) = {}
            BY <1>2, <2>1, <2>3
        <3> QED
            BY <2>2, <2>3, <3>1, Zenon DEF Signed
    <2>4. CASE f[k + 1] = "-"
        <3>1. With(f, k + 1, {"-"}) # {} /\ f[k + 1] # "+"
            BY <1>2, <2>4
        <3> QED
            BY <2>2, <3>1, Zenon DEF Signed
    <2> QED
        BY <2>3, <2>4
<1>11. Behind(f, k + 1) = Behind(f, k)
    BY <1>2, Zenon DEF Behind
<1> QED
    BY <1>2, <1>9, <1>10, <1>11, Zenon

LEMMA WellOther ==
    ASSUME NEW f, NEW k \in Nat, f[k + 1] \notin Numerals \cup {"+", "-", "."}
    PROVE  ~Wellformed(f, k + 1)
<1>1. k + 1 \in 1 .. k + 1
    OBVIOUS
<1> QED
    BY <1>1, Zenon DEF Wellformed

\* One character.
LEMMA CharDigit ==
    ASSUME NEW s \in States, NEW c, s.stop = "no", c \in Numerals
    PROVE  Float_char(s, c) = Float_digit(s, Digit[c])
<1>1. isdigit(c) /\ c \notin {"+", "-"}
    BY DigitIs
<1> QED
    BY <1>1, Zenon DEF Float_char

LEMMA CharPoint ==
    ASSUME NEW s \in States, s.stop = "no"
    PROVE  Float_char(s, ".") = IF s.scale = 0 THEN [s EXCEPT !.scale = 1] ELSE [s EXCEPT !.stop = "error"]
<1>1. ~isdigit(".")
    BY DigitIs
<1>2. "." \notin {"+", "-"} /\ "." # " "
    OBVIOUS
<1> QED
    BY <1>1, <1>2, Zenon DEF Float_char

LEMMA CharSign ==
    ASSUME NEW s \in States, s.stop = "no", NEW c \in {"+", "-"}
    PROVE  Float_char(s, c) = IF s.sign = 0 /\ s.value = -1 THEN [s EXCEPT !.sign = IF c = "+" THEN 1 ELSE -1]
                              ELSE [s EXCEPT !.stop = "error"]
<1>1. ~isdigit(c)
    BY DigitIs
<1>2. c # "." /\ c # " "
    OBVIOUS
<1> QED
    BY <1>1, <1>2, Zenon DEF Float_char

LEMMA CharOther ==
    ASSUME NEW s \in States, s.stop = "no", NEW c, c \notin Numerals \cup {"+", "-", "."}, c = " " => s # Float
    PROVE  Float_char(s, c) = [s EXCEPT !.stop = "error"]
<1>1. ~isdigit(c) /\ c \notin {"+", "-"} /\ c # "."
    BY DigitIs
<1> QED
    BY <1>1, Zenon DEF Float_char

LEMMA CharStopped == ASSUME NEW s, NEW c, s.stop # "no" PROVE Float_char(s, c) = s
    BY Zenon DEF Float_char

LEMMA Erred == ASSUME NEW s \in States PROVE [s EXCEPT !.stop = "error"].stop = "error"
    BY DEF States

LEMMA ReadDigit ==
    ASSUME NEW f, NEW k \in Nat, NEW s \in States, NEW v \in Nat, Wellformed(f, k), HasRead(f, k, s, v),
           f[k + 1] \in Numerals, Next_digit(v, f[k + 1]) <= IntMax, v <= IntMax,
           Cardinality(Behind(f, k + 1)) < 10, 10 ^ Cardinality(Behind(f, k + 1)) <= IntMax
    PROVE  HasRead(f, k + 1, Float_char(s, f[k + 1]), Next_digit(v, f[k + 1]))
<1>13. PICK c : c = f[k + 1]
    OBVIOUS
<1>14. PICK d \in 0 .. 9 : d = Digit[c]
    BY <1>13, DigitIs
<1>1. c = f[k + 1] /\ d = Digit[c] /\ c \in Numerals
    BY <1>13, <1>14, Zenon
<1>2. PICK w : w = Next_digit(v, c)
    OBVIOUS
<1>3. w = 10 * v + d /\ w <= IntMax
    <2>1. isdigit(c)
        BY <1>1, DigitIs
    <2> QED
        BY <1>1, <1>2, <2>1 DEF Next_digit
<1>4. /\ s.stop = "no" /\ s.sign = Signed(f, k)
      /\ s.value = (IF With(f, k, Numerals) = {} THEN -1 ELSE v)
      /\ With(f, k, Numerals) = {} => v = 0
      /\ s.scale = (IF With(f, k, {"."}) = {} THEN 0 ELSE 10 ^ Cardinality(Behind(f, k)))
    BY Zenon DEF HasRead
<1>5. v = IF s.value = -1 THEN 0 ELSE s.value
    BY <1>4
<1>6. IntMax \in Nat /\ ~(v > (IntMax - d) \div 10)
    BY <1>3, IntIs
<1>7. Float_char(s, c) = [s EXCEPT !.value = w, !.scale = Wrap(10 * s.scale)]
    <2>1. Float_char(s, c) = Float_digit(s, d)
        BY <1>1, <1>4, CharDigit
    <2>2. Float_digit(s, d) = [s EXCEPT !.value = 10 * v + d, !.scale = Wrap(10 * @)]
        BY <1>5, <1>6, Zenon DEF Float_digit
    <2>3. [s EXCEPT !.value = 10 * v + d, !.scale = Wrap(10 * @)] = [s EXCEPT !.value = 10 * v + d, !.scale = Wrap(10 * s.scale)]
        BY DEF States
    <2> QED
        BY <1>3, <2>1, <2>2, <2>3, Zenon
<1>8. PICK z : z = Float_char(s, c)
    OBVIOUS
<1>9. z.stop = "no" /\ z.sign = s.sign /\ z.value = w /\ z.scale = Wrap(10 * s.scale)
    BY <1>4, <1>7, <1>8 DEF States
<1>10. z.scale = (IF With(f, k + 1, {"."}) = {} THEN 0 ELSE 10 ^ Cardinality(Behind(f, k + 1)))
    <2>1. CASE With(f, k, {"."}) = {}
        <3>1. s.scale = 0 /\ 10 * 0 = 0 /\ Wrap(0) = 0
            BY <1>4, <1>6, <2>1, IntIs
        <3>2. z.scale = 0
            BY <1>9, <3>1
        <3> QED
            BY <1>1, <2>1, <3>2, WellDigit, Zenon
    <2>2. CASE With(f, k, {"."}) # {}
        <3>1. PICK m \in Nat : m = Cardinality(Behind(f, k))
            BY <1>1, WellDigit
        <3>2. PICK n \in Nat : n = Cardinality(Behind(f, k + 1)) /\ n = m + 1
            BY <1>1, <2>2, <3>1, WellDigit
        <3>3. m \in 0 .. 8 /\ n \in 0 .. 9
            BY <3>2
        <3>4. PICK x \in Nat : x = 10 ^ m /\ 10 ^ n = 10 * x
            <4>2. m \in 0 .. 9
                BY <3>3
            <4>1. 10 ^ (m + 1) = 10 * 10 ^ m /\ 10 ^ m \in Nat
                BY <3>3, <4>2, TensAre, Zenon
            <4> QED
                BY <3>2, <4>1
        <3>5. s.scale = x /\ 10 * x <= IntMax
            BY <1>4, <2>2, <3>1, <3>2, <3>4, Zenon
        <3>6. Wrap(10 * x) = 10 * x
            BY <1>6, <3>5, IntIs
        <3>7. z.scale = 10 ^ n
            BY <1>9, <3>4, <3>5, <3>6
        <3>8. With(f, k + 1, {"."}) # {}
            BY <1>1, <2>2, WellDigit
        <3> QED
            BY <3>2, <3>7, <3>8, Zenon
    <2> QED
        BY <2>1, <2>2
<1>11. Wellformed(f, k + 1) /\ With(f, k + 1, Numerals) # {} /\ Signed(f, k + 1) = Signed(f, k)
    BY <1>1, WellDigit
<1>12. HasRead(f, k + 1, z, w)
    BY <1>4, <1>9, <1>10, <1>11, Zenon DEF HasRead
<1> QED
    BY <1>1, <1>2, <1>8, <1>12, Zenon

LEMMA ReadPoint ==
    ASSUME NEW f, NEW k \in Nat, NEW s \in States, NEW v \in Nat, Wellformed(f, k), HasRead(f, k, s, v),
           f[k + 1] = ".", Cardinality(Behind(f, k)) < 10
    PROVE  HasRead(f, k + 1, Float_char(s, f[k + 1]), v)
<1>1. /\ s.stop = "no" /\ s.sign = Signed(f, k)
      /\ s.value = (IF With(f, k, Numerals) = {} THEN -1 ELSE v)
      /\ With(f, k, Numerals) = {} => v = 0
      /\ s.scale = (IF With(f, k, {"."}) = {} THEN 0 ELSE 10 ^ Cardinality(Behind(f, k)))
    BY Zenon DEF HasRead
<1>2. PICK z : z = Float_char(s, ".")
    OBVIOUS
<1>3. z = IF s.scale = 0 THEN [s EXCEPT !.scale = 1] ELSE [s EXCEPT !.stop = "error"]
    BY <1>1, <1>2, CharPoint
<1>4. CASE With(f, k, {"."}) = {}
    <2>1. z = [s EXCEPT !.scale = 1]
        BY <1>1, <1>3, <1>4
    <2>2. z.stop = "no" /\ z.sign = s.sign /\ z.value = s.value /\ z.scale = 1
        BY <1>1, <2>1 DEF States
    <2>3. 10 ^ 0 = 1
        BY TensAre
    <2>4. /\ Wellformed(f, k + 1) /\ With(f, k + 1, Numerals) = With(f, k, Numerals) /\ Signed(f, k + 1) = Signed(f, k)
          /\ With(f, k + 1, {"."}) # {} /\ Cardinality(Behind(f, k + 1)) = 0
        BY <1>4, WellPoint
    <2>5. z.scale = 10 ^ Cardinality(Behind(f, k + 1))
        BY <2>2, <2>3, <2>4
    <2>6. HasRead(f, k + 1, z, v)
        BY <1>1, <2>2, <2>4, <2>5, Zenon DEF HasRead
    <2> QED
        BY <1>2, <2>6
<1>5. CASE With(f, k, {"."}) # {}
    <2>1. s.scale # 0
        <3>1. PICK m \in Nat : m = Cardinality(Behind(f, k))
            <4>1. Behind(f, k) \subseteq With(f, k, Numerals)
                BY Zenon DEF Behind
            <4>2. IsFiniteSet(Behind(f, k))
                BY <4>1, WithIs, FS_Subset
            <4> QED
                BY <4>2, FS_CardinalityType
        <3>2. m \in 0 .. 9
            BY <3>1
        <3>3. 10 ^ m # 0
            BY <3>2, TensAre
        <3> QED
            BY <1>1, <1>5, <3>1, <3>3, Zenon
    <2>2. z.stop = "error"
        BY <1>3, <2>1, Erred
    <2>3. ~Wellformed(f, k + 1)
        BY <1>5, WellPoint
    <2> QED
        BY <1>2, <2>2, <2>3, Zenon DEF HasRead
<1> QED
    BY <1>4, <1>5

LEMMA ReadSign ==
    ASSUME NEW f, NEW k \in Nat, NEW s \in States, NEW v \in Nat, Wellformed(f, k), HasRead(f, k, s, v),
           f[k + 1] \in {"+", "-"}
    PROVE  HasRead(f, k + 1, Float_char(s, f[k + 1]), v)
<1>1. /\ s.stop = "no" /\ s.sign = Signed(f, k)
      /\ s.value = (IF With(f, k, Numerals) = {} THEN -1 ELSE v)
      /\ With(f, k, Numerals) = {} => v = 0
      /\ s.scale = (IF With(f, k, {"."}) = {} THEN 0 ELSE 10 ^ Cardinality(Behind(f, k)))
    BY Zenon DEF HasRead
<1>2. PICK c, z : c = f[k + 1] /\ z = Float_char(s, c)
    OBVIOUS
<1>3. z = IF s.sign = 0 /\ s.value = -1 THEN [s EXCEPT !.sign = IF c = "+" THEN 1 ELSE -1]
          ELSE [s EXCEPT !.stop = "error"]
    BY <1>1, <1>2, CharSign
<1>4. s.value = -1 <=> With(f, k, Numerals) = {}
    BY <1>1
<1>5. s.sign = 0 <=> With(f, k, {"+", "-"}) = {}
    BY <1>1 DEF Signed
<1>6. CASE With(f, k, Numerals) = {} /\ With(f, k, {"+", "-"}) = {}
    <2>1. z = [s EXCEPT !.sign = IF c = "+" THEN 1 ELSE -1]
        BY <1>3, <1>4, <1>5, <1>6, Zenon
    <2>2. z.stop = "no" /\ z.sign = (IF c = "+" THEN 1 ELSE -1) /\ z.value = s.value /\ z.scale = s.scale
        BY <1>1, <2>1 DEF States
    <2>3. /\ Wellformed(f, k + 1) /\ With(f, k + 1, Numerals) = With(f, k, Numerals)
          /\ With(f, k + 1, {"."}) = With(f, k, {"."}) /\ Behind(f, k + 1) = Behind(f, k)
          /\ Signed(f, k + 1) = IF c = "+" THEN 1 ELSE -1
        BY <1>2, <1>6, WellSign, Zenon
    <2>4. HasRead(f, k + 1, z, v)
        BY <1>1, <2>2, <2>3, Zenon DEF HasRead
    <2> QED
        BY <1>2, <2>4
<1>7. CASE ~(With(f, k, Numerals) = {} /\ With(f, k, {"+", "-"}) = {})
    <2>1. z = [s EXCEPT !.stop = "error"]
        BY <1>3, <1>4, <1>5, <1>7, Zenon
    <2>2. z.stop = "error"
        BY <2>1, Erred
    <2>3. ~Wellformed(f, k + 1)
        BY <1>7, WellSign, Zenon
    <2> QED
        BY <1>2, <2>2, <2>3, Zenon DEF HasRead
<1> QED
    BY <1>6, <1>7

\* After a character of a number it is no longer as it was at first.
LEMMA Started ==
    ASSUME NEW f, NEW k \in Nat \ {0}, NEW s \in States, NEW v \in Nat, Wellformed(f, k), HasRead(f, k, s, v)
    PROVE  s # Float
<1>1. /\ s.stop = "no" /\ s.sign = Signed(f, k)
      /\ s.value = (IF With(f, k, Numerals) = {} THEN -1 ELSE v)
      /\ s.scale = (IF With(f, k, {"."}) = {} THEN 0 ELSE 10 ^ Cardinality(Behind(f, k)))
    BY Zenon DEF HasRead
<1> SUFFICES ASSUME s = Float PROVE FALSE
    OBVIOUS
<1>2. s.sign = 0 /\ s.value = -1 /\ s.scale = 0
    BY DEF Float
<1>3. With(f, k, {"+", "-"}) = {}
    BY <1>1, <1>2 DEF Signed
<1>4. With(f, k, Numerals) = {}
    BY <1>1, <1>2
<1>5. With(f, k, {"."}) # {}
    <2>1. 1 \in 1 .. k
        OBVIOUS
    <2>2. f[1] \in Numerals \cup {"+", "-", "."}
        BY <2>1, Zenon DEF Wellformed
    <2> QED
        BY <1>3, <1>4, <2>1, <2>2, Zenon DEF With
<1>6. Behind(f, k) = {}
    BY <1>4, Zenon DEF Behind
<1>7. Cardinality(Behind(f, k)) = 0 /\ 10 ^ 0 = 1
    BY <1>6, FS_EmptySet, TensAre
<1>8. s.scale = 10 ^ Cardinality(Behind(f, k))
    BY <1>1, <1>5, Zenon
<1> QED
    BY <1>2, <1>7, <1>8

LEMMA FirstOrNot == ASSUME NEW k \in Nat PROVE k + 1 = 1 \/ k \in Nat \ {0}
    OBVIOUS

LEMMA ReadOther ==
    ASSUME NEW f, NEW k \in Nat, NEW s \in States, NEW v \in Nat, Wellformed(f, k), HasRead(f, k, s, v),
           f[k + 1] \notin Numerals \cup {"+", "-", "."}, f[1] # " "
    PROVE  HasRead(f, k + 1, Float_char(s, f[k + 1]), v)
<1>1. /\ s.stop = "no" /\ s.sign = Signed(f, k)
      /\ s.value = (IF With(f, k, Numerals) = {} THEN -1 ELSE v)
      /\ With(f, k, Numerals) = {} => v = 0
      /\ s.scale = (IF With(f, k, {"."}) = {} THEN 0 ELSE 10 ^ Cardinality(Behind(f, k)))
    BY Zenon DEF HasRead
<1>2. f[k + 1] = " " => s # Float
    <2>1. k + 1 = 1 \/ k \in Nat \ {0}
        BY FirstOrNot, Zenon
    <2>2. CASE k \in Nat \ {0}
        BY <2>2, Started
    <2>3. CASE k + 1 = 1
        BY <2>3, Zenon
    <2> QED
        BY <2>1, <2>2, <2>3
<1>3. Float_char(s, f[k + 1]) = [s EXCEPT !.stop = "error"]
    BY <1>1, <1>2, CharOther
<1>4. Float_char(s, f[k + 1]).stop = "error"
    BY <1>3, Erred
<1>5. ~Wellformed(f, k + 1)
    BY WellOther
<1> QED
    BY <1>4, <1>5, Zenon DEF HasRead

\* The characters of a number have those of one before them.
LEMMA WellBefore == ASSUME NEW f, NEW k \in Nat, Wellformed(f, k + 1) PROVE Wellformed(f, k)
    BY WellDigit, WellPoint, WellSign, WellOther, Zenon

LEMMA Nothing ==
    ASSUME NEW f
    PROVE  Wellformed(f, 0) /\ (\A C : With(f, 0, C) = {}) /\ Behind(f, 0) = {} /\ Signed(f, 0) = 0
<1>1. \A C : With(f, 0, C) = {}
    <2>1. 1 .. 0 = {}
        OBVIOUS
    <2> QED
        BY <2>1, Zenon DEF With
<1>2. Behind(f, 0) = {} /\ Signed(f, 0) = 0
    BY <1>1, Zenon DEF Behind, Signed
<1>3. Single({})
    BY DEF Single
<1>4. Wellformed(f, 0)
    <2>1. 1 .. 0 = {}
        OBVIOUS
    <2> QED
        BY <1>1, <1>3, <2>1, Zenon DEF Wellformed
<1> QED
    BY <1>1, <1>2, <1>4

LEMMA BehindGrows ==
    ASSUME NEW f, NEW n \in Nat, NEW k \in 0 .. n, Cardinality(Behind(f, n)) < 10,
           10 ^ Cardinality(Behind(f, n)) <= IntMax
    PROVE  /\ Cardinality(Behind(f, k)) \in 0 .. 9 /\ 10 ^ Cardinality(Behind(f, k)) <= IntMax
           /\ Cardinality(Behind(f, n)) \in 0 .. 9
<1>1. 1 .. k \subseteq 1 .. n
    OBVIOUS
<1>2. Behind(f, k) \subseteq Behind(f, n)
    BY <1>1, Zenon DEF Behind, With
<1>3. IsFiniteSet(Behind(f, n))
    <2>1. Behind(f, n) \subseteq With(f, n, Numerals)
        BY Zenon DEF Behind
    <2> QED
        BY <2>1, WithIs, FS_Subset
<1>4. /\ Cardinality(Behind(f, k)) \in Nat /\ Cardinality(Behind(f, n)) \in Nat
      /\ Cardinality(Behind(f, k)) <= Cardinality(Behind(f, n))
    BY <1>2, <1>3, FS_Subset, FS_CardinalityType
<1>5. PICK a \in 0 .. 9, b \in 0 .. 9 : a = Cardinality(Behind(f, k)) /\ b = Cardinality(Behind(f, n)) /\ a <= b
    BY <1>4
<1>6. 10 ^ a <= 10 ^ b /\ 10 ^ a \in Nat /\ 10 ^ b \in Nat
    BY <1>5, TensAre, Zenon
<1>7. 10 ^ a <= IntMax
    <2>1. PICK x \in Nat, y \in Nat : x = 10 ^ a /\ y = 10 ^ b
        BY <1>6
    <2>2. x <= y /\ y <= IntMax
        BY <1>5, <1>6, <2>1
    <2> QED
        BY <2>1, <2>2, IntIs
<1> QED
    BY <1>5, <1>7

\* The blanks in front are gone.
Unblank(f) == f # <<>> => f[1] # " "

LEMMA LoopReads ==
    ASSUME NEW V, NEW f \in Seq(V), Unblank(f), NEW after, Loops(f, after), NEW upto, Writes(f, upto),
           NEW n \in 0 .. Len(f), \A k \in 0 .. n : upto[k] <= IntMax,
           Cardinality(Behind(f, n)) < 10, 10 ^ Cardinality(Behind(f, n)) <= IntMax
    PROVE  HasRead(f, n, after[n], upto[n])
<1>1. PICK m \in Nat : m = Len(f) /\ n \in 0 .. m /\ n \in Nat
    OBVIOUS
<1>2. /\ \A k \in 0 .. m : after[k] \in States /\ upto[k] \in Nat
      /\ after[0] = Float /\ \A k \in 1 .. m : after[k] = Float_char(after[k - 1], f[k])
      /\ upto[0] = 0 /\ \A k \in 1 .. m : upto[k] = Next_digit(upto[k - 1], f[k])
    BY <1>1 DEF Loops, Writes
<1> DEFINE T == {k \in Nat : k <= n => HasRead(f, k, after[k], upto[k])}
<1>3. 0 \in T
    <2>1. HasRead(f, 0, Float, 0)
        BY Nothing DEF HasRead, Float
    <2> QED
        BY <1>2, <2>1
<1>4. ASSUME NEW k \in Nat, k \in T PROVE k + 1 \in T
    <2> SUFFICES ASSUME k + 1 <= n PROVE HasRead(f, k + 1, after[k + 1], upto[k + 1])
        OBVIOUS
    <2>1. /\ k \in 0 .. n /\ k + 1 \in 0 .. n /\ k \in 0 .. m /\ k + 1 \in 1 .. m /\ (k + 1) - 1 = k /\ k <= n
          /\ m # 0
        BY <1>1
    <2>2. PICK s, v, c : s = after[k] /\ v = upto[k] /\ c = f[k + 1]
        OBVIOUS
    <2>3. s \in States /\ v \in Nat /\ HasRead(f, k, s, v)
        BY <1>2, <1>4, <2>1, <2>2
    <2>4. after[k + 1] = Float_char(s, c) /\ upto[k + 1] = Next_digit(v, c)
        BY <1>2, <2>1, <2>2
    <2>5. v <= IntMax /\ Next_digit(v, c) <= IntMax
        BY <2>1, <2>2, <2>4
    <2>6. Cardinality(Behind(f, k)) < 10 /\ Cardinality(Behind(f, k + 1)) < 10 /\ 10 ^ Cardinality(Behind(f, k + 1)) <= IntMax
        <3>1. Cardinality(Behind(f, k)) \in 0 .. 9 /\ Cardinality(Behind(f, k + 1)) \in 0 .. 9
            BY <1>1, <2>1, BehindGrows, Zenon
        <3>2. 10 ^ Cardinality(Behind(f, k + 1)) <= IntMax
            BY <1>1, <2>1, BehindGrows, Zenon
        <3>3. \A x \in 0 .. 9 : x < 10
            OBVIOUS
        <3> QED
            BY <3>1, <3>2, <3>3, Zenon
    <2>7. f[1] # " "
        <3>1. Len(<<>>) = 0
            OBVIOUS
        <3>2. Len(f) # 0
            BY <1>1, <2>1
        <3> QED
            BY <3>1, <3>2, Zenon DEF Unblank
    <2>8. c \notin Numerals => Next_digit(v, c) = v
        BY DigitIs DEF Next_digit
    <2>9. HasRead(f, k + 1, Float_char(s, c), Next_digit(v, c))
        <3>1. CASE ~Wellformed(f, k)
            <4>1. s.stop = "error" /\ ~Wellformed(f, k + 1)
                BY <2>3, <3>1, WellBefore, Zenon DEF HasRead
            <4>2. s.stop # "no"
                BY <4>1
            <4>3. Float_char(s, c) = s
                BY <4>2, CharStopped
            <4> QED
                BY <4>1, <4>3, Zenon DEF HasRead
        <3>2. CASE Wellformed(f, k) /\ c \in Numerals
            BY <2>2, <2>3, <2>5, <2>6, <3>2, ReadDigit, Zenon
        <3>3. CASE Wellformed(f, k) /\ c = "."
            <4>1. c \notin Numerals
                BY <3>3, DigitIs
            <4> QED
                BY <2>2, <2>3, <2>6, <2>8, <3>3, <4>1, ReadPoint, Zenon
        <3>4. CASE Wellformed(f, k) /\ c \in {"+", "-"}
            <4>1. c \notin Numerals
                BY <3>4, DigitIs
            <4> QED
                BY <2>2, <2>3, <2>8, <3>4, <4>1, ReadSign, Zenon
        <3>5. CASE Wellformed(f, k) /\ c \notin Numerals \cup {"+", "-", "."}
            BY <2>2, <2>3, <2>7, <2>8, <3>5, ReadOther, Zenon
        <3> QED
            BY <3>1, <3>2, <3>3, <3>4, <3>5, Zenon
    <2> QED
        BY <2>4, <2>9, Zenon
<1>5. n \in T
    <2> HIDE DEF T
    <2> QED
        BY <1>1, <1>3, <1>4, Inductive
<1> QED
    BY <1>1, <1>5

\* Where the number stops being an int, the loop stops.
LEMMA LoopOverflows ==
    ASSUME NEW f, NEW n \in Nat, NEW s \in States, NEW v \in Nat, HasRead(f, n, s, v), Wellformed(f, n),
           v <= IntMax, Next_digit(v, f[n + 1]) > IntMax
    PROVE  /\ With(f, n, Numerals) # {}
           /\ Float_char(s, f[n + 1]) = [s EXCEPT !.stop = IF With(f, n, {"."}) # {} THEN "cut" ELSE "error"]
                \/ (10 ^ Cardinality(Behind(f, n)) = 0)
<1>1. PICK c : c = f[n + 1]
    OBVIOUS
<1>2. IntMax \in Nat /\ IntMax >= 127
    BY IntIs
<1>3. c \in Numerals
    <2>1. ~isdigit(c) => Next_digit(v, c) = v
        BY DEF Next_digit
    <2>2. PICK w \in Nat : w = Next_digit(v, c)
        BY NextTyped
    <2>3. w > IntMax /\ w # v
        BY <1>1, <1>2, <2>2
    <2> QED
        BY <2>1, <2>2, <2>3, DigitIs, Zenon
<1>4. PICK d \in 0 .. 9 : d = Digit[c]
    BY <1>3, DigitIs
<1>5. 10 * v + d > IntMax
    <2>1. isdigit(c)
        BY <1>3, DigitIs
    <2> QED
        BY <1>1, <1>4, <2>1 DEF Next_digit
<1>6. v > (IntMax - d) \div 10 /\ v # 0
    BY <1>2, <1>5
<1>7. /\ s.stop = "no" /\ s.value = (IF With(f, n, Numerals) = {} THEN -1 ELSE v)
      /\ With(f, n, Numerals) = {} => v = 0
      /\ s.scale = (IF With(f, n, {"."}) = {} THEN 0 ELSE 10 ^ Cardinality(Behind(f, n)))
    BY Zenon DEF HasRead
<1>8. With(f, n, Numerals) # {} /\ s.value = v /\ s.value # -1
    BY <1>6, <1>7
<1>9. Float_char(s, c) = Float_digit(s, d)
    BY <1>3, <1>4, <1>7, CharDigit
<1>10. Float_digit(s, d) = [s EXCEPT !.value = v, !.stop = IF s.scale # 0 THEN "cut" ELSE "error"]
    BY <1>6, <1>8, Zenon DEF Float_digit
<1>11. [s EXCEPT !.value = v, !.stop = IF s.scale # 0 THEN "cut" ELSE "error"]
            = [s EXCEPT !.stop = IF s.scale # 0 THEN "cut" ELSE "error"]
    BY <1>8 DEF States
<1>12. 10 ^ Cardinality(Behind(f, n)) # 0 => (s.scale # 0 <=> With(f, n, {"."}) # {})
    BY <1>7, Zenon
<1> QED
    BY <1>1, <1>8, <1>9, <1>10, <1>11, <1>12, Zenon

(* What the loop ends with. *)
LEMMA LoopEnds ==
    ASSUME NEW V, NEW f \in Seq(V), Unblank(f), NEW n, n = Fitting(f),
           Cardinality(Behind(f, n)) < 10, 10 ^ Cardinality(Behind(f, n)) <= IntMax
    PROVE  /\ n \in 0 .. Len(f) /\ Capped(f, n) \in Nat
           /\ Float_loop(f) \in States
           /\ IF Wellformed(f, n)
                THEN /\ HasRead(f, n, [Float_loop(f) EXCEPT !.stop = "no"], Capped(f, n))
                     /\ Float_loop(f).stop = IF n = Len(f) THEN "no"
                                             ELSE IF With(f, n, {"."}) # {} THEN "cut" ELSE "error"
                     /\ n # Len(f) => With(f, n, Numerals) # {}
                ELSE Float_loop(f).stop = "error"
<1>1. PICK after : Loops(f, after) /\ Float_loop(f) = after[Len(f)]
    BY LoopIs
<1>2. PICK upto : Writes(f, upto) /\ \A k \in 0 .. Len(f) : Capped(f, k) = upto[k]
    BY CappedIs
<1>3. /\ n \in 0 .. Len(f)
      /\ n < Len(f) => upto[n + 1] > IntMax
      /\ \A k \in 0 .. n : upto[k] <= IntMax
    BY <1>2, FittingIs, Zenon
<1>4. PICK m \in Nat : m = Len(f) /\ n \in 0 .. m /\ n \in Nat
    BY <1>3
<1>5. HasRead(f, n, after[n], upto[n])
    BY <1>1, <1>2, <1>3, LoopReads, Zenon
<1>6. /\ \A k \in 0 .. m : after[k] \in States /\ upto[k] \in Nat
      /\ \A k \in 1 .. m : after[k] = Float_char(after[k - 1], f[k])
      /\ \A k \in 1 .. m : upto[k] = Next_digit(upto[k - 1], f[k])
    BY <1>1, <1>2, <1>4 DEF Loops, Writes
<1>7. PICK s, v, z : s = after[n] /\ v = upto[n] /\ z = after[m]
    OBVIOUS
<1>8. s \in States /\ z \in States /\ v \in Nat /\ v = Capped(f, n) /\ z = Float_loop(f) /\ HasRead(f, n, s, v)
    <2>1. m \in 0 .. m
        BY <1>4
    <2> QED
        BY <1>1, <1>2, <1>3, <1>4, <1>5, <1>6, <1>7, <2>1, Zenon
\* A loop that has stopped stays as it is.
<1>9. ASSUME NEW i \in 0 .. m, after[i].stop # "no" PROVE z = after[i]
    <2> DEFINE T == {j \in Nat : i + j <= m => after[i + j] = after[i]}
    <2>1. 0 \in T
        OBVIOUS
    <2>2. ASSUME NEW j \in Nat, j \in T PROVE j + 1 \in T
        <3> SUFFICES ASSUME i + (j + 1) <= m PROVE after[i + (j + 1)] = after[i]
            OBVIOUS
        <3>1. PICK k \in 1 .. m : k = i + (j + 1) /\ k - 1 = i + j /\ i + j <= m
            BY <1>4
        <3>2. after[i + j] = after[i]
            BY <2>2, <3>1
        <3>3. after[k] = Float_char(after[i], f[k])
            BY <1>6, <3>1, <3>2, Zenon
        <3>4. after[k] = after[i]
            BY <1>9, <3>3, CharStopped
        <3> QED
            BY <3>1, <3>4, Zenon
    <2>3. m - i \in Nat /\ i + (m - i) = m
        BY <1>4
    <2>4. m - i \in T
        <3> HIDE DEF T
        <3> QED
            BY <2>1, <2>2, <2>3, Inductive
    <2> QED
        BY <1>4, <1>7, <2>3, <2>4
<1>10. CASE ~Wellformed(f, n)
    <2>1. s.stop = "error"
        BY <1>8, <1>10, Zenon DEF HasRead
    <2>2. s.stop # "no"
        BY <2>1
    <2>3. z = s
        BY <1>4, <1>7, <1>9, <2>2, Zenon
    <2> QED
        BY <1>3, <1>8, <1>10, <2>1, <2>3, Zenon
<1>11. CASE Wellformed(f, n) /\ n = Len(f)
    <2>1. z = s
        BY <1>4, <1>7, <1>11, Zenon
    <2>2. s.stop = "no"
        BY <1>8, <1>11, Zenon DEF HasRead
    <2>3. [s EXCEPT !.stop = "no"] = s
        BY <1>8, <2>2 DEF States
    <2> QED
        BY <1>3, <1>8, <1>11, <2>1, <2>2, <2>3, Zenon
<1>12. CASE Wellformed(f, n) /\ n # Len(f)
    <2>1. n < Len(f) /\ n + 1 \in 1 .. m /\ (n + 1) - 1 = n /\ n + 1 \in 0 .. m /\ n \in 0 .. n
        BY <1>4, <1>12
    <2>2. v <= IntMax /\ Next_digit(v, f[n + 1]) > IntMax
        BY <1>3, <1>6, <1>7, <2>1, Zenon
    <2>3. 10 ^ Cardinality(Behind(f, n)) # 0
        <3>1. Cardinality(Behind(f, n)) \in 0 .. 9
            BY <1>4, BehindGrows
        <3> QED
            BY <3>1, TensAre, Zenon
    <2>4. /\ With(f, n, Numerals) # {}
          /\ Float_char(s, f[n + 1]) = [s EXCEPT !.stop = IF With(f, n, {"."}) # {} THEN "cut" ELSE "error"]
        BY <1>4, <1>8, <1>12, <2>2, <2>3, LoopOverflows, Zenon
    <2>5. PICK x : x = (IF With(f, n, {"."}) # {} THEN "cut" ELSE "error")
        OBVIOUS
    <2>6. after[n + 1] = [s EXCEPT !.stop = x]
        BY <1>6, <1>7, <2>1, <2>4, <2>5, Zenon
    <2>7. x # "no"
        BY <2>5
    <2>8. [s EXCEPT !.stop = x].stop = x
        BY <1>8 DEF States
    <2>9. z = [s EXCEPT !.stop = x]
        BY <1>9, <2>1, <2>6, <2>7, <2>8, Zenon
    <2>10. s.stop = "no"
        BY <1>8, <1>12, Zenon DEF HasRead
    <2>11. [[s EXCEPT !.stop = x] EXCEPT !.stop = "no"] = s
        BY <1>8, <2>10 DEF States
    <2> QED
        BY <1>3, <1>8, <1>12, <2>4, <2>5, <2>8, <2>9, <2>11, Zenon
<1> QED
    BY <1>10, <1>11, <1>12

LEMMA SingleIs == ASSUME NEW S, IsFiniteSet(S) PROVE Cardinality(S) <= 1 <=> Single(S)
<1>1. Cardinality(S) \in Nat
    BY FS_CardinalityType
<1>2. Cardinality(S) <= 1 <=> Cardinality(S) = 0 \/ Cardinality(S) = 1
    BY <1>1
<1>3. (Cardinality(S) = 0 <=> S = {}) /\ (Cardinality(S) = 1 <=> \E x : S = {x})
    BY FS_EmptySet, FS_Singleton
<1>4. S = {} => Single(S)
    BY DEF Single
<1>5. (\E x : S = {x}) => Single(S)
    BY DEF Single
<1>6. Single(S) => S = {} \/ \E x : S = {x}
    <2> SUFFICES ASSUME Single(S), S # {} PROVE \E x : S = {x}
        OBVIOUS
    <2>1. PICK x \in S : TRUE
        OBVIOUS
    <2>2. S = {x}
        BY <2>1 DEF Single
    <2> QED
        BY <2>2
<1> QED
    BY <1>2, <1>3, <1>4, <1>5, <1>6, Zenon

LEMMA PrefixIs ==
    ASSUME NEW V, NEW f \in Seq(V), NEW n \in 0 .. Len(f), NEW g, g = SubSeq(f, 1, n)
    PROVE  /\ Where(g, {"."}) = With(f, n, {"."})
           /\ Decimals(g) = Cardinality(Behind(f, n))
           /\ IsNumber(g) <=> Wellformed(f, n) /\ With(f, n, Numerals) # {}
           /\ g = f <=> n = Len(f)
           /\ "-" \in ToSet(g) <=> With(f, n, {"-"}) # {}
<1>1. PICK m \in Nat : m = Len(f) /\ n \in 0 .. m /\ n \in Nat
    OBVIOUS
<1>2. g \in Seq(V) /\ Len(g) = n /\ \A i \in 1 .. n : g[i] = f[i]
    BY <1>1
<1>3. DOMAIN g = 1 .. n
    BY <1>2
<1>4. \A C : Where(g, C) = With(f, n, C)
    BY <1>2, <1>3, Zenon DEF Where, With
<1>5. Decimals(g) = Cardinality(Behind(f, n))
    BY <1>4, Zenon DEF Decimals, Behind
<1>6. IsNumber(g) <=> Wellformed(f, n) /\ With(f, n, Numerals) # {}
    <2>1. \A C : IsFiniteSet(With(f, n, C))
        BY <1>1, WithIs
    <2>2. /\ Cardinality(With(f, n, {"."})) <= 1 <=> Single(With(f, n, {"."}))
          /\ Cardinality(With(f, n, {"+", "-"})) <= 1 <=> Single(With(f, n, {"+", "-"}))
        BY <2>1, SingleIs
    <2>3. With(f, n, Numerals \cup {"+", "-", "."}) = 1 .. n
            <=> \A i \in 1 .. n : f[i] \in Numerals \cup {"+", "-", "."}
        BY Zenon DEF With
    <2> QED
        BY <1>3, <1>4, <2>2, <2>3, Zenon DEF IsNumber, Wellformed
<1>7. g = f <=> n = Len(f)
    <2>1. g = f => n = Len(f)
        BY <1>2
    <2>2. ASSUME n = Len(f) PROVE g = f
        <3>1. \A i \in 1 .. Len(f) : g[i] = f[i]
            BY <1>2, <2>2
        <3>2. Len(g) = Len(f)
            BY <1>2, <2>2
        <3> QED
            BY <1>2, <3>1, <3>2
    <2> QED
        BY <2>1, <2>2
<1>8. "-" \in ToSet(g) <=> With(f, n, {"-"}) # {}
    BY <1>2, <1>3, Zenon DEF ToSet, With
<1> QED
    BY <1>4, <1>5, <1>6, <1>7, <1>8

\* A fraction without blanks in front is read as it is written.
LEMMA ScanIs ==
    ASSUME NEW V, NEW f \in Seq(V), Unblank(f), ScaleFits(f)
    PROVE  scan_f(f) = Fraction(f)
<1>1. PICK n, g, v, s : n = Fitting(f) /\ g = SubSeq(f, 1, n) /\ v = Capped(f, n) /\ s = Float_loop(f)
    OBVIOUS
<1>3. n \in 0 .. Len(f)
    <2>1. PICK upto : Writes(f, upto) /\ \A k \in 0 .. Len(f) : Capped(f, k) = upto[k]
        BY CappedIs
    <2> QED
        BY <1>1, <2>1, FittingIs, Zenon
<1>4. /\ Where(g, {"."}) = With(f, n, {"."})
      /\ Decimals(g) = Cardinality(Behind(f, n))
      /\ IsNumber(g) <=> Wellformed(f, n) /\ With(f, n, Numerals) # {}
      /\ g = f <=> n = Len(f)
      /\ "-" \in ToSet(g) <=> With(f, n, {"-"}) # {}
    <2>1. /\ n \in 0 .. Len(f) /\ g = SubSeq(f, 1, n)
        BY <1>1, <1>3
    <2>2. Where(g, {"."}) = With(f, n, {"."})
        BY <2>1, PrefixIs, Zenon
    <2>3. Decimals(g) = Cardinality(Behind(f, n))
        BY <2>1, PrefixIs, Zenon
    <2>4. IsNumber(g) <=> Wellformed(f, n) /\ With(f, n, Numerals) # {}
        BY <2>1, PrefixIs, Zenon
    <2>5. g = f <=> n = Len(f)
        BY <2>1, PrefixIs
    <2>6. "-" \in ToSet(g) <=> With(f, n, {"-"}) # {}
        BY <2>1, PrefixIs, Zenon
    <2> QED
        BY <2>2, <2>3, <2>4, <2>5, <2>6, Zenon
<1>5. Cardinality(Behind(f, n)) < 10 /\ 10 ^ Cardinality(Behind(f, n)) <= IntMax
    BY <1>1, <1>4, Zenon DEF ScaleFits
<1>6. /\ v \in Nat /\ s \in States
      /\ IF Wellformed(f, n)
           THEN /\ HasRead(f, n, [s EXCEPT !.stop = "no"], v)
                /\ s.stop = IF n = Len(f) THEN "no" ELSE IF With(f, n, {"."}) # {} THEN "cut" ELSE "error"
                /\ n # Len(f) => With(f, n, Numerals) # {}
           ELSE s.stop = "error"
    BY <1>1, <1>5, LoopEnds, Zenon
<1>7. Wellformed(f, n) =>
        /\ s.sign = Signed(f, n)
        /\ s.value = (IF With(f, n, Numerals) = {} THEN -1 ELSE v)
        /\ s.scale = (IF With(f, n, {"."}) = {} THEN 0 ELSE 10 ^ Cardinality(Behind(f, n)))
    <2>1. /\ [s EXCEPT !.stop = "no"].sign = s.sign /\ [s EXCEPT !.stop = "no"].value = s.value
          /\ [s EXCEPT !.stop = "no"].scale = s.scale
        BY <1>6 DEF States
    <2> QED
        BY <1>6, <2>1, Zenon DEF HasRead
<1>8. scan_f(f) = IF s.stop = "error" \/ (s.value = -1 /\ (s.sign # 0 \/ s.scale # 0)) THEN Error
                  ELSE IF s.value = -1 THEN <<"float", 0, 0>>
                  ELSE <<"float", IF s.sign = -1 THEN -s.value ELSE s.value, IF s.scale = 0 THEN 1 ELSE s.scale>>
    BY <1>1, Zenon DEF scan_f
<1>9. Fraction(f) = IF f = <<>> THEN <<"float", 0, 0>>
                    ELSE IF IsNumber(g) /\ (n = Len(f) \/ With(f, n, {"."}) # {})
                      THEN <<"float", IF With(f, n, {"-"}) # {} THEN -v ELSE v, 10 ^ Cardinality(Behind(f, n))>>
                    ELSE Error
    BY <1>1, <1>4, Zenon DEF Fraction
<1>10. PICK d \in 0 .. 9, x \in Nat \ {0} : d = Cardinality(Behind(f, n)) /\ x = 10 ^ d
    <2>1. n \in Nat
        BY <1>3
    <2>2. Cardinality(Behind(f, n)) \in 0 .. 9
        BY <1>5, <2>1, BehindGrows
    <2> QED
        BY <2>2, TensAre, Zenon
<1>11. CASE f = <<>>
    <2>1. n = 0 /\ n = Len(f)
        BY <1>3, <1>11
    <2>2. Wellformed(f, n) /\ With(f, n, Numerals) = {} /\ Signed(f, n) = 0 /\ With(f, n, {"."}) = {}
        BY <2>1, Nothing, Zenon
    <2>3. s.stop = "no" /\ s.sign = 0 /\ s.value = -1 /\ s.scale = 0
        BY <1>6, <1>7, <2>1, <2>2, Zenon
    <2>4. s.stop # "error"
        BY <2>3
    <2> QED
        BY <1>8, <1>9, <1>11, <2>3, <2>4, Zenon
<1>12. CASE ~Wellformed(f, n)
    <2>1. f # <<>>
        <3> SUFFICES ASSUME f = <<>> PROVE FALSE
            OBVIOUS
        <3>1. n = 0
            BY <1>3
        <3> QED
            BY <1>12, <3>1, Nothing, Zenon
    <2>2. scan_f(f) = Error
        BY <1>6, <1>8, <1>12, Zenon
    <2>3. Fraction(f) = Error
        BY <1>4, <1>9, <1>12, <2>1, Zenon
    <2> QED
        BY <2>2, <2>3
<1>13. CASE f # <<>> /\ Wellformed(f, n) /\ With(f, n, Numerals) = {}
    <2>1. n = Len(f)
        BY <1>6, <1>13, Zenon
    <2>2. 1 \in 1 .. n
        <3>1. Len(f) \in Nat /\ Len(f) # 0
            BY <1>13
        <3> QED
            BY <2>1, <3>1
    <2>3. With(f, n, {"+", "-"}) # {} \/ With(f, n, {"."}) # {}
        <3>1. f[1] \in Numerals \cup {"+", "-", "."}
            BY <1>13, <2>2, Zenon DEF Wellformed
        <3> QED
            BY <1>13, <2>2, <3>1, Zenon DEF With
    <2>4. s.value = -1
        BY <1>7, <1>13, Zenon
    <2>5. s.sign # 0 \/ s.scale # 0
        <3>1. CASE With(f, n, {"+", "-"}) # {}
            <4>1. Signed(f, n) # 0
                BY <3>1 DEF Signed
            <4> QED
                BY <1>7, <1>13, <4>1, Zenon
        <3>2. CASE With(f, n, {"."}) # {}
            <4>1. s.scale = x
                BY <1>7, <1>10, <1>13, <3>2, Zenon
            <4> QED
                BY <1>10, <4>1
        <3> QED
            BY <2>3, <3>1, <3>2
    <2>6. scan_f(f) = Error
        BY <1>8, <2>4, <2>5, Zenon
    <2>7. Fraction(f) = Error
        BY <1>4, <1>9, <1>13, Zenon
    <2> QED
        BY <2>6, <2>7
<1>14. CASE /\ f # <<>> /\ Wellformed(f, n) /\ With(f, n, Numerals) # {}
            /\ n # Len(f) /\ With(f, n, {"."}) = {}
    <2>1. s.stop = "error"
        BY <1>6, <1>14, Zenon
    <2>2. scan_f(f) = Error
        BY <1>8, <2>1, Zenon
    <2>3. Fraction(f) = Error
        BY <1>4, <1>9, <1>14, Zenon
    <2> QED
        BY <2>2, <2>3
<1>15. CASE /\ f # <<>> /\ Wellformed(f, n) /\ With(f, n, Numerals) # {}
            /\ n = Len(f) \/ With(f, n, {"."}) # {}
    <2>1. s.stop # "error"
        <3>1. s.stop = "no" \/ s.stop = "cut"
            BY <1>6, <1>15, Zenon
        <3> QED
            BY <3>1
    <2>2. s.value = v /\ v # -1
        <3>1. s.value = v
            BY <1>7, <1>15, Zenon
        <3>2. v # -1
            BY <1>6
        <3> QED
            BY <3>1, <3>2
    <2>3. s.sign = -1 <=> With(f, n, {"-"}) # {}
        <3>1. With(f, n, {"-"}) \subseteq With(f, n, {"+", "-"})
            BY Zenon DEF With
        <3>2. s.sign = IF With(f, n, {"+", "-"}) = {} THEN 0 ELSE IF With(f, n, {"-"}) = {} THEN 1 ELSE -1
            BY <1>7, <1>15, Zenon DEF Signed
        <3> QED
            BY <3>1, <3>2
    <2>4. (IF s.scale = 0 THEN 1 ELSE s.scale) = x
        <3>1. CASE With(f, n, {"."}) = {}
            <4>1. Behind(f, n) = {}
                BY <3>1, Zenon DEF Behind
            <4>2. d = 0
                BY <1>10, <4>1, FS_EmptySet
            <4>3. x = 1
                BY <1>10, <4>2, TensAre
            <4>4. s.scale = 0
                BY <1>7, <1>15, <3>1, Zenon
            <4> QED
                BY <4>3, <4>4
        <3>2. CASE With(f, n, {"."}) # {}
            <4>1. s.scale = x
                BY <1>7, <1>10, <1>15, <3>2, Zenon
            <4> QED
                BY <1>10, <4>1
        <3> QED
            BY <3>1, <3>2
    <2>5. scan_f(f) = <<"float", IF s.sign = -1 THEN -s.value ELSE s.value, IF s.scale = 0 THEN 1 ELSE s.scale>>
        BY <1>8, <2>1, <2>2, Zenon
    <2>6. Fraction(f) = <<"float", IF With(f, n, {"-"}) # {} THEN -v ELSE v, x>>
        BY <1>4, <1>9, <1>10, <1>15, Zenon
    <2>7. (IF s.sign = -1 THEN -s.value ELSE s.value) = (IF With(f, n, {"-"}) # {} THEN -v ELSE v)
        BY <2>2, <2>3
    <2>8. PICK y : y = IF With(f, n, {"-"}) # {} THEN -v ELSE v
        OBVIOUS
    <2>9. scan_f(f) = <<"float", y, x>>
        <3>1. PICK a, b : a = (IF s.sign = -1 THEN -s.value ELSE s.value) /\ b = (IF s.scale = 0 THEN 1 ELSE s.scale)
            OBVIOUS
        <3>2. scan_f(f) = <<"float", a, b>>
            BY <2>5, <3>1, Zenon
        <3>3. a = y /\ b = x
            BY <2>4, <2>7, <2>8, <3>1, Zenon
        <3> QED
            BY <3>2, <3>3, Zenon
    <2>10. Fraction(f) = <<"float", y, x>>
        BY <2>6, <2>8, Zenon
    <2> QED
        BY <2>9, <2>10, Zenon
<1> QED
    BY <1>11, <1>12, <1>13, <1>14, <1>15, Zenon

LEMMA FieldIs == ASSUME NEW V, NEW f \in Seq(V), ScaleFits(Rest(f)) PROVE scan_f(f) = Fraction(Rest(f))
<1>1. Rest(f) \in Seq(V) /\ Unblank(Rest(f))
    BY RestIs, Zenon DEF Unblank
<1>2. scan_f(f) = scan_f(Rest(f))
    <2>1. Float_loop(f) = Float_loop(Rest(f))
        BY BlanksSkipped
    <2> QED
        BY <2>1, Zenon DEF scan_f
<1> QED
    BY <1>1, <1>2, ScanIs

-----------------------------------------------------------------------------
(***************************************************************************)
(* The fraction that a scan stores.                                        *)
(***************************************************************************)
\* The function with the one fraction, called with its three fields.
Owned == call.fn = "own" /\ Len(call.fields) = 3 /\ scan_t(call.fields[1]) # Error

\* Behind its conversion the fraction is in the frame, and nothing but it can
\* have stopped the scan.
OwnInv ==
    Owned =>
        /\ Done >= 2 => frame["value"] = scan_f(call.fields[2]) /\ scan_f(call.fields[2]) # Error
        /\ result = "error" => scan_f(call.fields[2]) = Error

LEMMA OwnIs ==
    /\ Format["own"] = <<"t", "f", "s">> /\ Len(Format["own"]) = 3
    /\ Format["own"][1] = "t" /\ Format["own"][2] = "f" /\ Format["own"][3] = "s"
    /\ Mark("own") = 0 /\ Args["own"][1][1] = "type" /\ Args["own"][2][1] = "value" /\ Args["own"][3][1] = "rest"
    /\ Len(Args["own"]) = 3
    /\ \A p \in Nat : Arg("own", p) = p /\ Gone("own", p) = p
    BY DEF Format, Args, Mark, Arg, Gone

\* Where such a scan is, and what it reads next.
LEMMA OwnItem ==
    ASSUME FrameInv, Owned, Scanning
    PROVE  /\ Done \in 0 .. 2 /\ field = Done + 1
           /\ Head(format) = Format["own"][Done + 1] /\ Head(ap) = Args["own"][Done + 1]
           /\ Len(Format["own"]) - Len(Tail(format)) = Done + 1
<1>1. call.fn = "own" /\ Len(call.fields) = 3
    BY DEF Owned
<1>2. PICK p : p = Done
    OBVIOUS
<1>3. Item(Format["own"], Args["own"], "own", p) /\ (p + 1 # 0 => Taking(Format["own"], Args["own"], "own", p))
    BY <1>1, <1>2, ItemIs, OwnIs
<1>4. p \in Nat /\ p < 3 /\ Head(format) = Format["own"][p + 1] /\ Len(Format["own"]) - Len(Tail(format)) = p + 1
    BY <1>3, OwnIs DEF Item
<1>5. p \in 0 .. 2 /\ p + 1 # 0
    BY <1>4
<1>6. Arg("own", p + 1) = p + 1
    BY <1>4, OwnIs
<1>7. Head(ap) = Args["own"][p + 1]
    BY <1>3, <1>5, <1>6, Zenon DEF Taking
<1>8. field = p + 1
    <2>1. field = (IF Gone("own", p) < 3 THEN Gone("own", p) + 1 ELSE 0)
        BY <1>1, <1>2, Zenon DEF FrameInv, Counts
    <2>2. Gone("own", p) = p
        BY <1>4, OwnIs
    <2> QED
        BY <1>4, <2>1, <2>2
<1> QED
    BY <1>2, <1>4, <1>5, <1>7, <1>8

LEMMA OwnInit == ScanInit => OwnInv
<1> SUFFICES ASSUME ScanInit, Owned PROVE OwnInv
    BY DEF OwnInv
<1>1. result = "none" /\ call.fn = "own" /\ format = Format["own"]
    BY DEF ScanInit, Owned
<1>2. Done = 0
    BY <1>1, OwnIs DEF Done
<1> QED
    BY <1>1, <1>2 DEF OwnInv

LEMMA OwnConverts ==
    ASSUME FrameInv, OwnInv, Owned, scan_convert
    PROVE  OwnInv'
<1> DEFINE v == Scan(Head(format), FieldText)
<1>1. /\ Scanning /\ call' = call
      /\ \/ v = Error /\ result' = "error" /\ format' = format /\ frame' = frame
         \/ /\ v # Error /\ result' = "none" /\ format' = Tail(format)
            /\ frame' = [frame EXCEPT ![Head(ap)[1]] = v]
    BY Zenon DEF scan_convert, Scanning
<1>2. PICK p : p = Done
    OBVIOUS
<1>3. PICK s : s = call.fields
    OBVIOUS
<1>4. /\ p \in 0 .. 2 /\ field = p + 1 /\ Head(format) = Format["own"][p + 1] /\ Head(ap) = Args["own"][p + 1]
      /\ Len(Format["own"]) - Len(Tail(format)) = p + 1
    BY <1>1, <1>2, OwnItem
<1>5. FieldText = s[p + 1]
    BY <1>3, <1>4 DEF FieldText
<1>6. scan_t(s[1]) # Error /\ call.fn = "own"
    BY <1>3 DEF Owned
<1>7. \/ p = 0 /\ v = scan_t(s[1]) /\ Head(ap)[1] = "type"
      \/ p = 1 /\ v = scan_f(s[2]) /\ Head(ap)[1] = "value"
      \/ p = 2 /\ v = scan_s(s[3]) /\ Head(ap)[1] = "rest"
    <2>1. p = 0 \/ p = 1 \/ p = 2
        BY <1>4
    <2>2. ASSUME p = 0 PROVE v = scan_t(s[1]) /\ Head(ap)[1] = "type"
        BY <1>4, <1>5, <2>2, OwnIs DEF Scan
    <2>3. ASSUME p = 1 PROVE v = scan_f(s[2]) /\ Head(ap)[1] = "value"
        BY <1>4, <1>5, <2>3, OwnIs DEF Scan
    <2>4. ASSUME p = 2 PROVE v = scan_s(s[3]) /\ Head(ap)[1] = "rest"
        BY <1>4, <1>5, <2>4, OwnIs DEF Scan
    <2> QED
        BY <2>1, <2>2, <2>3, <2>4
<1> HIDE DEF v
<1>8. (p >= 2 => frame["value"] = scan_f(s[2]) /\ scan_f(s[2]) # Error) /\ Owned
    BY <1>2, <1>3 DEF OwnInv
<1>9. DOMAIN frame = {"type", "value", "rest"}
    <2>1. DOMAIN Args["own"] = {1, 2, 3}
        BY DEF Args
    <2>2. Members("own") = {"type", "value", "rest"}
        <3> SUFFICES ASSUME NEW m PROVE m \in Members("own") <=> m \in {"type", "value", "rest"}
            OBVIOUS
        <3>1. m \in Members("own") <=> \E i \in {1, 2, 3} : m = Args["own"][i][1]
            BY <2>1, Zenon DEF Members
        <3>2. (\E i \in {1, 2, 3} : m = Args["own"][i][1]) <=> \/ m = Args["own"][1][1]
                                                               \/ m = Args["own"][2][1]
                                                               \/ m = Args["own"][3][1]
            BY Zenon
        <3> QED
            BY <3>1, <3>2, OwnIs
    <2>3. DOMAIN frame = Members("own")
        BY <1>6 DEF FrameInv, Typed
    <2> QED
        BY <2>2, <2>3
<1>10. CASE v = Error
    <2>1. p = 1 /\ scan_f(s[2]) = Error
        <3>1. scan_s(s[3]) # Error
            BY DEF scan_s, Error
        <3> QED
            BY <1>6, <1>7, <1>10, <3>1, Zenon
    <2>2. result' = "error" /\ format' = format /\ frame' = frame
        BY <1>1, <1>10, Zenon
    <2>3. Done' = 1
        BY <1>1, <1>2, <2>1, <2>2 DEF Done
    <2> QED
        BY <1>1, <1>3, <2>1, <2>3 DEF OwnInv
<1>11. CASE v # Error
    <2>1. result' = "none" /\ format' = Tail(format) /\ frame' = [frame EXCEPT ![Head(ap)[1]] = v]
        BY <1>1, <1>11, Zenon
    <2>2. Done' = p + 1
        BY <1>1, <1>4, <1>6, <2>1 DEF Done
    <2>3. ASSUME p + 1 >= 2 PROVE frame'["value"] = scan_f(s[2]) /\ scan_f(s[2]) # Error
        <3>1. p # 0
            BY <1>4, <2>3
        <3>2. CASE p = 1
            <4>1. v = scan_f(s[2]) /\ Head(ap)[1] = "value"
                BY <1>7, <3>2
            <4>2. frame'["value"] = v
                BY <1>9, <2>1, <4>1
            <4> QED
                BY <1>11, <4>1, <4>2, Zenon
        <3>3. CASE p = 2
            <4>1. Head(ap)[1] = "rest"
                BY <1>7, <3>3
            <4>2. frame'["value"] = frame["value"]
                BY <1>9, <2>1, <4>1
            <4> QED
                BY <1>8, <3>3, <4>2
        <3> QED
            BY <1>4, <3>1, <3>2, <3>3
    <2>4. result' # "error"
        BY <2>1
    <2>5. (call.fields)' = s
        BY <1>1, <1>3
    <2> QED
        BY <2>2, <2>3, <2>4, <2>5, Zenon DEF OwnInv
<1> QED
    BY <1>10, <1>11

LEMMA OwnNext == FrameInv /\ OwnInv /\ [ScanNext]_scanning => OwnInv'
<1> SUFFICES ASSUME FrameInv, OwnInv, [ScanNext]_scanning, Owned' PROVE OwnInv'
    BY DEF OwnInv
<1>1. call' = call
    BY DEF ScanNext, scan_optional, scan_ignored, scan_convert, scan_misses, parse, scanning
<1>2. Owned
    BY <1>1 DEF Owned
<1>3. CASE UNCHANGED scanning
    <2>1. call' = call /\ format' = format /\ frame' = frame /\ result' = result
        BY <1>3 DEF scanning
    <2> QED
        BY <2>1, Zenon DEF OwnInv, Owned, Done
<1>4. ASSUME Scanning PROVE Head(format) \in {"t", "f", "s"} /\ field # 0
    <2>1. PICK p \in 0 .. 2 : field = p + 1 /\ Head(format) = Format["own"][p + 1]
        BY <1>2, <1>4, OwnItem
    <2>2. p = 0 \/ p = 1 \/ p = 2
        BY <2>1
    <2> QED
        BY <2>1, <2>2, OwnIs
<1>5. CASE scan_optional
    BY <1>4, <1>5 DEF scan_optional
<1>6. CASE scan_ignored
    BY <1>4, <1>6 DEF scan_ignored
<1>7. CASE scan_misses
    BY <1>4, <1>7 DEF scan_misses, Misses
<1>8. CASE scan_convert
    BY <1>2, <1>8, OwnConverts
<1>9. CASE parse
    <2>1. call.fn = "own"
        BY <1>2 DEF Owned
    <2>2. call' = call /\ format' = format /\ frame' = frame /\ result' = "ok"
        BY <1>9, <2>1 DEF parse
    <2>3. result' # "error"
        BY <2>2
    <2>4. Done' = Done /\ (call.fields)' = call.fields /\ (frame["value"])' = frame["value"]
        BY <2>2, Zenon DEF Done
    <2> QED
        BY <1>2, <2>3, <2>4, Zenon DEF OwnInv
<1> QED
    BY <1>3, <1>5, <1>6, <1>7, <1>8, <1>9 DEF ScanNext

LEMMA OwnExact == FrameInv /\ OwnInv => FloatsExact
<1> SUFFICES ASSUME FrameInv, OwnInv, Owned, result # "none", NEW f, f = Rest(call.fields[2]), ScaleFits(f)
             PROVE  IF Fraction(f) = Error THEN result = "error" ELSE result = "ok" /\ frame["value"] = Fraction(f)
    BY Zenon DEF FloatsExact, Owned
<1>1. call \in Calls /\ result \in {"none", "ok", "error"} /\ Ended(call.fn)
    BY DEF FrameInv, Typed
<1>2. call.fields \in Seq(Seq(STRING)) /\ call.fn = "own" /\ Len(call.fields) = 3
    BY <1>1, CallIs DEF Owned
<1>3. call.fields[2] \in Seq(STRING)
    BY <1>2
<1>4. scan_f(call.fields[2]) = Fraction(f)
    BY <1>3, FieldIs, Zenon
<1>5. CASE result = "error"
    <2>1. Fraction(f) = Error
        BY <1>4, <1>5, Zenon DEF OwnInv
    <2> QED
        BY <1>5, <2>1
<1>6. CASE result = "ok"
    <2>1. format = <<>>
        BY <1>1, <1>6 DEF Ended
    <2>2. Done = 3
        BY <1>2, <2>1, OwnIs DEF Done
    <2>3. Done >= 2
        BY <2>2
    <2>4. frame["value"] = Fraction(f) /\ Fraction(f) # Error
        BY <1>4, <2>3, Zenon DEF OwnInv
    <2> QED
        BY <1>6, <2>4
<1> QED
    BY <1>1, <1>5, <1>6

\* For every text of a field and every width of an int: a fraction whose scale
\* still is an int is stored as it is written, cut at the last decimal that
\* fits (minmea_scan, 'f').
THEOREM FractionsExact == ScanSpec => []FloatsExact
<1>1. ScanInit => FrameInv /\ OwnInv
    BY InitInv, OwnInit
<1>2. FrameInv /\ OwnInv /\ [ScanNext]_scanning => (FrameInv /\ OwnInv)'
    BY NextInv, OwnNext
<1>3. FrameInv /\ OwnInv => FloatsExact
    BY OwnExact
<1> QED
    BY <1>1, <1>2, <1>3, PTL DEF ScanSpec
=============================================================================
