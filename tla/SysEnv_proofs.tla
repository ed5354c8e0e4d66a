---------------------------- MODULE SysEnv_proofs ----------------------------
(***************************************************************************)
(* Proofs about SysEnv, for every set of loaders and modules, any number   *)
(* of processes and of starts of initd, with and without crashes, SIGTERM  *)
(* and loaders that come early.                                            *)
(***************************************************************************)
EXTENDS SysEnv, FiniteSetTheorems, TLAPS

\* The registrations that have read their index and are not complete.
Storing(r) == reg[r].todo \in (SUBSET {"count", "slot"}) \ {{}}

\* What belongs to a process by where it is.
PlaceOf(p) ==
    /\ pc[p] = "free" =>
          job[p] = "" /\ name[p] = "" /\ lst[p] = "off" /\ shmid[p] = 0 /\ at[p] = 0
    /\ pc[p] \in InitdPc => job[p] = "initd"
    /\ pc[p] \in LoaderPc \cup ChildPc => job[p] \in Loader /\ pos[p] >= 1
    /\ pc[p] \in ChildPc => name[p] \in Module
    /\ job[p] = "initd" => name[p] = "" /\ lst[p] = "off"
    /\ shmid[p] # 0 => job[p] = "initd"
    /\ pc[p] \in {"remove", "create"} => shmid[p] = 0
    /\ pc[p] \in InitdPc \ {"remove", "create"} => shmid[p] # 0
    /\ pc[p] \in {"trap", "sleep", "count", "kill"} => at[p] # 0
    /\ pc[p] = "kill" => pos[p] < MaxPid

Places == \A p \in Pid : PlaceOf(p)

\* The call of reg_pid a process is in.
CallOf(p) ==
    /\ pc[p] = "reg" <=> Alive(p) /\ reg[p].todo # {}
    /\ pc[p] = "free" => reg[p].todo = {}
    /\ reg[p].todo # {} =>
          /\ reg[p].who # 0 /\ entry[reg[p].who] = 0 /\ pc[reg[p].who] # "free"
          /\ job[reg[p].who] \in Loader
          /\ reg[p].todo = {"load"} \/ (Storing(p) /\ at[p] # 0)
    /\ entry[p] # 0 => job[p] \in Loader /\ pc[p] # "free"

Calls ==
    /\ \A p \in Pid : CallOf(p)
    /\ \A p, q \in Pid : reg[p].todo # {} /\ reg[q].todo # {} /\ reg[p].who = reg[q].who => p = q

\* No more segments than starts of initd.
Starts == Started("initd") <= MaxInitd

\* The pids whose registration has read its index.
Counted == {q \in Pid : entry[q] # 0 \/ \E r \in Pid : Storing(r) /\ reg[r].who = q}

\* The count never exceeds what was counted.
Bounded ==
    /\ \A s \in Seg : seg[s].pids <= Cardinality(Counted)
    /\ \A r \in Pid : Storing(r) => reg[r].n < Cardinality(Counted)

Base == TypeOK /\ Places /\ Calls /\ Starts /\ Bounded

\* r may still write to segment s.
Enters(r, s) == Alive(r) /\ at[r] = s /\ Storing(r)

\* Slot i holds q, below the count and below all that will be written.
Holds(s, i, q) ==
    /\ seg[s].pidv[i] = q
    /\ i < seg[s].pids
    /\ \A r \in Pid : Enters(r, s) => i < reg[r].n

\* A registration nothing overlapped is the only one, and has done what it did.
Alone ==
    \A r \in Pid : \A s \in Seg : Enters(r, s) /\ reg[r].who \notin raced =>
        /\ \A q \in Pid : Enters(q, s) => q = r
        /\ "count" \notin reg[r].todo => reg[r].n < seg[s].pids
        /\ "slot" \notin reg[r].todo => seg[s].pidv[reg[r].n] = reg[r].who

Kept == \A q \in Pid : entry[q] # 0 /\ q \notin raced => \E i \in Slot : Holds(entry[q], i, q)

\* Slot i is filled, or a registration has reserved it and not filled it.
Covered(s, i) ==
    \/ seg[s].pidv[i] # 0
    \/ \E r \in Pid : at[r] = s /\ reg[r].n = i /\ "slot" \in reg[r].todo

NoGap ==
    \A s \in Seg \ wiped :
        /\ \A i \in Slot : i < seg[s].pids => Covered(s, i)
        /\ \A r \in Pid : Enters(r, s) => \A i \in Slot : i <= reg[r].n => Covered(s, i)

\* What a sweep has still to kill lies before it.
Ahead ==
    \A p \in Pid :
        /\ \A q \in due[p] : entry[q] # 0 /\ entry[q] = at[p]
        /\ due[p] # {} => pc[p] \in {"count", "kill"} \cup DeadPc
        /\ pc[p] \in {"count", "kill"} =>
              \A q \in due[p] \ raced : Alive(q) =>
                  \E i \in Slot : pos[p] <= i /\ Holds(at[p], i, q)

-----------------------------------------------------------------------------
(* Types, and what belongs to whom. *)

Shape == TypeOK /\ Places /\ Calls

USE DEF InitdPc, LoaderPc, ChildPc, DeadPc

LEMMA InitShape == Init => Shape
<1> SUFFICES ASSUME Init PROVE Shape
    OBVIOUS
<1>1. 0 \in 0 .. MaxPid /\ Idle \in [who : Pid \cup {0}, n : 0 .. MaxPid, todo : Todo]
    BY PidAssumption DEF Idle, Todo
<1>2. Zeroed \in [pids : 0 .. MaxPid, pidv : [Slot -> Pid \cup {0}]]
    BY <1>1 DEF Zeroed
<1>3. TypeOK
    BY <1>1, <1>2 DEF Init, TypeOK
<1>4. Places
    BY DEF Init, Places, PlaceOf
<1>5. Calls
    <2>1. \A p \in Pid : reg[p].todo = {}
        BY DEF Init, Idle
    <2> QED
        BY <2>1 DEF Init, Calls, CallOf
<1> QED
    BY <1>3, <1>4, <1>5 DEF Shape

LEMMA DieShape == ASSUME NEW p \in Pid, Shape, Die(p) PROVE Shape'
<1>1. TypeOK'
    <2>1. lst' \in [Pid -> {"off", "connect", "serve"}] /\ \A q \in Pid : lst'[q] # "off" => lst[q] # "off"
        BY DEF Die, Bury, Shape, TypeOK
    <2>2. owner' \in [Module \cup Loader -> Pid \cup {0}]
        BY DEF Die, Bury, Shape, TypeOK
    <2>3. pc' \in [Pid -> InitdPc \cup LoaderPc \cup ChildPc \cup DeadPc \cup {"free"}]
        BY DEF Die, Shape, TypeOK
    <2> QED
        BY <2>1, <2>2, <2>3 DEF Die, Shape, TypeOK, hist
<1>2. Places'
    BY DEF Die, Bury, Shape, TypeOK, Places, PlaceOf
<1>3. Calls'
    <2>1. \A q \in Pid : pc'[q] = IF q = p THEN "gone" ELSE pc[q]
        BY DEF Die, Shape, TypeOK
    <2>2. \A q \in Pid : Storing(q)' = Storing(q)
        BY DEF Die, Storing
    <2> QED
        BY <2>1, <2>2 DEF Die, hist, Shape, Calls, CallOf, Alive
<1> QED
    BY <1>1, <1>2, <1>3 DEF Shape

\* What is known of a call of reg_pid that is under way.
LEMMA CallUnderWay ==
    ASSUME Shape, NEW p \in Pid, reg[p].todo # {}
    PROVE  /\ reg[p].who \in Pid /\ reg[p].who # 0 /\ entry[reg[p].who] = 0
           /\ pc[reg[p].who] # "free" /\ job[reg[p].who] \in Loader
           /\ reg[p].todo = {"load"} \/ (Storing(p) /\ at[p] \in Seg /\ at[p] # 0)
<1>1. reg[p].who \in Pid \cup {0} /\ at[p] \in Seg \cup {0}
    BY DEF Shape, TypeOK
<1> QED
    BY <1>1 DEF Shape, Calls, CallOf

\* A step that starts and ends no call of reg_pid.
LEMMA WalkCalls ==
    ASSUME Shape, UNCHANGED <<reg, entry>>,
           \A q \in Pid :
              /\ \/ pc'[q] = pc[q]
                 \/ pc'[q] \in DeadPc
                 \/ pc[q] \notin DeadPc \cup {"reg"} /\ pc'[q] \notin {"reg", "free"}
              /\ job[q] \in Loader => job'[q] = job[q]
              /\ reg[q].todo # {} => at'[q] = at[q]
    PROVE  Calls'
<1>1. \A q \in Pid : Storing(q)' = Storing(q)
    BY DEF Storing
<1>2. \A q \in Pid : pc[q] # "free" => pc'[q] # "free"
    OBVIOUS
<1>3. \A q \in Pid : /\ pc'[q] = "reg" <=> Alive(q)' /\ reg[q].todo # {}
                     /\ pc'[q] = "free" => reg[q].todo = {}
    BY DEF Shape, Calls, CallOf, Alive
<1>4. ASSUME NEW q \in Pid, reg[q].todo # {}
      PROVE  /\ reg[q].who # 0 /\ entry[reg[q].who] = 0 /\ pc'[reg[q].who] # "free"
             /\ job'[reg[q].who] \in Loader
             /\ reg[q].todo = {"load"} \/ (Storing(q)' /\ at'[q] # 0)
    <2>1. /\ reg[q].who \in Pid /\ reg[q].who # 0 /\ entry[reg[q].who] = 0
          /\ pc[reg[q].who] # "free" /\ job[reg[q].who] \in Loader
          /\ reg[q].todo = {"load"} \/ (Storing(q) /\ at[q] # 0)
        BY <1>4, CallUnderWay
    <2> QED
        BY <1>1, <1>2, <1>4, <2>1
<1>5. \A q \in Pid : entry[q] # 0 => job'[q] \in Loader /\ pc'[q] # "free"
    BY <1>2 DEF Shape, Calls, CallOf
<1> QED
    BY <1>3, <1>4, <1>5 DEF Shape, Calls, CallOf

\* Pids are finitely many.
LEMMA FinitePid ==
    /\ IsFiniteSet(Pid) /\ Cardinality(Pid) = MaxPid
    /\ \A S \in SUBSET Pid : IsFiniteSet(S) /\ Cardinality(S) \in Nat /\ Cardinality(S) <= MaxPid
<1>1. IsFiniteSet(Pid) /\ Cardinality(Pid) = MaxPid
    BY FS_Interval, PidAssumption DEF Pid
<1> QED
    BY <1>1, FS_Subset, FS_CardinalityType

LEMMA EnteringPids ==
    ASSUME Shape, NEW s PROVE Entering(s) \subseteq Pid
<1> SUFFICES ASSUME NEW r \in Pid, reg[r].todo \in (SUBSET {"count", "slot"}) \ {{}}
             PROVE  reg[r].who \in Pid
    BY DEF Entering
<1>1. reg[r].todo # {} /\ reg[r].who \in Pid \cup {0}
    BY DEF Shape, TypeOK
<1> QED
    BY <1>1 DEF Shape, Calls, CallOf

\* There is a number left for the segment an initd creates.
LEMMA SegmentLeft ==
    ASSUME Shape, Starts, NEW p \in Pid, pc[p] = "create"
    PROVE  Cardinality({q \in Pid : shmid[q] # 0}) + 1 \in Seg
<1> DEFINE S == {q \in Pid : shmid[q] # 0}
           T == {q \in Pid : job[q] = "initd" /\ name[q] \notin Module}
<1>1. S \subseteq T /\ p \in T /\ p \notin S
    BY NamesAssumption DEF Shape, Places, PlaceOf
<1>2. IsFiniteSet(T) /\ IsFiniteSet(S) /\ Cardinality(T) \in Nat /\ Cardinality(S) \in Nat
    BY FinitePid
<1>3. Cardinality(S) < Cardinality(T)
    BY <1>1, <1>2, FS_Subset
<1>4. Cardinality(T) <= MaxInitd
    BY DEF Starts, Started
<1> QED
    BY <1>2, <1>3, <1>4, BoundAssumption DEF Seg

\* Types.
LEMMA NextTypeOK == Shape /\ Starts /\ Bounded /\ [Next]_vars => TypeOK'
<1> SUFFICES ASSUME Shape, Starts, Bounded, [Next]_vars PROVE TypeOK'
    OBVIOUS
<1>pc. pc \in [Pid -> InitdPc \cup LoaderPc \cup ChildPc \cup DeadPc \cup {"free"}]
    BY DEF Shape, TypeOK
<1>pos. pos \in [Pid -> Nat] /\ at \in [Pid -> Seg \cup {0}]
    BY DEF Shape, TypeOK
<1>lst. /\ lst \in [Pid -> {"off", "connect", "serve"}] /\ name \in [Pid -> Module \cup Loader \cup {""}]
        /\ \A p \in Pid : lst[p] # "off" => name[p] # ""
    BY DEF Shape, TypeOK
<1>own. owner \in [Module \cup Loader -> Pid \cup {0}]
    BY DEF Shape, TypeOK
<1>reg. reg \in [Pid -> [who : Pid \cup {0}, n : 0 .. MaxPid, todo : Todo]]
    BY DEF Shape, TypeOK
<1>seg. seg \in [Seg -> [pids : 0 .. MaxPid, pidv : [Slot -> Pid \cup {0}]]]
    BY DEF Shape, TypeOK
<1>1. ASSUME NEW p \in Pid, start_initd(p) PROVE TypeOK'
    BY <1>1 DEF start_initd, Goto, hist, Shape, TypeOK
<1>2. ASSUME NEW p \in Pid, init_remove(p) PROVE TypeOK'
    BY <1>2 DEF init_remove, Goto, hist, Shape, TypeOK
<1>3. ASSUME NEW p \in Pid, init_create(p) PROVE TypeOK'
    <2>1. key' \in Seg
        <3>1. CASE key # 0
            BY <1>3, <3>1 DEF init_create, Shape, TypeOK
        <3>2. CASE key = 0
            <4>1. Cardinality({q \in Pid : shmid[q] # 0}) + 1 \in Seg
                BY <1>3, SegmentLeft DEF init_create
            <4> QED
                BY <1>3, <3>2, <4>1 DEF init_create
        <3> QED
            BY <3>1, <3>2
    <2> QED
        BY <1>3, <2>1 DEF init_create, Goto, hist, Shape, TypeOK
<1>4. ASSUME NEW p \in Pid, init_clear(p) PROVE TypeOK'
    <2>1. shmid[p] \in Seg
        BY <1>4 DEF init_clear, Shape, Places, PlaceOf, TypeOK
    <2>2. seg' \in [Seg -> [pids : 0 .. MaxPid, pidv : [Slot -> Pid \cup {0}]]]
        <3>1. Zeroed \in [pids : 0 .. MaxPid, pidv : [Slot -> Pid \cup {0}]]
            BY PidAssumption DEF Zeroed
        <3> QED
            BY <1>4, <3>1 DEF init_clear, Shape, TypeOK
    <2>3. raced' \subseteq Pid
        BY <1>4, EnteringPids DEF init_clear, Shape, TypeOK
    <2>4. wiped' \subseteq Seg
        BY <1>4, <2>1 DEF init_clear, Shape, TypeOK
    <2> QED
        BY <1>4, <2>2, <2>3, <2>4 DEF init_clear, Goto, Shape, TypeOK
<1>5. ASSUME NEW p \in Pid, init_attach(p) PROVE TypeOK'
    <2>1. CASE key = 0
        BY <1>5, <2>1, DieShape DEF init_attach, Shape
    <2>2. CASE key # 0
        <3>1. /\ at' = [at EXCEPT ![p] = key] /\ Goto(p, "trap")
              /\ UNCHANGED <<job, pos, lst, name, owner, shmid, reg, key, seg, hist>>
            BY <1>5, <2>2 DEF init_attach
        <3>2. at' \in [Pid -> Seg \cup {0}]
            BY <3>1 DEF Shape, TypeOK
        <3> QED
            BY <3>1, <3>2 DEF Goto, hist, Shape, TypeOK
    <2> QED
        BY <2>1, <2>2
<1>6. ASSUME NEW p \in Pid, init_trap(p) PROVE TypeOK'
    BY <1>6 DEF init_trap, Goto, hist, Shape, TypeOK
<1>7. ASSUME NEW p \in Pid, sigroutine(p) PROVE TypeOK'
    BY <1>7 DEF sigroutine, Goto, Shape, TypeOK
<1>8. ASSUME NEW p \in Pid, default_term(p) PROVE TypeOK'
    BY <1>8, DieShape DEF default_term, Shape
<1>9. ASSUME NEW p \in Pid, sweep_count(p) PROVE TypeOK'
    BY <1>9 DEF sweep_count, Goto, hist, Shape, TypeOK
<1>10. ASSUME NEW p \in Pid, sweep_kill(p) PROVE TypeOK'
    <2> DEFINE v == seg[at[p]].pidv[pos[p]]
    <2>0. \/ Goto(p, "cut") /\ UNCHANGED <<pos, lst, owner>>
          \/ /\ pc' = [pc EXCEPT ![v] = IF Alive(v) THEN "gone" ELSE @, ![p] = "count"]
             /\ Bury({v})
             /\ pos' = [pos EXCEPT ![p] = @ + 1]
        BY <1>10 DEF sweep_kill
    <2> HIDE DEF v
    <2>1. pos' \in [Pid -> Nat]
        BY <2>0, <1>pos
    <2>2. pc' \in [Pid -> InitdPc \cup LoaderPc \cup ChildPc \cup DeadPc \cup {"free"}]
        BY <2>0, <1>pc DEF Goto
    <2>3. /\ lst' \in [Pid -> {"off", "connect", "serve"}]
          /\ \A q \in Pid : lst'[q] # "off" => lst[q] # "off"
          /\ owner' \in [Module \cup Loader -> Pid \cup {0}]
        BY <2>0, <1>lst, <1>own DEF Bury
    <2> QED
        BY <1>10, <2>1, <2>2, <2>3 DEF sweep_kill, hist, Shape, TypeOK
<1>11. ASSUME NEW p \in Pid, NEW l \in Loader, start_loader(p, l) PROVE TypeOK'
    <2>1. [who |-> p, n |-> 0, todo |-> {"load"}] \in [who : Pid \cup {0}, n : 0 .. MaxPid, todo : Todo]
        BY PidAssumption DEF Todo
    <2> DEFINE call == [who |-> p, n |-> 0, todo |-> {"load"}]
    <2>2. reg' = [reg EXCEPT ![p] = call]
        BY <1>11 DEF start_loader
    <2> HIDE DEF call
    <2>3. reg' \in [Pid -> [who : Pid \cup {0}, n : 0 .. MaxPid, todo : Todo]]
        BY <2>1, <2>2 DEF Shape, TypeOK, call
    <2> QED
        BY <1>11, <2>3 DEF start_loader, Goto, hist, Shape, TypeOK
<1>12. ASSUME NEW p \in Pid, reg_load(p) PROVE TypeOK'
    <2> DEFINE s == IF at[p] = 0 THEN key ELSE at[p]
    <2>1. CASE s = 0
        BY <1>12, <2>1, DieShape DEF reg_load, Shape
    <2>2. CASE s # 0
        <3>1. s \in Seg
            BY <2>2 DEF Shape, TypeOK
        <3>2. /\ at' = [at EXCEPT ![p] = s]
              /\ reg' = [reg EXCEPT ![p].n = seg[s].pids, ![p].todo = {"count", "slot"}]
              /\ raced' = IF Entering(s) = {} THEN raced ELSE raced \cup Entering(s) \cup {reg[p].who}
              /\ UNCHANGED <<pc, job, pos, lst, name, owner, shmid, key, seg, entry, wiped, due>>
            BY <1>12, <2>2 DEF reg_load
        <3> HIDE DEF s
        <3>3. raced' \subseteq Pid
            <4>1. reg[p].who \in Pid
                BY <1>12, CallUnderWay DEF reg_load
            <4> QED
                BY <3>2, <4>1, EnteringPids DEF Shape, TypeOK
        <3>4. reg' \in [Pid -> [who : Pid \cup {0}, n : 0 .. MaxPid, todo : Todo]]
            <4>1. seg[s].pids \in 0 .. MaxPid /\ {"count", "slot"} \in Todo
                BY <3>1 DEF Shape, TypeOK, Todo
            <4> QED
                BY <3>2, <4>1, <1>reg
        <3> QED
            BY <3>1, <3>2, <3>3, <3>4 DEF Shape, TypeOK
    <2> QED
        BY <2>1, <2>2
<1>13. ASSUME NEW p \in Pid, NEW what \in {"count", "slot"}, Stored(p, what), what \in reg[p].todo,
              \/ seg' = [seg EXCEPT ![at[p]].pids = reg[p].n + 1]
              \/ seg' = [seg EXCEPT ![at[p]].pidv[reg[p].n] = reg[p].who]
       PROVE  TypeOK'
    <2>1. Storing(p) /\ at[p] \in Seg /\ reg[p].who \in Pid
        <3>1. reg[p].todo # {} /\ reg[p].todo # {"load"}
            BY <1>13
        <3> QED
            BY <3>1, CallUnderWay
    <2>2. reg[p].n \in Slot /\ reg[p].n + 1 \in 0 .. MaxPid
        <3>1. Counted \subseteq Pid
            BY DEF Counted
        <3>2. Cardinality(Counted) <= MaxPid /\ Cardinality(Counted) \in Nat
            BY <3>1, FinitePid
        <3>3. reg[p].n < Cardinality(Counted) /\ reg[p].n \in 0 .. MaxPid
            BY <2>1, <1>reg DEF Bounded
        <3> QED
            BY <3>2, <3>3, PidAssumption DEF Slot
    <2>3. seg' \in [Seg -> [pids : 0 .. MaxPid, pidv : [Slot -> Pid \cup {0}]]]
        <3>1. CASE seg' = [seg EXCEPT ![at[p]].pids = reg[p].n + 1]
            BY <2>1, <2>2, <3>1, <1>seg
        <3>2. CASE seg' = [seg EXCEPT ![at[p]].pidv[reg[p].n] = reg[p].who]
            BY <2>1, <2>2, <3>2, <1>seg
        <3> QED
            BY <1>13, <3>1, <3>2
    <2>4. reg' \in [Pid -> [who : Pid \cup {0}, n : 0 .. MaxPid, todo : Todo]]
        BY <1>13, <1>reg DEF Stored, Todo
    <2>5. pc' \in [Pid -> InitdPc \cup LoaderPc \cup ChildPc \cup DeadPc \cup {"free"}]
        BY <1>13 DEF Stored, Goto, Shape, TypeOK
    <2>6. entry' \in [Pid -> Seg \cup {0}]
        BY <1>13, <2>1 DEF Stored, Shape, TypeOK
    <2> QED
        BY <1>13, <2>3, <2>4, <2>5, <2>6 DEF Stored, Shape, TypeOK
<1>14. ASSUME NEW p \in Pid, load_missing(p) PROVE TypeOK'
    BY <1>14, DieShape DEF load_missing, Shape
<1>15. ASSUME NEW p \in Pid, NEW q \in Pid, launch(p, q) PROVE TypeOK'
    <2> DEFINE call == [who |-> q, n |-> 0, todo |-> {"load"}]
    <2>1. call \in [who : Pid \cup {0}, n : 0 .. MaxPid, todo : Todo]
        BY PidAssumption DEF Todo
    <2>2. reg' = [reg EXCEPT ![p] = call]
        BY <1>15 DEF launch
    <2> HIDE DEF call
    <2>3. reg' \in [Pid -> [who : Pid \cup {0}, n : 0 .. MaxPid, todo : Todo]]
        BY <2>1, <2>2 DEF Shape, TypeOK
    <2>4. Chosen(p) \in Module
        <3>1. job[p] \in Loader /\ pos[p] \in Nat \ {0} /\ pos[p] <= Len(Conf[job[p]])
            <4>1. job[p] \in Loader /\ pos[p] >= 1 /\ pos[p] <= Len(Conf[job[p]])
                BY <1>15 DEF launch, ToDo, Shape, Places, PlaceOf
            <4> QED
                BY <4>1, <1>pos
        <3>2. Conf[job[p]] \in Seq(Module)
            BY <3>1, LoaderAssumption
        <3> QED
            BY <3>1, <3>2 DEF Chosen
    <2>5. name' \in [Pid -> Module \cup Loader \cup {""}]
        BY <1>15, <2>4, <1>lst DEF launch
    <2>8. pos' \in [Pid -> Nat]
        <3>1. pos' = [pos EXCEPT ![p] = @ + 1, ![q] = pos[p] + 1]
            BY <1>15 DEF launch
        <3> QED
            BY <3>1, <1>pos
    <2>6. \A r \in Pid : lst'[r] # "off" => name'[r] # ""
        BY <1>15, <2>4, NamesAssumption DEF launch, Shape, TypeOK
    <2>7. /\ pc' \in [Pid -> InitdPc \cup LoaderPc \cup ChildPc \cup DeadPc \cup {"free"}]
          /\ job' \in [Pid -> Loader \cup {"initd", ""}] /\ at' \in [Pid -> Seg \cup {0}]
        BY <1>15 DEF launch, Shape, TypeOK
    <2> QED
        BY <1>15, <2>3, <2>5, <2>6, <2>7, <2>8 DEF launch, hist, Shape, TypeOK
<1>16. ASSUME NEW p \in Pid, pos' = [pos EXCEPT ![p] = @ + 1],
              UNCHANGED <<pc, job, lst, name, owner, shmid, at, reg, key, seg, hist>>
       PROVE  TypeOK'
    <2>1. pos' \in [Pid -> Nat]
        BY <1>16, <1>pos
    <2> QED
        BY <1>16, <2>1 DEF hist, Shape, TypeOK
<1>17. ASSUME NEW p \in Pid, loop_end(p) PROVE TypeOK'
    <2>1. job[p] \in Loader
        BY <1>17 DEF loop_end, Shape, Places, PlaceOf
    <2>2. /\ name' \in [Pid -> Module \cup Loader \cup {""}] /\ lst' \in [Pid -> {"off", "connect", "serve"}]
          /\ \A q \in Pid : lst'[q] # "off" => name'[q] # ""
        <3>1. CASE UNCHANGED <<lst, name>>
            BY <3>1, <1>lst
        <3>2. CASE lst' = [lst EXCEPT ![p] = "connect"] /\ name' = [name EXCEPT ![p] = job[p]]
            BY <2>1, <3>2, <1>lst, NamesAssumption
        <3> QED
            BY <1>17, <3>1, <3>2 DEF loop_end
    <2> QED
        BY <1>17, <2>2 DEF loop_end, Goto, hist, Shape, TypeOK
<1>18. ASSUME NEW p \in Pid, child_listen(p) PROVE TypeOK'
    <2>1. name[p] # ""
        BY <1>18, NamesAssumption DEF child_listen, Shape, Places, PlaceOf
    <2>2. lst' \in [Pid -> {"off", "connect", "serve"}] /\ \A q \in Pid : lst'[q] # "off" => name[q] # ""
        BY <1>18, <2>1 DEF child_listen, Shape, TypeOK
    <2> QED
        BY <1>18, <2>2 DEF child_listen, Goto, hist, Shape, TypeOK
<1>19. ASSUME NEW p \in Pid, start_returns(p) PROVE TypeOK'
    BY <1>19 DEF start_returns, Goto, hist, Shape, TypeOK
<1>20. ASSUME NEW p \in Pid, request_name(p) PROVE TypeOK'
    <2>1. CASE owner[name[p]] = 0
        <3>1. lst' \in [Pid -> {"off", "connect", "serve"}] /\ \A q \in Pid : lst'[q] # "off" => lst[q] # "off"
            BY <1>20, <2>1, <1>lst DEF request_name
        <3>2. owner' \in [Module \cup Loader -> Pid \cup {0}]
            BY <1>20, <2>1, <1>own DEF request_name
        <3> QED
            BY <1>20, <2>1, <3>1, <3>2 DEF request_name, hist, Shape, TypeOK
    <2>2. CASE owner[name[p]] # 0
        BY <1>20, <2>2, DieShape DEF request_name, Shape
    <2> QED
        BY <2>1, <2>2
<1>21. ASSUME NEW p \in Pid, Crash(p) PROVE TypeOK'
    BY <1>21, DieShape DEF Crash, Shape
<1>22. CASE UNCHANGED vars
    BY <1>22 DEF vars, Shape, TypeOK
<1>23. ASSUME NEW p \in Pid, reg_count(p) PROVE TypeOK'
    BY <1>13, <1>23 DEF reg_count
<1>24. ASSUME NEW p \in Pid, reg_slot(p) PROVE TypeOK'
    BY <1>13, <1>24 DEF reg_slot
<1> QED
    BY <1>1, <1>2, <1>3, <1>4, <1>5, <1>6, <1>7, <1>8, <1>9, <1>10, <1>11, <1>12, <1>14, <1>15,
       <1>16, <1>17, <1>18, <1>19, <1>20, <1>21, <1>22, <1>23, <1>24
    DEF Next, launch_fails, launch_framework
\* What belongs to whom.
LEMMA NextPlaces == Shape /\ Starts /\ [Next]_vars => Places'
<1> SUFFICES ASSUME Shape, Starts, [Next]_vars PROVE Places'
    OBVIOUS
<1>typ. /\ pc \in [Pid -> InitdPc \cup LoaderPc \cup ChildPc \cup DeadPc \cup {"free"}]
        /\ job \in [Pid -> Loader \cup {"initd", ""}] /\ pos \in [Pid -> Nat]
        /\ lst \in [Pid -> {"off", "connect", "serve"}]
        /\ name \in [Pid -> Module \cup Loader \cup {""}]
        /\ shmid \in [Pid -> Seg \cup {0}] /\ at \in [Pid -> Seg \cup {0}]
    BY DEF Shape, TypeOK
<1>pos. pos \in [Pid -> Nat]
    BY DEF Shape, TypeOK
<1>1. ASSUME NEW p \in Pid, start_initd(p) PROVE Places'
    BY <1>1, <1>typ DEF start_initd, Goto, Fresh, Shape, Places, PlaceOf
<1>2. ASSUME NEW p \in Pid, init_remove(p) PROVE Places'
    BY <1>2, <1>typ DEF init_remove, Goto, Shape, Places, PlaceOf
<1>3. ASSUME NEW p \in Pid, init_create(p) PROVE Places'
    <2>1. key' # 0
        <3>1. 0 \notin Seg
            BY BoundAssumption DEF Seg
        <3>2. key # 0 \/ key' \in Seg
            BY <1>3, SegmentLeft DEF init_create
        <3> QED
            BY <1>3, <3>1, <3>2 DEF init_create
    <2> QED
        BY <1>3, <2>1, <1>typ DEF init_create, Goto, Shape, Places, PlaceOf
<1>4. ASSUME NEW p \in Pid, init_clear(p) PROVE Places'
    BY <1>4, <1>typ DEF init_clear, Goto, Shape, Places, PlaceOf
<1>5. ASSUME NEW p \in Pid, init_attach(p) PROVE Places'
    <2>1. CASE key = 0
        BY <1>5, <2>1, DieShape DEF init_attach, Shape
    <2>2. CASE key # 0
        <3>1. /\ pc[p] = "attach" /\ at' = [at EXCEPT ![p] = key] /\ Goto(p, "trap")
              /\ UNCHANGED <<job, pos, lst, name, owner, shmid, reg, key, seg, hist>>
            BY <1>5, <2>2 DEF init_attach
        <3> QED
            BY <2>2, <3>1, <1>typ DEF Goto, Shape, Places, PlaceOf
    <2> QED
        BY <2>1, <2>2
<1>6. ASSUME NEW p \in Pid, init_trap(p) PROVE Places'
    BY <1>6, <1>typ DEF init_trap, Goto, Shape, Places, PlaceOf
<1>7. ASSUME NEW p \in Pid, sigroutine(p) PROVE Places'
    BY <1>7, <1>typ DEF sigroutine, Goto, Shape, Places, PlaceOf
<1>8. ASSUME NEW p \in Pid, default_term(p) PROVE Places'
    BY <1>8, DieShape DEF default_term, Shape
<1>9. ASSUME NEW p \in Pid, sweep_count(p) PROVE Places'
    <2>1. pos[p] < seg[at[p]].pids => pos[p] < MaxPid
        <3>1. at[p] \in Seg
            BY <1>9, <1>typ DEF sweep_count, Shape, Places, PlaceOf
        <3>2. seg[at[p]].pids \in 0 .. MaxPid
            BY <3>1 DEF Shape, TypeOK
        <3> QED
            BY <3>2, <1>pos, PidAssumption
    <2>2. pc[p] = "count" /\ UNCHANGED <<job, pos, lst, name, shmid, at>>
          /\ \/ pos[p] < MaxPid /\ pc' = [pc EXCEPT ![p] = "kill"]
             \/ pc' = [pc EXCEPT ![p] = "swept"]
        BY <1>9, <2>1 DEF sweep_count, Goto
    <2> SUFFICES ASSUME NEW q \in Pid PROVE PlaceOf(q)'
        BY DEF Places
    <2>3. CASE q = p
        BY <2>2, <2>3, <1>typ DEF Shape, Places, PlaceOf
    <2>4. CASE q # p
        BY <2>2, <2>4, <1>typ DEF Shape, Places, PlaceOf
    <2> QED
        BY <2>3, <2>4
<1>10. ASSUME NEW p \in Pid, sweep_kill(p) PROVE Places'
    <2> DEFINE v == seg[at[p]].pidv[pos[p]]
    <2>1. /\ pc[p] = "kill"
          /\ \/ Goto(p, "cut") /\ UNCHANGED <<pos, lst>>
             \/ /\ pc' = [pc EXCEPT ![v] = IF Alive(v) THEN "gone" ELSE @, ![p] = "count"]
                /\ Bury({v})
                /\ pos' = [pos EXCEPT ![p] = @ + 1]
          /\ UNCHANGED <<job, name, shmid, at>>
        BY <1>10 DEF sweep_kill
    <2> HIDE DEF v
    <2>2. \A q \in Pid : /\ pc'[q] = pc[q] \/ (pc[q] # "free" /\ pc'[q] = "gone")
                            \/ (q = p /\ pc'[q] \in {"cut", "count"})
                         /\ lst[q] = "off" => lst'[q] = "off"
                         /\ q # p => pos'[q] = pos[q]
        <3>1. CASE Goto(p, "cut") /\ UNCHANGED <<pos, lst>>
            BY <3>1, <1>typ DEF Goto
        <3>2. CASE /\ pc' = [pc EXCEPT ![v] = IF Alive(v) THEN "gone" ELSE @, ![p] = "count"]
                   /\ Bury({v})
                   /\ pos' = [pos EXCEPT ![p] = @ + 1]
            BY <3>2, <1>typ DEF Bury, Alive
        <3> QED
            BY <2>1, <3>1, <3>2
    <2> SUFFICES ASSUME NEW q \in Pid PROVE PlaceOf(q)'
        BY DEF Places
    <2>3. CASE q = p
        BY <2>1, <2>2, <2>3, <1>typ DEF Shape, Places, PlaceOf
    <2>4. CASE q # p
        BY <2>1, <2>2, <2>4, <1>typ DEF Shape, Places, PlaceOf
    <2> QED
        BY <2>3, <2>4
<1>11. ASSUME NEW p \in Pid, NEW l \in Loader, start_loader(p, l) PROVE Places'
    <2>1. /\ pc[p] = "free" /\ pc' = [pc EXCEPT ![p] = "reg"] /\ job' = [job EXCEPT ![p] = l]
          /\ pos' = [pos EXCEPT ![p] = 1] /\ UNCHANGED <<lst, name, shmid, at>>
        BY <1>11 DEF start_loader, Goto, Fresh, hist
    <2> SUFFICES ASSUME NEW q \in Pid PROVE PlaceOf(q)'
        BY DEF Places
    <2>2. CASE q = p
        <3>1. pc'[p] = "reg" /\ job'[p] = l /\ pos'[p] >= 1 /\ l # "initd"
            <4>1. pos'[p] = 1
                BY <2>1, <1>pos
            <4>2. pc'[p] = "reg" /\ job'[p] = l
                BY <2>1, <1>typ
            <4>3. l # "initd"
                BY NamesAssumption
            <4> QED
                BY <4>1, <4>2, <4>3
        <3> QED
            BY <2>1, <2>2, <3>1 DEF Shape, Places, PlaceOf
    <2>3. CASE q # p
        BY <2>1, <2>3, <1>typ DEF Shape, Places, PlaceOf
    <2> QED
        BY <2>2, <2>3
<1>12. ASSUME NEW p \in Pid, reg_load(p) PROVE Places'
    <2>1. CASE Die(p)
        BY <2>1, DieShape DEF Shape
    <2>2. CASE pc[p] = "reg" /\ at' = [at EXCEPT ![p] = IF @ = 0 THEN key ELSE @]
               /\ UNCHANGED <<pc, job, pos, lst, name, shmid>>
        BY <2>2, <1>typ DEF Shape, Places, PlaceOf
    <2> QED
        BY <1>12, <2>1, <2>2, <1>typ DEF reg_load
<1>13. ASSUME NEW p \in Pid, NEW what \in {"count", "slot"}, pc[p] = "reg", Stored(p, what)
       PROVE  Places'
    <2>1. /\ pc' = pc \/ pc' = [pc EXCEPT ![p] = "loop"]
          /\ UNCHANGED <<job, pos, lst, name, shmid, at>>
        BY <1>13 DEF Stored, Goto
    <2> QED
        <3> SUFFICES ASSUME NEW q \in Pid PROVE PlaceOf(q)'
            BY DEF Places
        <3>1. pc'[q] = pc[q] \/ (q = p /\ pc'[q] = "loop")
            BY <2>1, <1>typ
        <3> QED
            BY <1>13, <2>1, <3>1 DEF Shape, Places, PlaceOf
<1>14. ASSUME NEW p \in Pid, load_missing(p) PROVE Places'
    BY <1>14, DieShape DEF load_missing, Shape
<1>15. ASSUME NEW p \in Pid, NEW q \in Pid, launch(p, q) PROVE Places'
    <2>1. /\ job[p] \in Loader /\ pos[p] >= 1 /\ p # q /\ pc[p] = "loop" /\ pc[q] = "free"
          /\ job[p] # "initd"
        BY <1>15, NamesAssumption DEF launch, ToDo, Fresh, Shape, Places, PlaceOf
    <2>2. Chosen(p) \in Module
        <3>1. pos[p] <= Len(Conf[job[p]]) /\ Conf[job[p]] \in Seq(Module)
            BY <1>15, <2>1, LoaderAssumption DEF launch, ToDo
        <3> QED
            BY <2>1, <3>1, <1>pos DEF Chosen
    <2>3. \A r \in Pid : /\ pc'[r] = IF r = q THEN "rpc" ELSE IF r = p THEN "reg" ELSE pc[r]
                         /\ job'[r] = IF r = q THEN job[p] ELSE job[r]
                         /\ name'[r] = IF r = q THEN Chosen(p) ELSE name[r]
                         /\ r # q => at'[r] = at[r]
                         /\ lst'[r] = lst[r] /\ shmid'[r] = shmid[r]
        BY <1>15, <2>1, <1>typ DEF launch
    <2>4. \A r \in Pid : pos'[r] = IF r \in {p, q} THEN pos[p] + 1 ELSE pos[r]
        BY <1>15, <2>1, <1>typ DEF launch
    <2> QED
        <3> SUFFICES ASSUME NEW r \in Pid PROVE PlaceOf(r)'
            BY DEF Places
        <3>1. pos[p] + 1 >= 1
            BY <1>pos
        <3>2. CASE r = q
            BY <2>1, <2>2, <2>3, <2>4, <3>1, <3>2, NamesAssumption DEF Shape, Places, PlaceOf
        <3>3. CASE r = p
            BY <2>1, <2>3, <2>4, <3>1, <3>3 DEF Shape, Places, PlaceOf
        <3>4. CASE r \notin {p, q}
            <4>1. /\ r # p /\ r # q /\ pc'[r] = pc[r] /\ job'[r] = job[r] /\ name'[r] = name[r]
                  /\ at'[r] = at[r] /\ lst'[r] = lst[r] /\ shmid'[r] = shmid[r] /\ pos'[r] = pos[r]
                BY <2>3, <2>4, <3>4
            <4> QED
                BY <4>1 DEF Shape, Places, PlaceOf
        <3> QED
            BY <3>2, <3>3, <3>4
<1>16. ASSUME NEW p \in Pid, ToDo(p), pos' = [pos EXCEPT ![p] = @ + 1],
              UNCHANGED <<pc, job, lst, name, shmid, at>>
       PROVE  Places'
    <2>1. pos[p] + 1 >= 1 /\ \A q \in Pid : pos'[q] = IF q = p THEN pos[p] + 1 ELSE pos[q]
        BY <1>16, <1>pos
    <2> SUFFICES ASSUME NEW q \in Pid PROVE PlaceOf(q)'
        BY DEF Places
    <2>2. CASE q = p
        BY <1>16, <2>1, <2>2 DEF ToDo, Shape, Places, PlaceOf
    <2>3. CASE q # p
        BY <1>16, <2>1, <2>3 DEF Shape, Places, PlaceOf
    <2> QED
        BY <2>2, <2>3
<1>17. ASSUME NEW p \in Pid, loop_end(p) PROVE Places'
    <2>1. job[p] \in Loader /\ job[p] # "initd" /\ pc[p] = "loop"
        BY <1>17, NamesAssumption DEF loop_end, Shape, Places, PlaceOf
    <2>2. /\ pc' = [pc EXCEPT ![p] = "wait"] /\ UNCHANGED <<job, pos, shmid, at>>
          /\ \A q \in Pid : q # p => lst'[q] = lst[q] /\ name'[q] = name[q]
        BY <1>17, <1>typ DEF loop_end, Goto
    <2> QED
        BY <2>1, <2>2, <1>typ DEF Shape, Places, PlaceOf
<1>18. ASSUME NEW p \in Pid, child_listen(p) PROVE Places'
    BY <1>18, <1>typ, NamesAssumption DEF child_listen, Goto, Shape, Places, PlaceOf
<1>19. ASSUME NEW p \in Pid, start_returns(p) PROVE Places'
    BY <1>19, <1>typ DEF start_returns, Goto, Shape, Places, PlaceOf
<1>20. ASSUME NEW p \in Pid, request_name(p) PROVE Places'
    <2>1. CASE owner[name[p]] = 0
        <3>1. /\ lst[p] = "connect" /\ lst' = [lst EXCEPT ![p] = "serve"]
              /\ UNCHANGED <<pc, job, pos, name, shmid, at>>
            BY <1>20, <2>1 DEF request_name
        <3> QED
            BY <3>1, <1>typ DEF Shape, Places, PlaceOf
    <2>2. CASE owner[name[p]] # 0
        BY <1>20, <2>2, DieShape DEF request_name, Shape
    <2> QED
        BY <2>1, <2>2
<1>21. ASSUME NEW p \in Pid, Crash(p) PROVE Places'
    BY <1>21, DieShape DEF Crash, Shape
<1>22. CASE UNCHANGED vars
    BY <1>22 DEF vars, Shape, Places, PlaceOf
<1> QED
    BY <1>1, <1>2, <1>3, <1>4, <1>5, <1>6, <1>7, <1>8, <1>9, <1>10, <1>11, <1>12, <1>13, <1>14,
       <1>15, <1>16, <1>17, <1>18, <1>19, <1>20, <1>21, <1>22
    DEF Next, launch_fails, launch_framework, reg_count, reg_slot

\* Which calls of reg_pid are under way, and for whom.
LEMMA NextCalls == Shape /\ [Next]_vars => Calls'
<1> SUFFICES ASSUME Shape, [Next]_vars PROVE Calls'
    OBVIOUS
<1>pc. /\ pc \in [Pid -> InitdPc \cup LoaderPc \cup ChildPc \cup DeadPc \cup {"free"}]
       /\ job \in [Pid -> Loader \cup {"initd", ""}] /\ at \in [Pid -> Seg \cup {0}]
    BY DEF Shape, TypeOK
<1>reg. /\ reg \in [Pid -> [who : Pid \cup {0}, n : 0 .. MaxPid, todo : Todo]]
        /\ entry \in [Pid -> Seg \cup {0}]
    BY DEF Shape, TypeOK
<1>1. ASSUME UNCHANGED <<job, at, reg, entry>>,
             NEW p \in Pid, NEW l, pc' = [pc EXCEPT ![p] = l],
             l \in DeadPc \/ (pc[p] \notin DeadPc \cup {"reg"} /\ l \notin {"reg", "free"})
      PROVE  Calls'
    <2>1. \A q \in Pid : pc'[q] = IF q = p THEN l ELSE pc[q]
        BY <1>1, <1>pc
    <2> QED
        BY <1>1, <2>1, WalkCalls
<1>2. ASSUME UNCHANGED <<pc, job, at, reg, entry>> PROVE Calls'
    BY <1>2, WalkCalls
<1>3. ASSUME NEW p \in Pid, Die(p) PROVE Calls'
    BY <1>3, DieShape DEF Shape
<1>4. ASSUME NEW p \in Pid, start_initd(p) PROVE Calls'
    <2>1. /\ pc[p] = "free" /\ pc' = [pc EXCEPT ![p] = "remove"] /\ job' = [job EXCEPT ![p] = "initd"]
          /\ UNCHANGED <<at, reg, entry>>
        BY <1>4 DEF start_initd, Fresh, Goto, hist
    <2>2. job[p] \notin Loader
        BY <2>1, NamesAssumption DEF Shape, Places, PlaceOf
    <2>3. \A q \in Pid : /\ pc'[q] = pc[q] \/ (pc[q] = "free" /\ pc'[q] = "remove")
                         /\ job[q] \in Loader => job'[q] = job[q]
        BY <2>1, <2>2, <1>pc
    <2> QED
        BY <2>1, <2>3, WalkCalls
<1>5. ASSUME NEW p \in Pid, init_attach(p) PROVE Calls'
    <2>1. CASE key # 0
        <3>1. /\ pc[p] = "attach" /\ pc' = [pc EXCEPT ![p] = "trap"] /\ at' = [at EXCEPT ![p] = key]
              /\ UNCHANGED <<job, reg, entry>>
            BY <1>5, <2>1 DEF init_attach, Goto, hist
        <3>2. reg[p].todo = {}
            BY <3>1 DEF Shape, Calls, CallOf, Alive
        <3>3. \A q \in Pid : /\ pc'[q] = pc[q] \/ (pc[q] = "attach" /\ pc'[q] = "trap")
                             /\ reg[q].todo # {} => at'[q] = at[q]
            BY <3>1, <3>2, <1>pc
        <3> QED
            BY <3>1, <3>3, WalkCalls
    <2> QED
        BY <1>3, <1>5, <2>1 DEF init_attach
<1>6. ASSUME NEW p \in Pid, sweep_kill(p) PROVE Calls'
    <2> DEFINE v == seg[at[p]].pidv[pos[p]]
    <2>1. /\ pc[p] = "kill" /\ UNCHANGED <<job, at, reg, entry>>
          /\ \/ pc' = [pc EXCEPT ![p] = "cut"]
             \/ pc' = [pc EXCEPT ![v] = IF Alive(v) THEN "gone" ELSE @, ![p] = "count"]
        BY <1>6 DEF sweep_kill, Goto, hist
    <2> HIDE DEF v
    <2>2. \A q \in Pid : \/ pc'[q] = pc[q] \/ pc'[q] \in DeadPc
                         \/ q = p /\ pc'[q] = "count"
        BY <2>1, <1>pc
    <2> QED
        BY <2>1, <2>2, WalkCalls
<1>7. ASSUME NEW p \in Pid, NEW q \in Pid, q = p \/ pc[p] = "loop", pc[q] = "free",
             \A r \in Pid : r # q => job'[r] = job[r] /\ at'[r] = at[r],
             job'[q] \in Loader, entry' = entry,
             reg' = [reg EXCEPT ![p] = [who |-> q, n |-> 0, todo |-> {"load"}]],
             pc'[p] = "reg", q # p => pc'[q] = "rpc",
             \A r \in Pid : r \notin {p, q} => pc'[r] = pc[r]
      PROVE  Calls'
    <2> DEFINE call == [who |-> q, n |-> 0, todo |-> {"load"}]
    <2>1. call.who = q /\ call.todo = {"load"} /\ call.todo # {}
        OBVIOUS
    <2>2. reg' = [reg EXCEPT ![p] = call]
        BY <1>7
    <2> HIDE DEF call
    <2>3. reg'[p] = call /\ \A r \in Pid : r # p => reg'[r] = reg[r]
        BY <2>2, <1>reg
    <2>4. \A r \in Pid : reg[r].todo # {} => reg[r].who # q /\ reg[r].who \in Pid
        BY <1>7, <1>reg DEF Shape, Calls, CallOf
    <2>5. entry[q] = 0 /\ reg[q].todo = {} /\ q # 0
        BY <1>7, PidAssumption DEF Shape, Calls, CallOf, Pid
    <2>6. reg[p].todo = {}
        BY <1>7, <2>5 DEF Shape, Calls, CallOf, Alive
    <2>7. ASSUME NEW r \in Pid PROVE CallOf(r)'
        <3>1. CASE r = p
            <4>1. entry[p] # 0 => job'[p] \in Loader
                BY <1>7, <2>5 DEF Shape, Calls, CallOf
            <4>2. pc'[q] # "free" /\ Alive(p)'
                BY <1>7 DEF Alive
            <4> QED
                BY <1>7, <2>1, <2>3, <2>5, <3>1, <4>1, <4>2 DEF CallOf
        <3>2. CASE r = q /\ q # p
            <4>1. pc'[q] = "rpc" /\ reg'[q].todo = {} /\ entry'[q] = 0
                BY <1>7, <2>3, <2>5, <3>2
            <4> QED
                BY <3>2, <4>1 DEF CallOf
        <3>3. CASE r # p /\ r # q
            <4>1. pc'[r] = pc[r] /\ reg'[r] = reg[r] /\ at'[r] = at[r] /\ job'[r] = job[r]
                BY <1>7, <2>3, <3>3
            <4>2. Storing(r)' = Storing(r) /\ Alive(r)' = Alive(r)
                BY <4>1 DEF Storing, Alive
            <4>3. ASSUME reg[r].todo # {}
                  PROVE  pc'[reg[r].who] # "free" /\ job'[reg[r].who] \in Loader
                <5>1. reg[r].who # q /\ reg[r].who \in Pid /\ pc[reg[r].who] # "free"
                      /\ job[reg[r].who] \in Loader
                    BY <2>4, <4>3 DEF Shape, Calls, CallOf
                <5> QED
                    BY <1>7, <5>1
            <4> QED
                BY <1>7, <4>1, <4>2, <4>3 DEF Shape, Calls, CallOf
        <3> QED
            BY <3>1, <3>2, <3>3
    <2>8. \A r, t \in Pid : reg'[r].todo # {} /\ reg'[t].todo # {} /\ reg'[r].who = reg'[t].who => r = t
        BY <2>1, <2>3, <2>4 DEF Shape, Calls
    <2> QED
        BY <2>7, <2>8 DEF Calls
<1>8. ASSUME NEW p \in Pid, NEW l \in Loader, start_loader(p, l) PROVE Calls'
    <2>1. /\ pc[p] = "free" /\ pc' = [pc EXCEPT ![p] = "reg"] /\ job' = [job EXCEPT ![p] = l]
          /\ reg' = [reg EXCEPT ![p] = [who |-> p, n |-> 0, todo |-> {"load"}]]
          /\ UNCHANGED <<at, entry>>
        BY <1>8 DEF start_loader, Fresh, Goto, hist
    <2>2. /\ job'[p] \in Loader /\ pc'[p] = "reg"
          /\ \A r \in Pid : r # p => job'[r] = job[r] /\ pc'[r] = pc[r]
        BY <2>1, <1>pc
    <2> QED
        BY <2>1, <2>2, <1>7
<1>9. ASSUME NEW p \in Pid, NEW q \in Pid, launch(p, q) PROVE Calls'
    <2>1. /\ pc[p] = "loop" /\ pc[q] = "free" /\ job[p] \in Loader /\ entry' = entry
          /\ pc' = [pc EXCEPT ![p] = "reg", ![q] = "rpc"] /\ job' = [job EXCEPT ![q] = job[p]]
          /\ at' = [at EXCEPT ![q] = at[p]]
          /\ reg' = [reg EXCEPT ![p] = [who |-> q, n |-> 0, todo |-> {"load"}]]
        BY <1>9 DEF launch, ToDo, Fresh, hist, Shape, Places, PlaceOf
    <2>2. /\ p # q /\ job'[q] \in Loader /\ pc'[p] = "reg" /\ pc'[q] = "rpc"
          /\ \A r \in Pid : r # q => job'[r] = job[r] /\ at'[r] = at[r]
          /\ \A r \in Pid : r \notin {p, q} => pc'[r] = pc[r]
        BY <2>1, <1>pc
    <2> QED
        BY <2>1, <2>2, <1>7
<1>10. ASSUME NEW p \in Pid, reg_load(p) PROVE Calls'
    <2> DEFINE s == IF at[p] = 0 THEN key ELSE at[p]
    <2>1. CASE s = 0
        BY <1>3, <1>10, <2>1 DEF reg_load
    <2>2. CASE s # 0
        <3>1. /\ pc[p] = "reg" /\ at' = [at EXCEPT ![p] = s]
              /\ reg' = [reg EXCEPT ![p].n = seg[s].pids, ![p].todo = {"count", "slot"}]
              /\ UNCHANGED <<pc, job, entry>>
            BY <1>10, <2>2 DEF reg_load
        <3> HIDE DEF s
        <3>2. /\ reg'[p].who = reg[p].who /\ reg'[p].todo = {"count", "slot"} /\ at'[p] = s
              /\ \A q \in Pid : q # p => reg'[q] = reg[q] /\ at'[q] = at[q]
            BY <3>1, <1>reg, <1>pc
        <3>3. reg[p].todo # {} /\ Alive(p)
            BY <3>1 DEF Shape, Calls, CallOf
        <3>4. Storing(p)' /\ \A q \in Pid : q # p => Storing(q)' = Storing(q)
            BY <3>2 DEF Storing
        <3>5. \A q \in Pid : reg'[q].who = reg[q].who /\ (reg'[q].todo # {} <=> reg[q].todo # {})
            BY <3>2, <3>3
        <3>6. \A q \in Pid : Alive(q)' = Alive(q)
            BY <3>1 DEF Alive
        <3>7. ASSUME NEW q \in Pid PROVE CallOf(q)'
            <4>1. CASE q = p
                <5>1. /\ reg[p].who \in Pid /\ reg[p].who # 0 /\ entry[reg[p].who] = 0
                      /\ pc[reg[p].who] # "free" /\ job[reg[p].who] \in Loader
                    BY <3>3, CallUnderWay
                <5>2. entry[p] # 0 => job[p] \in Loader /\ pc[p] # "free"
                    BY DEF Shape, Calls, CallOf
                <5> QED
                    BY <2>2, <3>1, <3>2, <3>3, <3>4, <3>5, <3>6, <4>1, <5>1, <5>2 DEF CallOf
            <4>2. CASE q # p
                <5>1. /\ pc' = pc /\ job' = job /\ entry' = entry /\ reg'[q] = reg[q] /\ at'[q] = at[q]
                      /\ Storing(q)' = Storing(q) /\ Alive(q)' = Alive(q)
                    BY <3>1, <3>2, <3>4, <3>6, <4>2
                <5>2. CallOf(q)
                    BY DEF Shape, Calls
                <5> QED
                    BY <5>1, <5>2 DEF CallOf
            <4> QED
                BY <4>1, <4>2
        <3> QED
            BY <3>5, <3>7 DEF Shape, Calls
    <2> QED
        BY <2>1, <2>2
<1>11. ASSUME NEW p \in Pid, NEW what \in {"count", "slot"}, pc[p] = "reg", what \in reg[p].todo,
              Stored(p, what)
       PROVE  Calls'
    <2>1. /\ reg' = [reg EXCEPT ![p].todo = @ \ {what}] /\ UNCHANGED <<job, at>>
          /\ \/ /\ reg[p].todo = {what} /\ pc' = [pc EXCEPT ![p] = "loop"]
                /\ entry' = [entry EXCEPT ![reg[p].who] = at[p]]
             \/ reg[p].todo # {what} /\ UNCHANGED <<pc, entry>>
        BY <1>11 DEF Stored, Goto
    <2>2. /\ Alive(p) /\ Storing(p) /\ at[p] # 0 /\ reg[p].who \in Pid /\ reg[p].who # 0
          /\ job[reg[p].who] \in Loader /\ pc[reg[p].who] # "free"
        BY <1>11, <1>reg DEF Shape, Calls, CallOf
    <2>3. /\ reg'[p].who = reg[p].who /\ reg'[p].todo = reg[p].todo \ {what}
          /\ \A q \in Pid : q # p => reg'[q] = reg[q]
        BY <2>1, <1>reg
    <2>4. \A q \in Pid : q # p => Storing(q)' = Storing(q)
        BY <2>3 DEF Storing
    <2>5. \A q \in Pid : /\ reg'[q].who = reg[q].who
                         /\ reg'[q].todo # {} => reg[q].todo # {}
        BY <2>3
    <2>6. CASE reg[p].todo = {what} /\ pc' = [pc EXCEPT ![p] = "loop"]
               /\ entry' = [entry EXCEPT ![reg[p].who] = at[p]]
        <3>1. reg'[p].todo = {}
            BY <2>3, <2>6
        <3>2. /\ pc'[p] = "loop" /\ \A q \in Pid : q # p => pc'[q] = pc[q]
              /\ \A q \in Pid : entry'[q] = IF q = reg[p].who THEN at[p] ELSE entry[q]
            BY <2>2, <2>6, <1>pc, <1>reg
        <3>3. \A q \in Pid : pc[q] # "free" => pc'[q] # "free"
            BY <3>2
        <3>4. ASSUME NEW q \in Pid PROVE CallOf(q)'
            <4>1. entry'[q] # 0 => job'[q] \in Loader /\ pc'[q] # "free"
                BY <2>1, <2>2, <3>2, <3>3 DEF Shape, Calls, CallOf
            <4>2. CASE q = p
                BY <3>1, <3>2, <4>1, <4>2 DEF CallOf
            <4>3. CASE q # p
                <5>1. Alive(q)' = Alive(q) /\ pc'[q] = pc[q] /\ reg'[q] = reg[q]
                    BY <2>3, <3>2, <4>3 DEF Alive
                <5>2. reg[q].todo # {} => reg[q].who # reg[p].who /\ reg[q].who \in Pid
                    BY <2>2, <4>3, <1>reg DEF Shape, Calls, CallOf, Storing
                <5>3. reg[q].todo # {} => entry'[reg[q].who] = 0 /\ pc'[reg[q].who] # "free"
                    BY <3>2, <3>3, <5>2 DEF Shape, Calls, CallOf
                <5> QED
                    BY <2>1, <2>4, <4>1, <4>3, <5>1, <5>3 DEF Shape, Calls, CallOf
            <4> QED
                BY <4>2, <4>3
        <3> QED
            BY <2>5, <3>4 DEF Shape, Calls
    <2>7. CASE reg[p].todo # {what} /\ UNCHANGED <<pc, entry>>
        <3>1. Storing(p)' /\ reg'[p].todo # {}
            BY <1>11, <2>2, <2>3, <2>7 DEF Storing
        <3>2. \A q \in Pid : Alive(q)' = Alive(q)
            BY <2>7 DEF Alive
        <3>3. ASSUME NEW q \in Pid PROVE CallOf(q)'
            <4>1. CASE q = p
                BY <1>11, <2>1, <2>2, <2>3, <2>7, <3>1, <3>2, <4>1 DEF Shape, Calls, CallOf
            <4>2. CASE q # p
                BY <2>1, <2>3, <2>4, <2>7, <3>2, <4>2 DEF Shape, Calls, CallOf
            <4> QED
                BY <4>1, <4>2
        <3> QED
            BY <2>5, <3>3 DEF Shape, Calls
    <2> QED
        BY <2>1, <2>6, <2>7
<1>12. ASSUME NEW p \in Pid, init_clear(p) PROVE Calls'
    BY <1>1, <1>12 DEF init_clear, Goto
<1>13. ASSUME NEW p \in Pid, sigroutine(p) PROVE Calls'
    BY <1>1, <1>13 DEF sigroutine, Goto
<1>14. ASSUME NEW p \in Pid,
              \/ init_remove(p) \/ init_create(p) \/ init_trap(p) \/ sweep_count(p) \/ loop_end(p)
              \/ child_listen(p) \/ start_returns(p)
       PROVE  Calls'
    <2>1. UNCHANGED <<job, at, reg, entry>>
        BY <1>14 DEF init_remove, init_create, init_trap, sweep_count, loop_end, child_listen,
           start_returns, hist
    <2>2. \E l \in {"create", "clear", "sleep", "kill", "swept", "wait", "start", "loop"} :
             pc' = [pc EXCEPT ![p] = l] /\ pc[p] \notin DeadPc \cup {"reg"}
        BY <1>14 DEF init_remove, init_create, init_trap, sweep_count, loop_end, child_listen,
           start_returns, Goto
    <2> QED
        BY <1>1, <2>1, <2>2
<1>15. ASSUME NEW p \in Pid, request_name(p) PROVE Calls'
    BY <1>2, <1>3, <1>15 DEF request_name, hist
<1> QED
    BY <1>2, <1>3, <1>4, <1>5, <1>6, <1>8, <1>9, <1>10, <1>11, <1>12, <1>13, <1>14, <1>15
    DEF Next, vars, hist, default_term, load_missing, launch_fails, launch_framework, Crash,
       reg_count, reg_slot

\* The starts of initd.
LEMMA NextStarts == Shape /\ Starts /\ [Next]_vars => Starts'
<1> SUFFICES ASSUME Shape, Starts, [Next]_vars PROVE Starts'
    OBVIOUS
<1> DEFINE T == {q \in Pid : job[q] = "initd" /\ name[q] \notin Module}
<1>typ. job \in [Pid -> Loader \cup {"initd", ""}] /\ name \in [Pid -> Module \cup Loader \cup {""}]
    BY DEF Shape, TypeOK
<1>1. ASSUME \A q \in Pid : job'[q] = "initd" => job[q] = "initd" /\ name[q] = "" PROVE Starts'
    <2>1. T' \subseteq T
        BY <1>1, NamesAssumption
    <2>2. IsFiniteSet(T) /\ Cardinality(T) \in Nat /\ Cardinality(T') \in Nat
        BY FinitePid
    <2>3. Cardinality(T') <= Cardinality(T)
        BY <2>1, <2>2, FS_Subset
    <2>4. Started("initd") = Cardinality(T) /\ Started("initd")' = Cardinality(T')
        BY DEF Started
    <2> HIDE DEF T
    <2> QED
        BY <2>2, <2>3, <2>4, BoundAssumption DEF Starts
<1>2. ASSUME NEW p \in Pid, start_initd(p) PROVE Starts'
    <2>1. /\ pc[p] = "free" /\ Started("initd") < MaxInitd /\ name' = name
          /\ job' = [job EXCEPT ![p] = "initd"]
        BY <1>2 DEF start_initd, Fresh
    <2>2. job[p] = "" /\ name[p] = ""
        BY <2>1 DEF Shape, Places, PlaceOf
    <2>3. p \notin T /\ T' = T \cup {p}
        BY <2>1, <2>2, <1>typ, NamesAssumption
    <2>4. IsFiniteSet(T) /\ Cardinality(T) \in Nat
        BY FinitePid
    <2>5. Cardinality(T') = Cardinality(T) + 1
        BY <2>3, <2>4, FS_AddElement
    <2>6. Started("initd") = Cardinality(T) /\ Started("initd")' = Cardinality(T')
        BY DEF Started
    <2> HIDE DEF T
    <2> QED
        BY <2>1, <2>4, <2>5, <2>6, BoundAssumption DEF Starts
<1>3. \A q \in Pid : job[q] = "initd" => name[q] = ""
    BY DEF Shape, Places, PlaceOf
<1>4. CASE job' = job
    BY <1>1, <1>3, <1>4
<1>5. ASSUME NEW p \in Pid, NEW l \in Loader, start_loader(p, l) PROVE Starts'
    BY <1>1, <1>3, <1>5, <1>typ, NamesAssumption DEF start_loader
<1>6. ASSUME NEW p \in Pid, NEW q \in Pid, launch(p, q) PROVE Starts'
    <2>1. job[p] # "initd"
        BY <1>6, NamesAssumption DEF launch, ToDo, Shape, Places, PlaceOf
    <2> QED
        BY <1>1, <1>3, <1>6, <2>1, <1>typ DEF launch
<1> QED
    BY <1>2, <1>4, <1>5, <1>6
    DEF Next, vars, init_remove, init_create, init_clear, init_attach, init_trap, sigroutine,
        default_term, sweep_count, sweep_kill, reg_load, reg_count, reg_slot, load_missing,
        launch_fails, launch_framework, loop_end, child_listen, start_returns, request_name,
        Crash, Die, Stored

-----------------------------------------------------------------------------
(* The steps, by what they do to the table. *)

\* The registrations that store go on undisturbed, or die.
Undisturbed ==
    \A r \in Pid :
        /\ Storing(r)' <=> Storing(r)
        /\ Storing(r) => reg'[r] = reg[r] /\ at'[r] = at[r] /\ (Alive(r)' => Alive(r))

Quiet == Undisturbed /\ UNCHANGED <<seg, entry, raced, wiped>>

\* p reads the index of its registration in segment s.
Loads(p, s) ==
    /\ Alive(p) /\ reg[p].todo = {"load"}
    /\ at'[p] = s
    /\ reg'[p].who = reg[p].who /\ reg'[p].n = seg[s].pids /\ reg'[p].todo = {"count", "slot"}
    /\ \A r \in Pid : r # p => reg'[r] = reg[r] /\ at'[r] = at[r]
    /\ at[p] \in {0, s}
    /\ raced' = IF Entering(s) = {} THEN raced ELSE raced \cup Entering(s) \cup {reg[p].who}
    /\ UNCHANGED <<pc, seg, entry, wiped>>

\* A process that is in no call of reg_pid, before and after.
LEMMA NotStoring ==
    ASSUME Shape, NEW r \in Pid, Alive(r), pc[r] # "reg" PROVE reg[r].todo = {} /\ ~Storing(r)
BY DEF Shape, Calls, CallOf, Storing

LEMMA SameReg ==
    ASSUME Shape, UNCHANGED reg,
           \A r \in Pid : Alive(r)' => Alive(r) \/ pc[r] = "free",
           \A r \in Pid : Storing(r) => at'[r] = at[r]
    PROVE  Undisturbed
<1>1. \A r \in Pid : Storing(r) => pc[r] # "free"
    BY DEF Shape, Calls, CallOf, Storing
<1>2. \A r \in Pid : Storing(r)' <=> Storing(r)
    BY DEF Storing
<1> QED
    BY <1>1, <1>2 DEF Undisturbed

LEMMA Kinds ==
    ASSUME Shape, [Next]_vars
    PROVE  \/ Quiet
           \/ \E p \in Pid, s \in Seg : Loads(p, s)
           \/ \E p \in Pid : init_clear(p) \/ reg_count(p) \/ reg_slot(p)
<1> SUFFICES ASSUME ~ \E p \in Pid, s \in Seg : Loads(p, s),
                    ~ \E p \in Pid : init_clear(p) \/ reg_count(p) \/ reg_slot(p)
             PROVE  Quiet
    OBVIOUS
<1>typ. /\ pc \in [Pid -> InitdPc \cup LoaderPc \cup ChildPc \cup DeadPc \cup {"free"}]
        /\ at \in [Pid -> Seg \cup {0}] /\ key \in Seg \cup {0}
    BY DEF Shape, TypeOK
<1>reg. reg \in [Pid -> [who : Pid \cup {0}, n : 0 .. MaxPid, todo : Todo]]
    BY DEF Shape, TypeOK
<1>1. ASSUME NEW p \in Pid, NEW l, pc' = [pc EXCEPT ![p] = l],
             l \in DeadPc \/ Alive(p) \/ pc[p] = "free",
             UNCHANGED <<at, reg, seg, entry, raced, wiped>>
      PROVE  Quiet
    <2>1. \A r \in Pid : Alive(r)' => Alive(r) \/ pc[r] = "free"
        BY <1>1, <1>typ DEF Alive
    <2> QED
        BY <1>1, <2>1, SameReg DEF Quiet
<1>2. CASE UNCHANGED <<pc, at, reg, seg, entry, raced, wiped>>
    <2>1. \A r \in Pid : Alive(r)' => Alive(r) \/ pc[r] = "free"
        BY <1>2 DEF Alive
    <2> QED
        BY <1>2, <2>1, SameReg DEF Quiet
<1>3. ASSUME NEW p \in Pid, Die(p) PROVE Quiet
    BY <1>1, <1>3 DEF Die, hist
<1>4. ASSUME NEW p \in Pid, init_attach(p) PROVE Quiet
    <2>1. CASE key = 0
        BY <1>3, <1>4, <2>1 DEF init_attach
    <2>2. CASE key # 0
        <3>1. /\ pc[p] = "attach" /\ pc' = [pc EXCEPT ![p] = "trap"] /\ at' = [at EXCEPT ![p] = key]
              /\ UNCHANGED <<reg, seg, entry, raced, wiped>>
            BY <1>4, <2>2 DEF init_attach, Goto, hist
        <3>2. ~Storing(p)
            BY <3>1, NotStoring DEF Alive
        <3>3. \A r \in Pid : Alive(r)' => Alive(r) \/ pc[r] = "free"
            BY <3>1, <1>typ DEF Alive
        <3>4. \A r \in Pid : Storing(r) => at'[r] = at[r]
            BY <3>1, <3>2, <1>typ
        <3> QED
            BY <3>1, <3>3, <3>4, SameReg DEF Quiet
    <2> QED
        BY <2>1, <2>2
<1>5. ASSUME NEW p \in Pid, sweep_kill(p) PROVE Quiet
    <2> DEFINE v == seg[at[p]].pidv[pos[p]]
    <2>1. /\ pc[p] = "kill" /\ UNCHANGED <<at, reg, seg, entry, raced, wiped>>
          /\ \/ pc' = [pc EXCEPT ![p] = "cut"]
             \/ pc' = [pc EXCEPT ![v] = IF Alive(v) THEN "gone" ELSE @, ![p] = "count"]
        BY <1>5 DEF sweep_kill, Goto, hist
    <2> HIDE DEF v
    <2>2. \A r \in Pid : Alive(r)' => Alive(r) \/ pc[r] = "free"
        BY <2>1, <1>typ DEF Alive
    <2> QED
        BY <2>1, <2>2, SameReg DEF Quiet
<1>6. ASSUME NEW p \in Pid, NEW q \in Pid, ~Storing(p), ~Storing(q), pc[q] = "free", Alive(p) \/ p = q,
             reg' = [reg EXCEPT ![p] = [who |-> q, n |-> 0, todo |-> {"load"}]],
             UNCHANGED <<seg, entry, raced, wiped>>,
             \A r \in Pid : r \notin {p, q} => pc'[r] = pc[r] /\ at'[r] = at[r]
      PROVE  Quiet
    <2>1. reg'[p].todo = {"load"} /\ \A r \in Pid : r # p => reg'[r] = reg[r]
        BY <1>6, <1>reg
    <2>2. ~Storing(p)' /\ \A r \in Pid : r # p => (Storing(r)' <=> Storing(r))
        BY <2>1 DEF Storing
    <2>3. \A r \in Pid : r \notin {p, q} => (Alive(r)' <=> Alive(r))
        BY <1>6 DEF Alive
    <2> QED
        BY <1>6, <2>1, <2>2, <2>3 DEF Quiet, Undisturbed
<1>7. ASSUME NEW p \in Pid, NEW l \in Loader, start_loader(p, l) PROVE Quiet
    <2>1. /\ pc[p] = "free" /\ pc' = [pc EXCEPT ![p] = "reg"]
          /\ reg' = [reg EXCEPT ![p] = [who |-> p, n |-> 0, todo |-> {"load"}]]
          /\ UNCHANGED <<at, seg, entry, raced, wiped>>
        BY <1>7 DEF start_loader, Fresh, Goto, hist
    <2>2. ~Storing(p)
        BY <2>1 DEF Shape, Calls, CallOf, Storing
    <2> QED
        BY <1>6, <2>1, <2>2, <1>typ
<1>8. ASSUME NEW p \in Pid, NEW q \in Pid, launch(p, q) PROVE Quiet
    <2>1. /\ pc[p] = "loop" /\ pc[q] = "free" /\ pc' = [pc EXCEPT ![p] = "reg", ![q] = "rpc"]
          /\ at' = [at EXCEPT ![q] = at[p]]
          /\ reg' = [reg EXCEPT ![p] = [who |-> q, n |-> 0, todo |-> {"load"}]]
          /\ UNCHANGED <<seg, entry, raced, wiped>>
        BY <1>8 DEF launch, ToDo, Fresh, hist
    <2>2. Alive(p) /\ ~Storing(p) /\ ~Storing(q)
        BY <2>1, NotStoring DEF Shape, Calls, CallOf, Storing, Alive
    <2>3. \A r \in Pid : r \notin {p, q} => pc'[r] = pc[r] /\ at'[r] = at[r]
        BY <2>1, <1>typ
    <2> QED
        BY <1>6, <2>1, <2>2, <2>3
<1>9. ASSUME NEW p \in Pid, reg_load(p) PROVE Quiet
    <2> DEFINE s == IF at[p] = 0 THEN key ELSE at[p]
    <2>1. CASE s = 0
        BY <1>3, <1>9, <2>1 DEF reg_load
    <2>2. CASE s # 0
        <3>1. /\ pc[p] = "reg" /\ reg[p].todo = {"load"} /\ at' = [at EXCEPT ![p] = s]
              /\ reg' = [reg EXCEPT ![p].n = seg[s].pids, ![p].todo = {"count", "slot"}]
              /\ raced' = IF Entering(s) = {} THEN raced ELSE raced \cup Entering(s) \cup {reg[p].who}
              /\ UNCHANGED <<pc, seg, entry, wiped>>
            BY <1>9, <2>2 DEF reg_load
        <3>2. s \in Seg /\ at[p] \in {0, s}
            BY <2>2, <1>typ
        <3> HIDE DEF s
        <3>3. /\ reg'[p].who = reg[p].who /\ reg'[p].n = seg[s].pids /\ reg'[p].todo = {"count", "slot"}
              /\ \A r \in Pid : r # p => reg'[r] = reg[r]
            BY <3>1, <1>reg
        <3>4. at'[p] = s /\ \A r \in Pid : r # p => at'[r] = at[r]
            BY <3>1, <1>typ
        <3>5. Alive(p)
            BY <3>1 DEF Alive
        <3> QED
            BY <3>1, <3>2, <3>3, <3>4, <3>5 DEF Loads
    <2> QED
        BY <2>1, <2>2
<1>10. ASSUME NEW p \in Pid,
              \/ start_initd(p) \/ init_remove(p) \/ init_create(p) \/ init_trap(p) \/ sigroutine(p)
              \/ sweep_count(p) \/ loop_end(p) \/ child_listen(p) \/ start_returns(p)
       PROVE  Quiet
    <2>1. /\ Alive(p) \/ pc[p] = "free"
          /\ UNCHANGED <<at, reg, seg, entry, raced, wiped>>
        BY <1>10 DEF start_initd, init_remove, init_create, init_trap, sigroutine, sweep_count,
           loop_end, child_listen, start_returns, hist, Fresh, Alive
    <2>2. \E l : pc' = [pc EXCEPT ![p] = l]
        BY <1>10 DEF start_initd, init_remove, init_create, init_trap, sigroutine, sweep_count,
           loop_end, child_listen, start_returns, Goto
    <2> QED
        BY <1>1, <2>1, <2>2
<1>11. ASSUME NEW p \in Pid, request_name(p) PROVE Quiet
    BY <1>2, <1>3, <1>11 DEF request_name, hist
<1> QED
    BY <1>2, <1>3, <1>4, <1>5, <1>7, <1>8, <1>9, <1>10, <1>11
    DEF Next, vars, hist, default_term, load_missing, launch_fails, launch_framework, Crash

\* p does one of its two stores, of which the table is not said.
Stores(p, what) ==
    /\ Enters(p, at[p]) /\ at[p] \in Seg /\ reg[p].who \in Pid /\ reg[p].who # 0
    /\ reg[p].n \in Slot /\ what \in reg[p].todo
    /\ reg'[p].who = reg[p].who /\ reg'[p].n = reg[p].n /\ reg'[p].todo = reg[p].todo \ {what}
    /\ \A r \in Pid : r # p => reg'[r] = reg[r]
    /\ \A r \in Pid : Alive(r)' <=> Alive(r)
    /\ \A q \in Pid : entry'[q] = IF q = reg[p].who /\ reg[p].todo = {what} THEN at[p] ELSE entry[q]
    /\ entry[reg[p].who] = 0
    /\ UNCHANGED <<at, raced, wiped>>

\* The count it stores is one above the index it read.
Counts(p) ==
    /\ Stores(p, "count")
    /\ \A s \in Seg : /\ seg'[s].pids = IF s = at[p] THEN reg[p].n + 1 ELSE seg[s].pids
                      /\ seg'[s].pidv = seg[s].pidv

\* The slot it fills is the one at that index.
Fills(p) ==
    /\ Stores(p, "slot")
    /\ \A s \in Seg :
          /\ seg'[s].pids = seg[s].pids
          /\ \A i \in Slot : seg'[s].pidv[i] =
                IF s = at[p] /\ i = reg[p].n THEN reg[p].who ELSE seg[s].pidv[i]

\* An initd zeroes segment s.
Clears(s) ==
    /\ \A t \in Seg : seg'[t] = IF t = s THEN Zeroed ELSE seg[t]
    /\ raced' = raced \cup {q \in Pid : entry[q] = s} \cup Entering(s)
    /\ wiped' = IF Entering(s) = {} THEN wiped ELSE wiped \cup {s}
    /\ \A r \in Pid : Alive(r)' <=> Alive(r)
    /\ UNCHANGED <<at, reg, entry>>

\* The index of a registration is one of the table.
LEMMA IndexInTable ==
    ASSUME Base, NEW r \in Pid, Storing(r) PROVE reg[r].n \in Slot
<1>1. Counted \subseteq Pid
    BY DEF Counted
<1>2. Cardinality(Counted) <= MaxPid /\ Cardinality(Counted) \in Nat
    BY <1>1, FinitePid
<1>3. reg[r].n < Cardinality(Counted) /\ reg[r].n \in 0 .. MaxPid
    BY DEF Base, Bounded, TypeOK
<1> QED
    BY <1>2, <1>3, PidAssumption DEF Slot

LEMMA StoredStores ==
    ASSUME Base, NEW p \in Pid, NEW what \in {"count", "slot"}, pc[p] = "reg", what \in reg[p].todo,
           Stored(p, what)
    PROVE  Stores(p, what)
<1>0. Shape
    BY DEF Base, Shape
<1>typ. /\ pc \in [Pid -> InitdPc \cup LoaderPc \cup ChildPc \cup DeadPc \cup {"free"}]
        /\ entry \in [Pid -> Seg \cup {0}]
    BY DEF Base, TypeOK
<1>reg. reg \in [Pid -> [who : Pid \cup {0}, n : 0 .. MaxPid, todo : Todo]]
    BY DEF Base, TypeOK
<1>1. /\ reg' = [reg EXCEPT ![p].todo = @ \ {what}] /\ UNCHANGED <<at, raced, wiped>>
      /\ \/ /\ reg[p].todo = {what} /\ pc' = [pc EXCEPT ![p] = "loop"]
            /\ entry' = [entry EXCEPT ![reg[p].who] = at[p]]
         \/ reg[p].todo # {what} /\ UNCHANGED <<pc, entry>>
    BY DEF Stored, Goto
<1>2. reg[p].todo # {} /\ reg[p].todo # {"load"}
    OBVIOUS
<1>3. /\ reg[p].who \in Pid /\ reg[p].who # 0 /\ entry[reg[p].who] = 0
      /\ Storing(p) /\ at[p] \in Seg
    BY <1>0, <1>2, CallUnderWay
<1>4. reg[p].n \in Slot
    BY <1>3, IndexInTable
<1>5. Enters(p, at[p])
    BY <1>3 DEF Enters, Alive
<1>6. /\ reg'[p].who = reg[p].who /\ reg'[p].n = reg[p].n /\ reg'[p].todo = reg[p].todo \ {what}
      /\ \A r \in Pid : r # p => reg'[r] = reg[r]
    BY <1>1, <1>reg
<1>7. \A r \in Pid : Alive(r)' <=> Alive(r)
    BY <1>1, <1>typ DEF Alive
<1>8. \A q \in Pid : entry'[q] = IF q = reg[p].who /\ reg[p].todo = {what} THEN at[p] ELSE entry[q]
    BY <1>1, <1>3, <1>typ
<1> QED
    BY <1>1, <1>3, <1>4, <1>5, <1>6, <1>7, <1>8 DEF Stores

\* Every step, by what it does to the table.
LEMMA Cases ==
    ASSUME Base, [Next]_vars
    PROVE  \/ Quiet
           \/ \E p \in Pid, s \in Seg : Loads(p, s)
           \/ \E s \in Seg : Clears(s)
           \/ \E p \in Pid : Counts(p) \/ Fills(p)
<1>0. Shape
    BY DEF Base, Shape
<1>typ. /\ pc \in [Pid -> InitdPc \cup LoaderPc \cup ChildPc \cup DeadPc \cup {"free"}]
        /\ seg \in [Seg -> [pids : 0 .. MaxPid, pidv : [Slot -> Pid \cup {0}]]]
    BY DEF Base, TypeOK
<1>1. ASSUME NEW p \in Pid, init_clear(p) PROVE Clears(shmid[p]) /\ shmid[p] \in Seg
    <2>1. shmid[p] \in Seg
        BY <1>1 DEF init_clear, Base, Places, PlaceOf, TypeOK
    <2>2. /\ pc[p] = "clear" /\ pc' = [pc EXCEPT ![p] = "attach"]
          /\ seg' = [seg EXCEPT ![shmid[p]] = Zeroed]
          /\ raced' = raced \cup {q \in Pid : entry[q] = shmid[p]} \cup Entering(shmid[p])
          /\ wiped' = IF Entering(shmid[p]) = {} THEN wiped ELSE wiped \cup {shmid[p]}
          /\ UNCHANGED <<at, reg, entry>>
        BY <1>1 DEF init_clear, Goto
    <2>3. \A r \in Pid : Alive(r)' <=> Alive(r)
        BY <2>2, <1>typ DEF Alive
    <2>4. \A t \in Seg : seg'[t] = IF t = shmid[p] THEN Zeroed ELSE seg[t]
        BY <2>1, <2>2, <1>typ
    <2> QED
        BY <2>1, <2>2, <2>3, <2>4 DEF Clears
<1>2. ASSUME NEW p \in Pid, reg_count(p) PROVE Counts(p)
    <2>1. Stores(p, "count")
        BY <1>2, StoredStores DEF reg_count
    <2>2. at[p] \in Seg /\ seg' = [seg EXCEPT ![at[p]].pids = reg[p].n + 1]
        BY <1>2, <2>1 DEF reg_count, Stores
    <2>3. \A s \in Seg : /\ seg'[s].pids = IF s = at[p] THEN reg[p].n + 1 ELSE seg[s].pids
                         /\ seg'[s].pidv = seg[s].pidv
        BY <2>2, <1>typ
    <2> QED
        BY <2>1, <2>3 DEF Counts
<1>3. ASSUME NEW p \in Pid, reg_slot(p) PROVE Fills(p)
    <2>1. Stores(p, "slot")
        BY <1>3, StoredStores DEF reg_slot
    <2>2. /\ at[p] \in Seg /\ reg[p].n \in Slot /\ reg[p].who \in Pid
          /\ seg' = [seg EXCEPT ![at[p]].pidv[reg[p].n] = reg[p].who]
        BY <1>3, <2>1 DEF reg_slot, Stores
    <2>3. \A s \in Seg :
             /\ seg'[s].pids = seg[s].pids
             /\ \A i \in Slot : seg'[s].pidv[i] =
                   IF s = at[p] /\ i = reg[p].n THEN reg[p].who ELSE seg[s].pidv[i]
        BY <2>2, <1>typ
    <2> QED
        BY <2>1, <2>3 DEF Fills
<1> QED
    BY <1>0, <1>1, <1>2, <1>3, Kinds

\* How the registrations that may write to a segment change.
LEMMA EntersIsEntering ==
    ASSUME NEW s, NEW r \in Pid, Enters(r, s) PROVE reg[r].who \in Entering(s)
BY DEF Enters, Storing, Entering

LEMMA QuietEnters ==
    ASSUME Quiet, NEW s, NEW r \in Pid, Enters(r, s)' PROVE Enters(r, s) /\ reg'[r] = reg[r]
BY DEF Quiet, Undisturbed, Enters

LEMMA StoresEnters ==
    ASSUME NEW p \in Pid, NEW what, Stores(p, what), NEW s, NEW r \in Pid, Enters(r, s)'
    PROVE  Enters(r, s) /\ reg'[r].who = reg[r].who /\ reg'[r].n = reg[r].n
<1>1. Alive(r) /\ at[r] = s
    BY DEF Stores, Enters
<1>2. CASE r = p
    BY <1>1, <1>2 DEF Stores, Enters
<1>3. CASE r # p
    BY <1>1, <1>3 DEF Stores, Enters, Storing
<1> QED
    BY <1>2, <1>3

LEMMA ClearsEnters ==
    ASSUME NEW t, Clears(t), NEW s, NEW r \in Pid, Enters(r, s)' PROVE Enters(r, s) /\ reg'[r] = reg[r]
BY DEF Clears, Enters, Storing

LEMMA LoadsEnters ==
    ASSUME NEW p \in Pid, NEW t \in Seg, Loads(p, t), NEW s, NEW r \in Pid, Enters(r, s)'
    PROVE  \/ r = p /\ s = t
           \/ r # p /\ Enters(r, s) /\ reg'[r] = reg[r]
BY DEF Loads, Enters, Storing, Alive

-----------------------------------------------------------------------------
(* The count is bounded by the pids counted. *)

LEMMA Numbers ==
    ASSUME Base
    PROVE  /\ \A s \in Seg : seg[s].pids \in Nat
           /\ \A r \in Pid : reg[r].n \in Nat
<1>1. /\ seg \in [Seg -> [pids : 0 .. MaxPid, pidv : [Slot -> Pid \cup {0}]]]
      /\ reg \in [Pid -> [who : Pid \cup {0}, n : 0 .. MaxPid, todo : Todo]]
    BY DEF Base, TypeOK
<1>2. 0 .. MaxPid \subseteq Nat
    BY PidAssumption
<1>3. ASSUME NEW s \in Seg PROVE seg[s].pids \in 0 .. MaxPid
    BY <1>1
<1>4. ASSUME NEW r \in Pid PROVE reg[r].n \in 0 .. MaxPid
    BY <1>1
<1> QED
    BY <1>2, <1>3, <1>4

LEMMA NextBounded == Base /\ [Next]_vars => Bounded'
<1> SUFFICES ASSUME Base, [Next]_vars PROVE Bounded'
    OBVIOUS
<1>0. Shape /\ TypeOK'
    BY NextTypeOK DEF Base, Shape
<1>seg. seg \in [Seg -> [pids : 0 .. MaxPid, pidv : [Slot -> Pid \cup {0}]]]
    BY DEF Base, TypeOK
<1>seg2. seg' \in [Seg -> [pids : 0 .. MaxPid, pidv : [Slot -> Pid \cup {0}]]]
    BY <1>0 DEF TypeOK
<1>reg. \A r \in Pid : reg[r].n \in Nat /\ reg'[r].n \in Nat
    <2>1. /\ reg \in [Pid -> [who : Pid \cup {0}, n : 0 .. MaxPid, todo : Todo]]
          /\ reg' \in [Pid -> [who : Pid \cup {0}, n : 0 .. MaxPid, todo : Todo]]
        BY <1>0 DEF Base, TypeOK
    <2>2. 0 .. MaxPid \subseteq Nat
        BY PidAssumption
    <2>3. ASSUME NEW r \in Pid PROVE reg[r].n \in 0 .. MaxPid /\ reg'[r].n \in 0 .. MaxPid
        BY <2>1
    <2> QED
        BY <2>2, <2>3
<1> DEFINE C == Counted
           D == Counted'
           N == Cardinality(C)
           M == Cardinality(D)
<1>1. /\ C \subseteq Pid /\ D \subseteq Pid
      /\ IsFiniteSet(C) /\ IsFiniteSet(D) /\ N \in Nat /\ M \in Nat
    <2>1. C \subseteq Pid /\ D \subseteq Pid
        BY DEF Counted
    <2> QED
        BY <2>1, FinitePid
<1>2. /\ \A s \in Seg : seg[s].pids <= N
      /\ \A r \in Pid : Storing(r) => reg[r].n < N
    BY DEF Base, Bounded
<1>3. C \subseteq D => N <= M
    BY <1>1, FS_Subset
<1>4. ASSUME C \subseteq D,
             \A s \in Seg : seg'[s].pids <= M,
             \A r \in Pid : Storing(r)' => reg'[r].n < M
      PROVE  Bounded'
    BY <1>4 DEF Bounded
<1>5. ASSUME \A q \in Pid : entry[q] # 0 => entry'[q] # 0,
             \A r \in Pid : Storing(r) => reg'[r].who = reg[r].who
                 /\ (Storing(r)' \/ (reg[r].who \in Pid => entry'[reg[r].who] # 0))
      PROVE  C \subseteq D
    BY <1>1, <1>5 DEF Counted
<1>6. CASE Quiet
    <2>1. C \subseteq D
        BY <1>5, <1>6 DEF Quiet, Undisturbed
    <2>2. \A r \in Pid : Storing(r)' => Storing(r) /\ reg'[r] = reg[r]
        BY <1>6 DEF Quiet, Undisturbed
    <2>3. seg' = seg
        BY <1>6 DEF Quiet
    <2> HIDE DEF N, M, C, D
    <2> QED
        BY <1>1, <1>2, <1>3, <1>4, <1>reg, <1>seg, <2>1, <2>2, <2>3
<1>7. ASSUME NEW p \in Pid, NEW t \in Seg, Loads(p, t) PROVE Bounded'
    <2>1. /\ reg[p].todo = {"load"} /\ reg'[p].who = reg[p].who /\ reg'[p].n = seg[t].pids
          /\ reg'[p].todo = {"count", "slot"} /\ seg' = seg /\ entry' = entry
          /\ \A r \in Pid : r # p => reg'[r] = reg[r]
        BY <1>7 DEF Loads
    <2>2. ~Storing(p) /\ Storing(p)' /\ \A r \in Pid : r # p => (Storing(r)' <=> Storing(r))
        BY <2>1 DEF Storing
    <2>3. reg[p].who \in Pid /\ entry[reg[p].who] = 0
        BY <1>0, <2>1, CallUnderWay
    <2>4. C \subseteq D /\ reg[p].who \in D
        BY <1>5, <2>1, <2>2, <2>3 DEF Counted
    <2>5. reg[p].who \notin C
        <3>1. ASSUME NEW r \in Pid, Storing(r), reg[r].who = reg[p].who PROVE FALSE
            <4>1. reg[r].todo # {} /\ reg[p].todo # {}
                BY <2>1, <3>1 DEF Storing
            <4>2. r = p
                BY <1>0, <3>1, <4>1 DEF Shape, Calls
            <4> QED
                BY <2>2, <3>1, <4>2
        <3> QED
            BY <2>3, <3>1 DEF Counted
    <2>6. N < M
        BY <1>1, <2>4, <2>5, FS_Subset
    <2> HIDE DEF N, M, C, D
    <2> QED
        BY <1>1, <1>2, <1>4, <1>reg, <1>seg, <2>1, <2>2, <2>4, <2>6
<1>8. ASSUME NEW t \in Seg, Clears(t) PROVE Bounded'
    <2>1. reg' = reg /\ entry' = entry /\ \A s \in Seg : seg'[s].pids \in {seg[s].pids, 0}
        BY <1>8 DEF Clears, Zeroed
    <2>2. D = C
        BY <2>1 DEF Counted, Storing
    <2>3. \A r \in Pid : Storing(r)' <=> Storing(r)
        BY <2>1 DEF Storing
    <2> HIDE DEF N, M, C, D
    <2>4. M = N
        BY <2>2 DEF N, M
    <2> QED
        BY <1>1, <1>2, <1>4, <2>1, <2>2, <2>3, <2>4
<1>9. ASSUME NEW p \in Pid, NEW what \in {"count", "slot"}, Stores(p, what),
             \A s \in Seg : seg'[s].pids \in {seg[s].pids, reg[p].n + 1}
      PROVE  Bounded'
    <2>1. \A r \in Pid : reg'[r].who = reg[r].who /\ reg'[r].n = reg[r].n
        BY <1>9 DEF Stores
    <2>2. \A r \in Pid : r # p => (Storing(r)' <=> Storing(r))
        BY <1>9 DEF Stores, Storing
    <2>3. Storing(p) /\ (Storing(p)' \/ reg[p].todo = {what})
        BY <1>9 DEF Stores, Enters, Storing
    <2>4. reg[p].todo = {what} => entry'[reg[p].who] # 0
        BY <1>9 DEF Stores, Seg
    <2>5. \A q \in Pid : entry[q] # 0 => entry'[q] # 0
        BY <1>9 DEF Stores
    <2>6. C \subseteq D
        BY <1>5, <2>1, <2>2, <2>3, <2>4, <2>5
    <2>7. \A r \in Pid : Storing(r)' => Storing(r)
        BY <2>2, <2>3
    <2> HIDE DEF N, M, C, D
    <2>8. N <= M
        BY <1>3, <2>6
    <2> QED
        BY <1>1, <1>2, <1>4, <1>9, <1>reg, <1>seg, <2>1, <2>3, <2>6, <2>7, <2>8
<1>10. ASSUME NEW p \in Pid, Counts(p) \/ Fills(p) PROVE Bounded'
    BY <1>9, <1>10 DEF Counts, Fills
<1> QED
    BY <1>6, <1>7, <1>8, <1>10, Cases

LEMMA InitBase == Init => Base
<1> SUFFICES ASSUME Init PROVE Base
    OBVIOUS
<1>1. Shape
    BY InitShape
<1>2. Starts
    <2>1. {p \in Pid : job[p] = "initd" /\ name[p] \notin Module} = {}
        BY DEF Init
    <2> QED
        BY <2>1, FS_EmptySet, BoundAssumption DEF Starts, Started
<1>3. Bounded
    <2>1. Counted \subseteq Pid
        BY DEF Counted
    <2>2. Cardinality(Counted) \in Nat
        BY <2>1, FinitePid
    <2>3. /\ \A s \in Seg : seg[s].pids = 0
          /\ \A r \in Pid : ~Storing(r)
        BY DEF Init, Zeroed, Storing, Idle
    <2> QED
        BY <2>2, <2>3 DEF Bounded
<1> QED
    BY <1>1, <1>2, <1>3 DEF Base, Shape

LEMMA NextBase == Base /\ [Next]_vars => Base'
<1> SUFFICES ASSUME Base, [Next]_vars PROVE Base'
    OBVIOUS
<1>1. Shape
    BY DEF Base, Shape
<1> QED
    BY <1>1, NextTypeOK, NextPlaces, NextCalls, NextStarts, NextBounded DEF Base

-----------------------------------------------------------------------------
(* What is in the table stays there. *)

LEMMA HoldsStays ==
    ASSUME Base, [Next]_vars, NEW s \in Seg, NEW i \in Slot, NEW q \in Pid,
           Holds(s, i, q), entry[q] = s, q \notin raced'
    PROVE  Holds(s, i, q)'
<1>typ. /\ \A t \in Seg : seg[t].pids \in Nat
        /\ \A r \in Pid : reg[r].n \in Nat
        /\ i \in Nat
    BY Numbers, PidAssumption DEF Slot
<1>1. /\ seg[s].pidv[i] = q /\ i < seg[s].pids
      /\ \A r \in Pid : Enters(r, s) => i < reg[r].n
    BY DEF Holds
<1>2. CASE Quiet
    <2>1. seg' = seg
        BY <1>2 DEF Quiet
    <2>2. \A r \in Pid : Enters(r, s)' => i < reg'[r].n
        BY <1>1, <1>2, QuietEnters
    <2> QED
        BY <1>1, <2>1, <2>2 DEF Holds
<1>3. ASSUME NEW p \in Pid, NEW t \in Seg, Loads(p, t) PROVE Holds(s, i, q)'
    <2>1. seg' = seg /\ reg'[p].n = seg[t].pids
        BY <1>3 DEF Loads
    <2>2. \A r \in Pid : Enters(r, s)' => i < reg'[r].n
        BY <1>1, <1>3, <2>1, LoadsEnters
    <2> QED
        BY <1>1, <2>1, <2>2 DEF Holds
<1>4. ASSUME NEW t \in Seg, Clears(t) PROVE Holds(s, i, q)'
    <2>1. seg'[s] = seg[s]
        BY <1>4 DEF Clears
    <2>2. \A r \in Pid : Enters(r, s)' => i < reg'[r].n
        BY <1>1, <1>4, ClearsEnters
    <2> QED
        BY <1>1, <2>1, <2>2 DEF Holds
<1>5. ASSUME NEW p \in Pid, Counts(p) PROVE Holds(s, i, q)'
    <2>1. seg'[s].pids = (IF s = at[p] THEN reg[p].n + 1 ELSE seg[s].pids) /\ seg'[s].pidv = seg[s].pidv
        BY <1>5 DEF Counts
    <2>2. s = at[p] => i < reg[p].n
        BY <1>1, <1>5 DEF Counts, Stores
    <2>3. i < seg'[s].pids
        BY <1>1, <1>typ, <2>1, <2>2
    <2>4. \A r \in Pid : Enters(r, s)' => i < reg'[r].n
        BY <1>1, <1>5, StoresEnters DEF Counts
    <2> QED
        BY <1>1, <2>1, <2>3, <2>4 DEF Holds
<1>6. ASSUME NEW p \in Pid, Fills(p) PROVE Holds(s, i, q)'
    <2>1. /\ seg'[s].pids = seg[s].pids
          /\ seg'[s].pidv[i] = IF s = at[p] /\ i = reg[p].n THEN reg[p].who ELSE seg[s].pidv[i]
        BY <1>6 DEF Fills
    <2>2. s = at[p] => i < reg[p].n
        BY <1>1, <1>6 DEF Fills, Stores
    <2>3. seg'[s].pidv[i] = q
        BY <1>1, <1>typ, <2>1, <2>2
    <2>4. \A r \in Pid : Enters(r, s)' => i < reg'[r].n
        BY <1>1, <1>6, StoresEnters DEF Fills
    <2> QED
        BY <1>1, <2>1, <2>3, <2>4 DEF Holds
<1> QED
    BY <1>2, <1>3, <1>4, <1>5, <1>6, Cases

LEMMA NextAlone == Base /\ Alone /\ [Next]_vars => Alone'
<1> SUFFICES ASSUME Base, Alone, [Next]_vars, NEW r \in Pid, NEW s \in Seg,
                    Enters(r, s)', reg'[r].who \notin raced'
             PROVE  /\ \A q \in Pid : Enters(q, s)' => q = r
                    /\ "count" \notin reg'[r].todo => reg'[r].n < seg'[s].pids
                    /\ "slot" \notin reg'[r].todo => seg'[s].pidv[reg'[r].n] = reg'[r].who
    BY DEF Alone
<1>typ. /\ \A t \in Seg : seg[t].pids \in Nat
        /\ \A q \in Pid : reg[q].n \in Nat
    BY Numbers
<1>1. Enters(r, s) /\ reg[r].who \notin raced =>
        /\ \A q \in Pid : Enters(q, s) => q = r
        /\ "count" \notin reg[r].todo => reg[r].n < seg[s].pids
        /\ "slot" \notin reg[r].todo => seg[s].pidv[reg[r].n] = reg[r].who
    BY DEF Alone
<1>2. CASE Quiet
    <2>1. seg' = seg /\ raced' = raced
        BY <1>2 DEF Quiet
    <2>2. \A q \in Pid : Enters(q, s)' => Enters(q, s) /\ reg'[q] = reg[q]
        BY <1>2, QuietEnters
    <2> QED
        BY <1>1, <2>1, <2>2
<1>3. ASSUME NEW p \in Pid, NEW t \in Seg, Loads(p, t)
      PROVE  /\ \A q \in Pid : Enters(q, s)' => q = r
             /\ "count" \notin reg'[r].todo => reg'[r].n < seg'[s].pids
             /\ "slot" \notin reg'[r].todo => seg'[s].pidv[reg'[r].n] = reg'[r].who
    <2>1. /\ seg' = seg /\ reg'[p].todo = {"count", "slot"} /\ reg'[p].who = reg[p].who
          /\ raced' = IF Entering(t) = {} THEN raced ELSE raced \cup Entering(t) \cup {reg[p].who}
        BY <1>3 DEF Loads
    <2>2. \A q \in Pid : Enters(q, s)' =>
             \/ q = p /\ s = t
             \/ q # p /\ Enters(q, s) /\ reg'[q] = reg[q]
        BY <1>3, LoadsEnters
    <2>3. \A q \in Pid : Enters(q, s) => reg[q].who \in Entering(s)
        BY EntersIsEntering
    <2>4. CASE r = p
        BY <2>1, <2>2, <2>3, <2>4
    <2>5. CASE r # p
        BY <1>1, <2>1, <2>2, <2>3, <2>5
    <2> QED
        BY <2>4, <2>5
<1>4. ASSUME NEW t \in Seg, Clears(t)
      PROVE  /\ \A q \in Pid : Enters(q, s)' => q = r
             /\ "count" \notin reg'[r].todo => reg'[r].n < seg'[s].pids
             /\ "slot" \notin reg'[r].todo => seg'[s].pidv[reg'[r].n] = reg'[r].who
    <2>1. \A q \in Pid : Enters(q, s)' => Enters(q, s) /\ reg'[q] = reg[q]
        BY <1>4, ClearsEnters
    <2>2. reg[r].who \in Entering(s)
        BY <2>1, EntersIsEntering
    <2>3. s # t /\ seg'[s] = seg[s] /\ reg[r].who \notin raced
        BY <1>4, <2>1, <2>2 DEF Clears
    <2> QED
        BY <1>1, <2>1, <2>3
<1>5. ASSUME NEW p \in Pid, Counts(p)
      PROVE  /\ \A q \in Pid : Enters(q, s)' => q = r
             /\ "count" \notin reg'[r].todo => reg'[r].n < seg'[s].pids
             /\ "slot" \notin reg'[r].todo => seg'[s].pidv[reg'[r].n] = reg'[r].who
    <2>1. \A q \in Pid : Enters(q, s)' =>
             Enters(q, s) /\ reg'[q].who = reg[q].who /\ reg'[q].n = reg[q].n
        BY <1>5, StoresEnters DEF Counts
    <2>2. reg[r].who \notin raced
        BY <1>5, <2>1 DEF Counts, Stores
    <2>3. /\ Enters(p, at[p])
          /\ seg'[s].pids = (IF s = at[p] THEN reg[p].n + 1 ELSE seg[s].pids) /\ seg'[s].pidv = seg[s].pidv
          /\ reg'[p].todo = reg[p].todo \ {"count"} /\ \A q \in Pid : q # p => reg'[q] = reg[q]
        BY <1>5 DEF Counts, Stores
    <2>4. CASE s = at[p]
        BY <1>1, <1>typ, <2>1, <2>2, <2>3, <2>4
    <2>5. CASE s # at[p]
        <3>1. r # p
            BY <2>1, <2>5 DEF Enters
        <3> QED
            BY <1>1, <2>1, <2>2, <2>3, <2>5, <3>1
    <2> QED
        BY <2>4, <2>5
<1>6. ASSUME NEW p \in Pid, Fills(p)
      PROVE  /\ \A q \in Pid : Enters(q, s)' => q = r
             /\ "count" \notin reg'[r].todo => reg'[r].n < seg'[s].pids
             /\ "slot" \notin reg'[r].todo => seg'[s].pidv[reg'[r].n] = reg'[r].who
    <2>1. \A q \in Pid : Enters(q, s)' =>
             Enters(q, s) /\ reg'[q].who = reg[q].who /\ reg'[q].n = reg[q].n
        BY <1>6, StoresEnters DEF Fills
    <2>2. reg[r].who \notin raced
        BY <1>6, <2>1 DEF Fills, Stores
    <2>3. /\ Enters(p, at[p]) /\ reg[p].n \in Slot
          /\ seg'[s].pids = seg[s].pids
          /\ \A i \in Slot : seg'[s].pidv[i] =
                IF s = at[p] /\ i = reg[p].n THEN reg[p].who ELSE seg[s].pidv[i]
          /\ reg'[p].todo = reg[p].todo \ {"slot"} /\ \A q \in Pid : q # p => reg'[q] = reg[q]
        BY <1>6 DEF Fills, Stores
    <2>4. CASE s = at[p]
        BY <1>1, <1>typ, <2>1, <2>2, <2>3, <2>4
    <2>5. CASE s # at[p]
        <3>1. r # p /\ reg[r].n \in Slot
            BY <2>1, <2>5, IndexInTable DEF Enters
        <3> QED
            BY <1>1, <2>1, <2>2, <2>3, <2>5, <3>1
    <2> QED
        BY <2>4, <2>5
<1> QED
    BY <1>2, <1>3, <1>4, <1>5, <1>6, Cases

LEMMA NextKept == Base /\ Alone /\ Kept /\ [Next]_vars => Kept'
<1> SUFFICES ASSUME Base, Alone, Kept, [Next]_vars, NEW q \in Pid, entry'[q] # 0, q \notin raced'
             PROVE  \E i \in Slot : Holds(entry[q], i, q)'
    BY DEF Kept
<1>typ. /\ \A t \in Seg : seg[t].pids \in Nat
        /\ \A r \in Pid : reg[r].n \in Nat
        /\ entry \in [Pid -> Seg \cup {0}]
    BY Numbers DEF Base, TypeOK
<1>1. raced \subseteq raced'
    BY Cases DEF Quiet, Loads, Clears, Counts, Fills, Stores
<1>2. CASE entry'[q] = entry[q]
    <2>1. entry[q] \in Seg /\ entry[q] # 0 /\ q \notin raced
        BY <1>1, <1>2, <1>typ
    <2>2. PICK i \in Slot : Holds(entry[q], i, q)
        BY <2>1 DEF Kept
    <2>3. PICK s \in Seg : s = entry[q]
        BY <2>1
    <2>4. Holds(s, i, q)'
        BY <2>2, <2>3, HoldsStays
    <2>5. Holds(entry[q], i, q)'
        BY <1>2, <2>3, <2>4 DEF Holds
    <2> QED
        BY <2>5
<1>3. CASE entry'[q] # entry[q]
    <2>1. PICK p \in Pid : Counts(p) \/ Fills(p)
        BY <1>3, Cases DEF Quiet, Loads, Clears
    <2>2. PICK what \in {"count", "slot"} :
             /\ Stores(p, what)
             /\ what = "count" => Counts(p)
             /\ what = "slot" => Fills(p)
        BY <2>1 DEF Counts, Fills
    <2>3. /\ q = reg[p].who /\ reg[p].todo = {what} /\ entry'[q] = at[p] /\ raced' = raced
          /\ at[p] \in Seg /\ Enters(p, at[p]) /\ reg[p].n \in Slot /\ reg'[p].todo = {}
        BY <1>3, <2>2 DEF Stores
    <2>4. /\ \A r \in Pid : Enters(r, at[p]) => r = p
          /\ "count" \notin reg[p].todo => reg[p].n < seg[at[p]].pids
          /\ "slot" \notin reg[p].todo => seg[at[p]].pidv[reg[p].n] = q
        BY <2>3 DEF Alone
    <2>5. seg'[at[p]].pidv[reg[p].n] = q /\ reg[p].n < seg'[at[p]].pids
        <3>1. CASE what = "count"
            BY <1>typ, <2>2, <2>3, <2>4, <3>1 DEF Counts
        <3>2. CASE what = "slot"
            BY <1>typ, <2>2, <2>3, <2>4, <3>2 DEF Fills
        <3> QED
            BY <3>1, <3>2
    <2>6. PICK s \in Seg, i \in Slot : s = at[p] /\ i = reg[p].n
        BY <2>3
    <2>7. \A r \in Pid : ~Enters(r, s)'
        <3>1. \A r \in Pid : Enters(r, s)' => r = p
            BY <2>2, <2>4, <2>6, StoresEnters
        <3> QED
            BY <2>3, <3>1 DEF Enters, Storing
    <2>8. Holds(s, i, q)'
        BY <2>5, <2>6, <2>7 DEF Holds
    <2>9. Holds(entry[q], i, q)'
        BY <2>3, <2>6, <2>8 DEF Holds
    <2> QED
        BY <2>9
<1> QED
    BY <1>2, <1>3

-----------------------------------------------------------------------------
(* Every slot below an index that was read is accounted for. *)

LEMMA CoveredStays ==
    ASSUME Base, [Next]_vars, NEW s \in Seg, NEW i \in Slot, Covered(s, i), ~Clears(s)
    PROVE  Covered(s, i)'
<1>typ. \A r \in Pid : reg[r].todo \subseteq {"load", "count", "slot"}
    <2>1. reg \in [Pid -> [who : Pid \cup {0}, n : 0 .. MaxPid, todo : Todo]]
        BY DEF Base, TypeOK
    <2>2. ASSUME NEW r \in Pid PROVE reg[r].todo \in Todo
        BY <2>1
    <2> QED
        BY <2>2 DEF Todo
<1>1. ASSUME NEW r \in Pid, "slot" \in reg[r].todo PROVE Storing(r)
    <2>1. reg[r].todo # {} /\ reg[r].todo # {"load"}
        BY <1>1
    <2> QED
        BY <2>1 DEF Base, Calls, CallOf
<1>2. CASE seg[s].pidv[i] # 0
    <2>1. seg'[s].pidv[i] # 0
        BY <1>2, Cases DEF Quiet, Loads, Clears, Counts, Fills, Stores
    <2> QED
        BY <2>1 DEF Covered
<1>3. ASSUME NEW r \in Pid, at[r] = s, reg[r].n = i, "slot" \in reg[r].todo
      PROVE  Covered(s, i)'
    <2>1. Storing(r)
        BY <1>1, <1>3
    <2>2. CASE Quiet
        BY <1>3, <2>1, <2>2 DEF Quiet, Undisturbed, Covered
    <2>3. ASSUME NEW p \in Pid, NEW t \in Seg, Loads(p, t) PROVE Covered(s, i)'
        <3>1. r # p
            BY <1>3, <2>3 DEF Loads
        <3> QED
            BY <1>3, <2>3, <3>1 DEF Loads, Covered
    <2>4. ASSUME NEW t \in Seg, Clears(t) PROVE Covered(s, i)'
        BY <1>3, <2>4 DEF Clears, Covered
    <2>5. ASSUME NEW p \in Pid, Counts(p) PROVE Covered(s, i)'
        BY <1>3, <2>5 DEF Counts, Stores, Covered
    <2>6. ASSUME NEW p \in Pid, Fills(p) PROVE Covered(s, i)'
        <3>1. CASE r = p
            BY <1>3, <2>6, <3>1 DEF Fills, Stores, Covered
        <3>2. CASE r # p
            BY <1>3, <2>6, <3>2 DEF Fills, Stores, Covered
        <3> QED
            BY <3>1, <3>2
    <2> QED
        BY <2>2, <2>3, <2>4, <2>5, <2>6, Cases
<1> QED
    BY <1>2, <1>3 DEF Covered

LEMMA NextNoGap == Base /\ NoGap /\ [Next]_vars => NoGap'
<1> SUFFICES ASSUME Base, NoGap, [Next]_vars, NEW s \in Seg, s \notin wiped'
             PROVE  /\ \A i \in Slot : i < seg'[s].pids => Covered(s, i)'
                    /\ \A r \in Pid : Enters(r, s)' => \A i \in Slot : i <= reg'[r].n => Covered(s, i)'
    BY DEF NoGap
<1>typ. /\ \A t \in Seg : seg[t].pids \in Nat
        /\ \A r \in Pid : reg[r].n \in Nat
        /\ Slot \subseteq Nat
    BY Numbers, PidAssumption DEF Slot
<1>1. s \notin wiped
    BY Cases DEF Quiet, Loads, Clears, Counts, Fills, Stores
<1>2. /\ \A i \in Slot : i < seg[s].pids => Covered(s, i)
      /\ \A r \in Pid : Enters(r, s) => \A i \in Slot : i <= reg[r].n => Covered(s, i)
    BY <1>1 DEF NoGap
<1>3. CASE Clears(s)
    <2>1. Entering(s) = {}
        BY <1>3 DEF Clears
    <2>2. \A r \in Pid : ~Enters(r, s)'
        BY <1>3, <2>1, ClearsEnters, EntersIsEntering
    <2>3. seg'[s].pids = 0
        BY <1>3 DEF Clears, Zeroed
    <2>4. \A i \in Slot : ~ i < 0
        BY <1>typ
    <2> QED
        BY <2>2, <2>3, <2>4
<1>4. CASE ~Clears(s)
    <2>1. \A i \in Slot : Covered(s, i) => Covered(s, i)'
        BY <1>4, CoveredStays
    <2>2. ASSUME seg'[s].pids = seg[s].pids,
                 \A r \in Pid : Enters(r, s)' => Enters(r, s) /\ reg'[r].n = reg[r].n
          PROVE  /\ \A i \in Slot : i < seg'[s].pids => Covered(s, i)'
                 /\ \A r \in Pid : Enters(r, s)' => \A i \in Slot : i <= reg'[r].n => Covered(s, i)'
        BY <1>2, <2>1, <2>2
    <2>3. CASE Quiet
        <3>1. seg' = seg /\ \A r \in Pid : Enters(r, s)' => Enters(r, s) /\ reg'[r].n = reg[r].n
            BY <2>3, QuietEnters DEF Quiet
        <3> QED
            BY <2>2, <3>1
    <2>4. ASSUME NEW p \in Pid, NEW t \in Seg, Loads(p, t)
          PROVE  /\ \A i \in Slot : i < seg'[s].pids => Covered(s, i)'
                 /\ \A r \in Pid : Enters(r, s)' => \A i \in Slot : i <= reg'[r].n => Covered(s, i)'
        <3>1. /\ seg' = seg /\ at'[p] = t /\ reg'[p].n = seg[t].pids /\ reg'[p].todo = {"count", "slot"}
            BY <2>4 DEF Loads
        <3>2. \A r \in Pid : Enters(r, s)' =>
                 \/ r = p /\ s = t
                 \/ r # p /\ Enters(r, s) /\ reg'[r] = reg[r]
            BY <2>4, LoadsEnters
        <3>3. s = t => \A i \in Slot : i = reg'[p].n => Covered(s, i)'
            BY <3>1 DEF Covered
        <3>4. s = t => \A i \in Slot : i <= reg'[p].n => Covered(s, i)'
            BY <1>2, <1>typ, <2>1, <3>1, <3>3
        <3> QED
            BY <1>2, <2>1, <3>1, <3>2, <3>4
    <2>5. ASSUME NEW t \in Seg, Clears(t)
          PROVE  /\ \A i \in Slot : i < seg'[s].pids => Covered(s, i)'
                 /\ \A r \in Pid : Enters(r, s)' => \A i \in Slot : i <= reg'[r].n => Covered(s, i)'
        <3>1. t # s
            BY <1>4, <2>5
        <3>2. seg'[s] = seg[s]
            BY <2>5, <3>1 DEF Clears
        <3>3. \A r \in Pid : Enters(r, s)' => Enters(r, s) /\ reg'[r].n = reg[r].n
            BY <2>5, ClearsEnters
        <3> QED
            BY <2>2, <3>2, <3>3
    <2>6. ASSUME NEW p \in Pid, Counts(p)
          PROVE  /\ \A i \in Slot : i < seg'[s].pids => Covered(s, i)'
                 /\ \A r \in Pid : Enters(r, s)' => \A i \in Slot : i <= reg'[r].n => Covered(s, i)'
        <3>1. \A r \in Pid : Enters(r, s)' => Enters(r, s) /\ reg'[r].n = reg[r].n
            BY <2>6, StoresEnters DEF Counts
        <3>2. /\ Enters(p, at[p])
              /\ seg'[s].pids = IF s = at[p] THEN reg[p].n + 1 ELSE seg[s].pids
            BY <2>6 DEF Counts, Stores
        <3>3. \A i \in Slot : i < reg[p].n + 1 => i <= reg[p].n
            BY <1>typ
        <3>4. \A i \in Slot : i < seg'[s].pids => Covered(s, i)
            BY <1>2, <3>2, <3>3
        <3> QED
            BY <1>2, <2>1, <3>1, <3>4
    <2>7. ASSUME NEW p \in Pid, Fills(p)
          PROVE  /\ \A i \in Slot : i < seg'[s].pids => Covered(s, i)'
                 /\ \A r \in Pid : Enters(r, s)' => \A i \in Slot : i <= reg'[r].n => Covered(s, i)'
        <3>1. seg'[s].pids = seg[s].pids
            BY <2>7 DEF Fills
        <3>2. \A r \in Pid : Enters(r, s)' => Enters(r, s) /\ reg'[r].n = reg[r].n
            BY <2>7, StoresEnters DEF Fills
        <3> QED
            BY <2>2, <3>1, <3>2
    <2> QED
        BY <2>3, <2>4, <2>5, <2>6, <2>7, Cases
<1> QED
    BY <1>3, <1>4

-----------------------------------------------------------------------------
(* The sweep. *)

\* Who has ended does not come back.
LEMMA DeadStays ==
    ASSUME Shape, [Next]_vars, NEW q \in Pid, pc[q] \in DeadPc
    PROVE  pc'[q] \in {pc[q], "gone"}
<1>typ. pc \in [Pid -> InitdPc \cup LoaderPc \cup ChildPc \cup DeadPc \cup {"free"}]
    BY DEF Shape, TypeOK
<1>1. ASSUME NEW p \in Pid, NEW l, pc' = [pc EXCEPT ![p] = l], pc[p] \notin DeadPc
      PROVE  pc'[q] \in {pc[q], "gone"}
    BY <1>1, <1>typ
<1>2. ASSUME NEW p \in Pid, Die(p) PROVE pc'[q] \in {pc[q], "gone"}
    BY <1>2, <1>typ DEF Die
<1>3. CASE pc' = pc
    BY <1>3
<1>4. ASSUME NEW p \in Pid, init_attach(p) PROVE pc'[q] \in {pc[q], "gone"}
    <2>1. CASE key = 0
        BY <1>2, <1>4, <2>1 DEF init_attach
    <2>2. CASE key # 0
        BY <1>1, <1>4, <2>2 DEF init_attach, Goto
    <2> QED
        BY <2>1, <2>2
<1>5. ASSUME NEW p \in Pid, sweep_kill(p) PROVE pc'[q] \in {pc[q], "gone"}
    <2> DEFINE v == seg[at[p]].pidv[pos[p]]
    <2>1. /\ pc[p] = "kill"
          /\ \/ pc' = [pc EXCEPT ![p] = "cut"]
             \/ pc' = [pc EXCEPT ![v] = IF Alive(v) THEN "gone" ELSE @, ![p] = "count"]
        BY <1>5 DEF sweep_kill, Goto
    <2> HIDE DEF v
    <2> QED
        BY <2>1, <1>typ
<1>6. ASSUME NEW p \in Pid, reg_load(p) PROVE pc'[q] \in {pc[q], "gone"}
    <2> DEFINE s == IF at[p] = 0 THEN key ELSE at[p]
    <2>1. CASE s = 0
        BY <1>2, <1>6, <2>1 DEF reg_load
    <2>2. CASE s # 0
        BY <1>6, <2>2 DEF reg_load
    <2> QED
        BY <2>1, <2>2
<1>7. ASSUME NEW p \in Pid, reg_count(p) \/ reg_slot(p) PROVE pc'[q] \in {pc[q], "gone"}
    <2>1. pc[p] = "reg" /\ (pc' = [pc EXCEPT ![p] = "loop"] \/ pc' = pc)
        BY <1>7 DEF reg_count, reg_slot, Stored, Goto
    <2> QED
        BY <1>1, <2>1
<1>8. ASSUME NEW p \in Pid, NEW r \in Pid, launch(p, r) PROVE pc'[q] \in {pc[q], "gone"}
    BY <1>8, <1>typ DEF launch, ToDo, Fresh
<1>9. ASSUME NEW p \in Pid,
             \/ start_initd(p) \/ init_remove(p) \/ init_create(p) \/ init_clear(p) \/ init_trap(p)
             \/ sigroutine(p) \/ sweep_count(p) \/ (\E l \in Loader : start_loader(p, l))
             \/ loop_end(p) \/ child_listen(p) \/ start_returns(p)
      PROVE  pc'[q] \in {pc[q], "gone"}
    <2>1. pc[p] \notin DeadPc /\ \E l : pc' = [pc EXCEPT ![p] = l]
        BY <1>9 DEF start_initd, init_remove, init_create, init_clear, init_trap, sigroutine,
           sweep_count, start_loader, loop_end, child_listen, start_returns, Fresh, Goto
    <2> QED
        BY <1>1, <2>1
<1>10. ASSUME NEW p \in Pid, request_name(p) PROVE pc'[q] \in {pc[q], "gone"}
    BY <1>2, <1>10 DEF request_name
<1> QED
    BY <1>2, <1>3, <1>4, <1>5, <1>6, <1>7, <1>8, <1>9, <1>10
    DEF Next, vars, default_term, load_missing, launch_fails, launch_framework, Crash

\* Nor does it become alive that was in the table.
LEMMA WhoLives ==
    ASSUME Shape, [Next]_vars, NEW q \in Pid, entry[q] # 0, Alive(q)' PROVE Alive(q)
<1>1. pc[q] # "free"
    BY DEF Shape, Calls, CallOf
<1>2. pc[q] \notin DeadPc
    BY DeadStays DEF Alive
<1> QED
    BY <1>1, <1>2 DEF Alive

LEMMA EntryStays ==
    ASSUME Base, [Next]_vars, NEW q \in Pid, entry[q] # 0 PROVE entry'[q] = entry[q]
<1>1. ASSUME NEW p \in Pid, NEW what, Stores(p, what) PROVE entry'[q] = entry[q]
    BY <1>1 DEF Stores
<1> QED
    BY <1>1, Cases DEF Quiet, Loads, Clears, Counts, Fills

\* Only the handler of the signal says what a sweep owes.
LEMMA DueStays ==
    ASSUME Shape, [Next]_vars, NEW p \in Pid PROVE due'[p] = due[p] \/ sigroutine(p)
<1>1. CASE due' = due
    BY <1>1
<1>2. ASSUME NEW r \in Pid, sigroutine(r) PROVE due'[p] = due[p] \/ sigroutine(p)
    <2>1. r # p => due'[p] = due[p]
        BY <1>2 DEF sigroutine, Shape, TypeOK
    <2> QED
        BY <1>2, <2>1
<1> QED
    BY <1>1, <1>2
    DEF Next, vars, start_initd, init_remove, init_create, init_clear, init_attach, init_trap,
        default_term, sweep_count, sweep_kill, start_loader, reg_load, reg_count, reg_slot, Stored,
        load_missing, launch, launch_fails, launch_framework, loop_end, child_listen,
        start_returns, request_name, Crash, Die, hist

\* A process that sweeps, or has swept, does nothing else; it may be ended.
LEMMA OnlySweeps ==
    ASSUME Shape, [Next]_vars, NEW p \in Pid, pc[p] \in {"count", "kill"} \cup DeadPc
    PROVE  /\ at'[p] = at[p]
           /\ \/ pos'[p] = pos[p] /\ pc'[p] \in {pc[p], "gone"}
              \/ sweep_count(p)
              \/ sweep_kill(p)
<1>typ. /\ pc \in [Pid -> InitdPc \cup LoaderPc \cup ChildPc \cup DeadPc \cup {"free"}]
        /\ pos \in [Pid -> Nat] /\ at \in [Pid -> Seg \cup {0}]
    BY DEF Shape, TypeOK
<1> DEFINE Goal == /\ at'[p] = at[p]
                   /\ \/ pos'[p] = pos[p] /\ pc'[p] \in {pc[p], "gone"}
                      \/ sweep_count(p)
                      \/ sweep_kill(p)
<1>1. ASSUME NEW r \in Pid, r # p, \A q \in Pid : q # r => pc'[q] = pc[q] /\ pos'[q] = pos[q] /\ at'[q] = at[q]
      PROVE  Goal
    BY <1>1
<1>2. ASSUME NEW r \in Pid, Die(r) PROVE Goal
    BY <1>2, <1>typ DEF Die
<1>3. CASE UNCHANGED <<pc, pos, at>>
    BY <1>3
<1>4. ASSUME NEW r \in Pid,
             \/ start_initd(r) \/ init_remove(r) \/ init_create(r) \/ init_clear(r) \/ init_trap(r)
             \/ sigroutine(r) \/ (\E l \in Loader : start_loader(r, l))
             \/ launch_fails(r) \/ launch_framework(r)
             \/ loop_end(r) \/ child_listen(r) \/ start_returns(r)
      PROVE  Goal
    <2>1. /\ pc[r] \notin {"count", "kill"} \cup DeadPc /\ at' = at
          /\ \/ pc' = pc
             \/ \E l : pc' = [pc EXCEPT ![r] = l]
          /\ \/ pos' = pos
             \/ \E x : pos' = [pos EXCEPT ![r] = x]
        BY <1>4 DEF start_initd, init_remove, init_create, init_clear, init_trap, sigroutine,
           start_loader, launch_fails, launch_framework, loop_end, child_listen, start_returns,
           ToDo, Fresh, Goto
    <2>2. r # p /\ \A q \in Pid : q # r => pc'[q] = pc[q] /\ pos'[q] = pos[q] /\ at'[q] = at[q]
        BY <2>1, <1>typ
    <2> QED
        BY <1>1, <2>2
<1>5. ASSUME NEW r \in Pid, sweep_count(r) PROVE Goal
    <2>1. CASE r = p
        BY <1>5, <2>1 DEF sweep_count
    <2>2. CASE r # p
        BY <1>5, <2>2, <1>typ DEF sweep_count, Goto
    <2> QED
        BY <2>1, <2>2
<1>6. ASSUME NEW r \in Pid, sweep_kill(r) PROVE Goal
    <2> DEFINE v == seg[at[r]].pidv[pos[r]]
    <2>1. /\ at' = at
          /\ \/ pc' = [pc EXCEPT ![r] = "cut"] /\ pos' = pos
             \/ /\ pc' = [pc EXCEPT ![v] = IF Alive(v) THEN "gone" ELSE @, ![r] = "count"]
                /\ pos' = [pos EXCEPT ![r] = @ + 1]
        BY <1>6 DEF sweep_kill, Goto
    <2> HIDE DEF v
    <2>2. CASE r = p
        BY <1>6, <2>1, <2>2
    <2>3. CASE r # p
        BY <2>1, <2>3, <1>typ
    <2> QED
        BY <2>2, <2>3
<1>7. ASSUME NEW r \in Pid, init_attach(r) PROVE Goal
    <2>1. CASE key = 0
        BY <1>2, <1>7, <2>1 DEF init_attach
    <2>2. CASE key # 0
        <3>1. /\ pc[r] = "attach" /\ pc' = [pc EXCEPT ![r] = "trap"] /\ at' = [at EXCEPT ![r] = key]
              /\ pos' = pos
            BY <1>7, <2>2 DEF init_attach, Goto
        <3> QED
            BY <1>1, <3>1, <1>typ
    <2> QED
        BY <2>1, <2>2
<1>8. ASSUME NEW r \in Pid, reg_load(r) PROVE Goal
    <2> DEFINE s == IF at[r] = 0 THEN key ELSE at[r]
    <2>1. CASE s = 0
        BY <1>2, <1>8, <2>1 DEF reg_load
    <2>2. CASE s # 0
        <3>1. pc[r] = "reg" /\ at' = [at EXCEPT ![r] = s] /\ UNCHANGED <<pc, pos>>
            BY <1>8, <2>2 DEF reg_load
        <3> HIDE DEF s
        <3> QED
            BY <1>1, <3>1, <1>typ
    <2> QED
        BY <2>1, <2>2
<1>9. ASSUME NEW r \in Pid, reg_count(r) \/ reg_slot(r) PROVE Goal
    <2>1. pc[r] = "reg" /\ (pc' = [pc EXCEPT ![r] = "loop"] \/ pc' = pc) /\ UNCHANGED <<pos, at>>
        BY <1>9 DEF reg_count, reg_slot, Stored, Goto
    <2> QED
        BY <1>1, <2>1, <1>typ
<1>10. ASSUME NEW r \in Pid, NEW q \in Pid, launch(r, q) PROVE Goal
    <2>1. /\ pc[r] = "loop" /\ pc[q] = "free" /\ pc' = [pc EXCEPT ![r] = "reg", ![q] = "rpc"]
          /\ at' = [at EXCEPT ![q] = at[r]] /\ pos' = [pos EXCEPT ![r] = @ + 1, ![q] = pos[r] + 1]
        BY <1>10 DEF launch, ToDo, Fresh
    <2> QED
        BY <2>1, <1>typ
<1>11. ASSUME NEW r \in Pid, request_name(r) PROVE Goal
    BY <1>2, <1>3, <1>11 DEF request_name
<1>12. ASSUME NEW r \in Pid, default_term(r) \/ load_missing(r) \/ Crash(r) PROVE Goal
    BY <1>2, <1>12 DEF default_term, load_missing, Crash
<1>13. ASSUME UNCHANGED vars PROVE Goal
    BY <1>3, <1>13 DEF vars
<1> HIDE DEF Goal
<1>14. Goal
    BY <1>4, <1>5, <1>6, <1>7, <1>8, <1>9, <1>10, <1>11, <1>12, <1>13 DEF Next
<1> QED
    BY <1>14 DEF Goal

LEMMA NextAhead == Base /\ Kept /\ Ahead /\ [Next]_vars => Ahead'
<1> SUFFICES ASSUME Base, Kept, Ahead, [Next]_vars, NEW p \in Pid
             PROVE  /\ \A q \in due'[p] : entry'[q] # 0 /\ entry'[q] = at'[p]
                    /\ due'[p] # {} => pc'[p] \in {"count", "kill"} \cup DeadPc
                    /\ pc'[p] \in {"count", "kill"} =>
                          \A q \in due'[p] \ raced' : Alive(q)' =>
                              \E i \in Slot : pos'[p] <= i /\ Holds(at[p], i, q)'
    BY DEF Ahead
<1>0. Shape
    BY DEF Base, Shape
<1>typ. /\ pc \in [Pid -> InitdPc \cup LoaderPc \cup ChildPc \cup DeadPc \cup {"free"}]
        /\ pos \in [Pid -> Nat] /\ at \in [Pid -> Seg \cup {0}] /\ Slot \subseteq Nat
        /\ due[p] \subseteq Pid /\ entry \in [Pid -> Seg \cup {0}]
        /\ due \in [Pid -> SUBSET Pid]
    <2>1. Slot \subseteq Nat
        BY DEF Slot
    <2> QED
        BY <2>1 DEF Base, TypeOK
<1>1. raced \subseteq raced'
    BY Cases DEF Quiet, Loads, Clears, Counts, Fills, Stores
<1>2. ASSUME NEW q \in Pid, NEW i \in Slot, at[p] # 0, Holds(at[p], i, q), entry[q] = at[p],
             q \notin raced', at'[p] = at[p]
      PROVE  Holds(at[p], i, q)'
    <2>1. PICK s \in Seg : s = at[p]
        BY <1>2, <1>typ
    <2>2. Holds(s, i, q)'
        BY <1>2, <2>1, HoldsStays
    <2> QED
        BY <1>2, <2>1, <2>2 DEF Holds
<1>3. CASE sigroutine(p)
    <2>1. /\ pc[p] = "sleep" /\ at' = at /\ entry' = entry /\ pc'[p] = "count" /\ pos'[p] = 0
          /\ due'[p] = {q \in Pid : entry[q] = at[p]}
        BY <1>3, <1>typ DEF sigroutine, Goto
    <2>2. at[p] # 0
        BY <2>1 DEF Base, Places, PlaceOf
    <2>3. ASSUME NEW q \in Pid, entry[q] = at[p], q \notin raced'
          PROVE  \E i \in Slot : pos'[p] <= i /\ Holds(at[p], i, q)'
        <3>1. PICK i \in Slot : Holds(at[p], i, q)
            BY <1>1, <2>2, <2>3 DEF Kept
        <3>2. Holds(at[p], i, q)'
            BY <1>2, <2>1, <2>2, <2>3, <3>1
        <3>3. pos'[p] <= i
            BY <2>1 DEF Slot
        <3> QED
            BY <3>2, <3>3
    <2> QED
        BY <2>1, <2>2, <2>3
<1>4. CASE due'[p] = {}
    BY <1>4
<1>5. CASE due'[p] = due[p] /\ due[p] # {}
    <2>1. /\ pc[p] \in {"count", "kill"} \cup DeadPc
          /\ \A q \in due[p] : entry[q] # 0 /\ entry[q] = at[p]
          /\ pc[p] \in {"count", "kill"} =>
                \A q \in due[p] \ raced : Alive(q) => \E i \in Slot : pos[p] <= i /\ Holds(at[p], i, q)
        BY <1>5 DEF Ahead
    <2>2. /\ at'[p] = at[p]
          /\ \/ pos'[p] = pos[p] /\ pc'[p] \in {pc[p], "gone"}
             \/ sweep_count(p)
             \/ sweep_kill(p)
        BY <1>0, <2>1, OnlySweeps
    <2>3. \A q \in due'[p] : entry'[q] # 0 /\ entry'[q] = at'[p]
        BY <1>5, <1>typ, <2>1, <2>2, EntryStays
    <2>4. pc'[p] \in {"count", "kill"} \cup DeadPc
        <3>1. CASE sweep_count(p)
            BY <3>1, <1>typ DEF sweep_count, Goto
        <3>2. CASE sweep_kill(p)
            <4> DEFINE v == seg[at[p]].pidv[pos[p]]
            <4>1. \/ pc' = [pc EXCEPT ![p] = "cut"]
                  \/ pc' = [pc EXCEPT ![v] = IF Alive(v) THEN "gone" ELSE @, ![p] = "count"]
                BY <3>2 DEF sweep_kill, Goto
            <4> HIDE DEF v
            <4> QED
                BY <4>1, <1>typ
        <3> QED
            BY <2>1, <2>2, <3>1, <3>2
    <2>5. ASSUME pc'[p] \in {"count", "kill"}, NEW q \in due[p], q \notin raced', Alive(q)'
          PROVE  \E i \in Slot : pos'[p] <= i /\ Holds(at[p], i, q)'
        <3>1. q \in Pid /\ Alive(q) /\ q \notin raced /\ at[p] # 0 /\ entry[q] = at[p]
            BY <1>0, <1>1, <1>typ, <2>1, <2>5, WhoLives
        <3>2. pc[p] \in {"count", "kill"}
            BY <1>0, <2>1, <2>5, DeadStays
        <3>3. PICK i \in Slot : pos[p] <= i /\ Holds(at[p], i, q)
            BY <2>1, <3>1, <3>2
        <3>4. Holds(at[p], i, q)'
            BY <1>2, <2>2, <2>5, <3>1, <3>3
        <3>5. CASE pos'[p] = pos[p]
            BY <3>3, <3>4, <3>5
        <3>6. CASE sweep_count(p)
            BY <3>5, <3>6 DEF sweep_count
        <3>7. CASE sweep_kill(p)
            <4> DEFINE v == seg[at[p]].pidv[pos[p]]
            <4>1. \/ pc' = [pc EXCEPT ![p] = "cut"]
                  \/ /\ pc' = [pc EXCEPT ![v] = IF Alive(v) THEN "gone" ELSE @, ![p] = "count"]
                     /\ pos' = [pos EXCEPT ![p] = @ + 1]
                BY <3>7 DEF sweep_kill, Goto
            <4>2. p # q
                <5>1. job[q] \in Loader /\ job[p] = "initd"
                    BY <3>1, <3>2 DEF Base, Places, PlaceOf, Calls, CallOf
                <5> QED
                    BY <5>1, NamesAssumption
            <4>3. v = q => pos[p] # i \/ pc'[q] = "gone"
                BY <1>typ, <2>5, <3>1, <4>1, <4>2
            <4>4. pos[p] = i => v = q
                BY <3>3 DEF Holds
            <4> HIDE DEF v
            <4>5. pos'[p] = pos[p] + 1
                BY <1>typ, <2>5, <4>1
            <4>6. pos[p] # i
                BY <2>5, <4>3, <4>4 DEF Alive
            <4>7. pos'[p] <= i
                BY <1>typ, <3>3, <4>5, <4>6
            <4> QED
                BY <3>4, <4>7
        <3> QED
            BY <2>2, <3>5, <3>6, <3>7
    <2> QED
        BY <1>5, <2>3, <2>4, <2>5
<1> QED
    BY <1>0, <1>3, <1>4, <1>5, DueStays

LEMMA NextThorough == Base /\ Ahead /\ SweepThorough /\ [Next]_vars => SweepThorough'
<1> SUFFICES ASSUME Base, Ahead, SweepThorough, [Next]_vars, NEW p \in Pid, pc'[p] = "swept",
                    NEW q \in due'[p], q \notin raced', Alive(q)'
             PROVE  FALSE
    BY DEF SweepThorough
<1>0. Shape
    BY DEF Base, Shape
<1>typ. /\ pc \in [Pid -> InitdPc \cup LoaderPc \cup ChildPc \cup DeadPc \cup {"free"}]
        /\ pos \in [Pid -> Nat] /\ due \in [Pid -> SUBSET Pid]
    BY DEF Base, TypeOK
<1>1. raced \subseteq raced'
    BY Cases DEF Quiet, Loads, Clears, Counts, Fills, Stores
<1>2. ~sigroutine(p)
    BY <1>typ DEF sigroutine, Goto
<1>3. q \in due[p] /\ q \in Pid
    BY <1>0, <1>2, <1>typ, DueStays
<1>4. pc[p] \in {"count", "kill"} \cup DeadPc /\ entry[q] # 0 /\ entry[q] = at[p]
    BY <1>3 DEF Ahead
<1>5. Alive(q)
    BY <1>0, <1>3, <1>4, WhoLives
<1>6. \/ pc[p] = "swept"
      \/ sweep_count(p)
      \/ sweep_kill(p)
    BY <1>0, <1>4, OnlySweeps
<1>7. CASE pc[p] = "swept"
    BY <1>1, <1>3, <1>5, <1>7 DEF SweepThorough
<1>8. CASE sweep_count(p)
    <2>1. pc[p] = "count" /\ ~ pos[p] < seg[at[p]].pids
        BY <1>8, <1>typ DEF sweep_count, Goto
    <2>2. PICK i \in Slot : pos[p] <= i /\ Holds(at[p], i, q)
        BY <1>1, <1>3, <1>5, <2>1 DEF Ahead
    <2>3. i < seg[at[p]].pids
        BY <2>2 DEF Holds
    <2>4. seg[at[p]].pids \in Nat /\ i \in Nat
        <3>1. entry[q] \in Seg
            BY <1>3, <1>4 DEF Base, TypeOK
        <3> QED
            BY <1>4, <3>1, Numbers DEF Slot
    <2> QED
        BY <1>typ, <2>1, <2>2, <2>3, <2>4
<1>9. CASE sweep_kill(p)
    <2> DEFINE v == seg[at[p]].pidv[pos[p]]
    <2>1. \/ pc' = [pc EXCEPT ![p] = "cut"]
          \/ pc' = [pc EXCEPT ![v] = IF Alive(v) THEN "gone" ELSE @, ![p] = "count"]
        BY <1>9 DEF sweep_kill, Goto
    <2> HIDE DEF v
    <2> QED
        BY <2>1, <1>typ
<1> QED
    BY <1>6, <1>7, <1>8, <1>9

-----------------------------------------------------------------------------
(* Theorems. *)

TableInv == Base /\ Alone /\ Kept /\ NoGap /\ Ahead /\ SweepThorough

LEMMA TableInvariant == Spec => []TableInv
<1>1. Init => TableInv
    <2> SUFFICES ASSUME Init PROVE TableInv
        OBVIOUS
    <2>1. Base
        BY InitBase
    <2>2. \A r \in Pid : ~Storing(r)
        BY DEF Init, Idle, Storing
    <2>3. Alone
        BY <2>2 DEF Alone, Enters
    <2>4. Kept
        BY DEF Init, Kept
    <2>5. NoGap
        <3>1. \A s \in Seg : seg[s].pids = 0
            BY DEF Init, Zeroed
        <3>2. \A i \in Slot : ~ i < 0
            BY DEF Slot
        <3> QED
            BY <2>2, <3>1, <3>2 DEF NoGap, Enters
    <2>6. Ahead
        BY DEF Init, Ahead
    <2>7. SweepThorough
        BY DEF Init, SweepThorough
    <2> QED
        BY <2>1, <2>3, <2>4, <2>5, <2>6, <2>7 DEF TableInv
<1>2. TableInv /\ [Next]_vars => TableInv'
    BY NextBase, NextAlone, NextKept, NextNoGap, NextAhead, NextThorough DEF TableInv
<1> QED
    BY <1>1, <1>2, PTL DEF Spec

\* Types: a reg_pid never counts or fills past the end of a table with a slot
\* for every process, and an initd always finds a segment to create.
THEOREM TypeCorrect == Spec => []TypeOK
<1>1. TableInv => TypeOK
    BY DEF TableInv, Base
<1> QED
    BY <1>1, TableInvariant, PTL

\* A pid that was entered is found below the count for good, unless its reg_pid
\* overlapped another one or the memset of a starting initd.
THEOREM LostOnlyInARace == Spec => []LostOnlyInRace
<1>1. TableInv => LostOnlyInRace
    <2> SUFFICES ASSUME TableInv, NEW q \in Pid, entry[q] # 0, q \notin raced
                 PROVE  q \in Listed(entry[q])
        BY DEF LostOnlyInRace
    <2>1. PICK i \in Slot : Holds(entry[q], i, q)
        BY DEF TableInv, Kept
    <2> QED
        BY <2>1 DEF Holds, Listed
<1> QED
    BY <1>1, TableInvariant, PTL

\* An empty slot below the count is reserved by a reg_pid that has yet to fill
\* it, or died before it did, unless a memset hit a registration.
THEOREM HolesUnfilled == Spec => []HolesAreUnfilled
<1>1. TableInv => HolesAreUnfilled
    <2> SUFFICES ASSUME TableInv, NEW s \in Seg, NEW i \in Slot, i < seg[s].pids,
                        seg[s].pidv[i] = 0, s \notin wiped
                 PROVE  \E r \in Pid : at[r] = s /\ reg[r].n = i /\ "slot" \in reg[r].todo
        BY DEF HolesAreUnfilled
    <2>1. Covered(s, i)
        BY DEF TableInv, NoGap
    <2> QED
        BY <2>1 DEF Covered
<1> QED
    BY <1>1, TableInvariant, PTL

\* A sweep that reached the end of the table left nobody alive who was in it
\* when the SIGTERM came, whoever registered, crashed or was swept meanwhile.
THEOREM SweepIsThorough == Spec => []SweepThorough
<1>1. TableInv => SweepThorough
    BY DEF TableInv
<1> QED
    BY <1>1, TableInvariant, PTL
==============================================================================
