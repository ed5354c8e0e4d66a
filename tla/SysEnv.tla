------------------------------- MODULE SysEnv -------------------------------
(***************************************************************************)
(* Start-up and shutdown of the gateway: initd and the loaders (loader/),  *)
(* with the table of pids they share (framework/common/sys.c).             *)
(*                                                                         *)
(* initd owns a shared memory segment with a table of pids.  Every loader  *)
(* and every process a loader forks is entered in it by reg_pid.  SIGTERM  *)
(* makes initd remove the segment's key and kill what the table lists.     *)
(* Nothing orders the programs: an operator or a script starts them.       *)
(***************************************************************************)
EXTENDS Integers, Sequences, FiniteSets

CONSTANTS
    Loader,      \* the loaders
    Forks,       \* those that fork a process per module (service, app)
    Module,      \* the modules
    Conf,        \* the modules each loader launches, in order (loader.conf)
    Missing,     \* modules without a library to load
    Returns,     \* modules whose start() returns
    MaxPid,      \* bound: processes ever started
    MaxInitd,    \* bound: starts of initd
    MaxLoader,   \* bound: starts of each loader
    EarlyLoader, \* whether a loader may be started before initd is ready
    MayTerm,     \* whether initd may be sent SIGTERM
    MayCrash     \* whether a process may die by itself, or a fork fail

ASSUME LoaderAssumption == Forks \subseteq Loader /\ Conf \in [Loader -> Seq(Module)]
ASSUME ModuleAssumption == Missing \subseteq Module /\ Returns \subseteq Module
ASSUME NamesAssumption == Loader \cap Module = {} /\ "initd" \notin Loader /\ "" \notin Loader \cup Module
ASSUME PidAssumption == MaxPid \in Nat \ {0}
ASSUME BoundAssumption == MaxInitd \in Nat \ {0} /\ MaxLoader \in Nat
ASSUME SwitchAssumption ==
    EarlyLoader \in BOOLEAN /\ MayTerm \in BOOLEAN /\ MayCrash \in BOOLEAN

Pid == 1 .. MaxPid         \* pids are not reused; 0 is no process
Seg == 1 .. MaxInitd       \* segments ever created; 0 is no segment
Slot == 0 .. MaxPid - 1    \* pidv: 100 slots, here one per process

VARIABLES
    pc,          \* where the main thread of each process is
    job,         \* the program it runs: "initd" or the loader it comes from
    pos,         \* the next module of a loader's loop; the slot of a sweep
    lst,         \* its listener thread: off, connect, serve
    name,        \* the bus name its listener asks for
    owner,       \* the bus: the owner of each name
    shmid,       \* initd.c: the segment initd created
    at,          \* sys.c: the segment env() attached
    reg,         \* the reg_pid in progress: whom, the index read, what is left
    key,         \* the segment SYS_ENV_SHM names
    seg,         \* the segments: pids and pidv
    entry,       \* history: the segment in which a pid was entered, 0 if none
    raced,       \* history: pids whose reg_pid overlapped another or a memset
    wiped,       \* history: segments a memset hit while a reg_pid was under way
    due          \* history: the pids in initd's segment when the SIGTERM came


vars == <<pc, job, pos, lst, name, owner, shmid, at, reg, key, seg, entry, raced, wiped, due>>

InitdPc == {"remove", "create", "clear", "attach", "trap", "sleep", "count", "kill"}
LoaderPc == {"reg", "loop", "wait"}
ChildPc == {"rpc", "start"}
DeadPc == {"gone", "swept", "cut"}

Alive(p) == pc[p] \notin DeadPc \cup {"free"}
Todo == SUBSET {"load", "count", "slot"}

TypeOK ==
    /\ pc \in [Pid -> InitdPc \cup LoaderPc \cup ChildPc \cup DeadPc \cup {"free"}]
    /\ job \in [Pid -> Loader \cup {"initd", ""}]
    /\ pos \in [Pid -> Nat]
    /\ lst \in [Pid -> {"off", "connect", "serve"}]
    /\ name \in [Pid -> Module \cup Loader \cup {""}]
    /\ owner \in [Module \cup Loader -> Pid \cup {0}]
    /\ shmid \in [Pid -> Seg \cup {0}]
    /\ at \in [Pid -> Seg \cup {0}]
    /\ reg \in [Pid -> [who : Pid \cup {0}, n : 0 .. MaxPid, todo : Todo]]
    /\ key \in Seg \cup {0}
    /\ seg \in [Seg -> [pids : 0 .. MaxPid, pidv : [Slot -> Pid \cup {0}]]]
    /\ entry \in [Pid -> Seg \cup {0}]
    /\ raced \subseteq Pid
    /\ wiped \subseteq Seg
    /\ due \in [Pid -> SUBSET Pid]
    /\ \A p \in Pid : lst[p] # "off" => name[p] # ""

Idle == [who |-> 0, n |-> 0, todo |-> {}]
Zeroed == [pids |-> 0, pidv |-> [i \in Slot |-> 0]]

Init ==
    /\ pc = [p \in Pid |-> "free"]
    /\ job = [p \in Pid |-> ""]
    /\ pos = [p \in Pid |-> 0]
    /\ lst = [p \in Pid |-> "off"]
    /\ name = [p \in Pid |-> ""]
    /\ owner = [n \in Module \cup Loader |-> 0]
    /\ shmid = [p \in Pid |-> 0]
    /\ at = [p \in Pid |-> 0]
    /\ reg = [p \in Pid |-> Idle]
    /\ key = 0
    /\ seg = [s \in Seg |-> Zeroed]
    /\ entry = [p \in Pid |-> 0]
    /\ raced = {}
    /\ wiped = {}
    /\ due = [p \in Pid |-> {}]

-----------------------------------------------------------------------------
(***************************************************************************)
(* Processes.                                                              *)
(***************************************************************************)

\* The pid of the next process.
Fresh(p) == pc[p] = "free" /\ \A q \in Pid : q < p => pc[q] # "free"

Started(j) == Cardinality({p \in Pid : job[p] = j /\ name[p] \notin Module})

hist == <<entry, raced, wiped, due>>

\* The processes of D end; the bus frees their names.
Bury(D) ==
    /\ lst' = [q \in Pid |-> IF q \in D THEN "off" ELSE lst[q]]
    /\ owner' = [n \in DOMAIN owner |-> IF owner[n] \in D THEN 0 ELSE owner[n]]

Die(p) ==
    /\ pc' = [pc EXCEPT ![p] = "gone"]
    /\ Bury({p})
    /\ UNCHANGED <<job, pos, name, shmid, at, reg, key, seg, hist>>

Crash(p) ==
    /\ MayCrash
    /\ Alive(p)
    /\ Die(p)

Goto(p, l) == pc' = [pc EXCEPT ![p] = l]
-----------------------------------------------------------------------------
(***************************************************************************)
(* initd: init_sys_env, log_init, signal.                                  *)
(***************************************************************************)
start_initd(p) ==
    /\ Fresh(p) /\ Started("initd") < MaxInitd
    /\ Goto(p, "remove")
    /\ job' = [job EXCEPT ![p] = "initd"]
    /\ UNCHANGED <<pos, lst, name, owner, shmid, at, reg, key, seg, hist>>

\* The key of an earlier segment goes; who is attached stays attached.
init_remove(p) ==
    /\ pc[p] = "remove"
    /\ key' = 0
    /\ Goto(p, "create")
    /\ UNCHANGED <<job, pos, lst, name, owner, shmid, at, reg, seg, hist>>

\* shmget(IPC_CREAT): the segment another initd just created, or a new one.
init_create(p) ==
    /\ pc[p] = "create"
    /\ key' = IF key # 0 THEN key ELSE Cardinality({q \in Pid : shmid[q] # 0}) + 1
    /\ shmid' = [shmid EXCEPT ![p] = key']
    /\ Goto(p, "clear")
    /\ UNCHANGED <<job, pos, lst, name, owner, at, reg, seg, hist>>

\* Entered in segment s, or about to be.
Entering(s) ==
    {reg[r].who : r \in {r \in Pid : Alive(r) /\ at[r] = s /\ reg[r].todo \in (SUBSET {"count", "slot"}) \ {{}}}}

init_clear(p) ==
    /\ pc[p] = "clear"
    /\ seg' = [seg EXCEPT ![shmid[p]] = Zeroed]
    /\ raced' = raced \cup {q \in Pid : entry[q] = shmid[p]} \cup Entering(shmid[p])
    /\ wiped' = IF Entering(shmid[p]) = {} THEN wiped ELSE wiped \cup {shmid[p]}
    /\ Goto(p, "attach")
    /\ UNCHANGED <<job, pos, lst, name, owner, shmid, at, reg, key, entry, due>>

\* log_init calls env(), which attaches the segment the key names by then.
init_attach(p) ==
    /\ pc[p] = "attach"
    /\ IF key = 0
         THEN Die(p)
         ELSE /\ at' = [at EXCEPT ![p] = key]
              /\ Goto(p, "trap")
              /\ UNCHANGED <<job, pos, lst, name, owner, shmid, reg, key, seg, hist>>

init_trap(p) ==
    /\ pc[p] = "trap"
    /\ Goto(p, "sleep")
    /\ UNCHANGED <<job, pos, lst, name, owner, shmid, at, reg, key, seg, hist>>

(***************************************************************************)
(* SIGTERM: sigroutine, or the default action before the handler is set.   *)
(***************************************************************************)
sigroutine(p) ==
    /\ MayTerm
    /\ pc[p] = "sleep"
    /\ key' = IF key = shmid[p] THEN 0 ELSE key
    /\ pos' = [pos EXCEPT ![p] = 0]
    /\ due' = [due EXCEPT ![p] = {q \in Pid : entry[q] = at[p]}]
    /\ Goto(p, "count")
    /\ UNCHANGED <<job, lst, name, owner, shmid, at, reg, seg, entry, raced, wiped>>

default_term(p) ==
    /\ MayTerm
    /\ pc[p] \in InitdPc \ {"sleep", "count", "kill"}
    /\ Die(p)

\* Mutant: the last slot is not looked at.
sweep_count_short(p) ==
    /\ pc[p] = "count"
    /\ Goto(p, IF pos[p] + 1 < seg[at[p]].pids THEN "kill" ELSE "swept")
    /\ UNCHANGED <<job, pos, lst, name, owner, shmid, at, reg, key, seg, hist>>

\* i < env()->pids, read anew every time round.
sweep_count(p) ==
    /\ pc[p] = "count"
    /\ Goto(p, IF pos[p] < seg[at[p]].pids THEN "kill" ELSE "swept")
    /\ UNCHANGED <<job, pos, lst, name, owner, shmid, at, reg, key, seg, hist>>

\* An empty slot ends the sweep; any other is sent SIGTERM, which neither the
\* loaders nor their children handle.
sweep_kill(p) ==
    /\ pc[p] = "kill"
    /\ LET v == seg[at[p]].pidv[pos[p]] IN
       IF v = 0
         THEN Goto(p, "cut") /\ UNCHANGED <<pos, lst, owner>>
         ELSE /\ pc' = [pc EXCEPT ![v] = IF Alive(v) THEN "gone" ELSE @, ![p] = "count"]
              /\ Bury({v})
              /\ pos' = [pos EXCEPT ![p] = @ + 1]
    /\ UNCHANGED <<job, name, shmid, at, reg, key, seg, hist>>

-----------------------------------------------------------------------------
(***************************************************************************)
(* reg_pid: pidv[pids++] = pid on shared memory, without a lock.  The index *)
(* is read; the new count and the slot are written in either order.        *)
(***************************************************************************)
start_loader(p, l) ==
    /\ Fresh(p) /\ Started(l) < MaxLoader
    /\ EarlyLoader \/ \E q \in Pid : pc[q] = "sleep"
    /\ Goto(p, "reg")
    /\ job' = [job EXCEPT ![p] = l]
    /\ pos' = [pos EXCEPT ![p] = 1]
    /\ reg' = [reg EXCEPT ![p] = [who |-> p, n |-> 0, todo |-> {"load"}]]
    /\ UNCHANGED <<lst, name, owner, shmid, at, key, seg, hist>>

\* env() attaches the segment the first time, or exits when there is none.
reg_load(p) ==
    /\ pc[p] = "reg"
    /\ reg[p].todo = {"load"}
    /\ LET s == IF at[p] = 0 THEN key ELSE at[p] IN
       IF s = 0
         THEN Die(p)
         ELSE /\ at' = [at EXCEPT ![p] = s]
              /\ reg' = [reg EXCEPT ![p].n = seg[s].pids, ![p].todo = {"count", "slot"}]
              /\ raced' = IF Entering(s) = {} THEN raced ELSE raced \cup Entering(s) \cup {reg[p].who}
              /\ UNCHANGED <<pc, job, pos, lst, name, owner, shmid, key, seg, entry, wiped, due>>

\* One of the two stores is done; after the second the call returns.
Stored(p, what) ==
    /\ reg' = [reg EXCEPT ![p].todo = @ \ {what}]
    /\ IF reg[p].todo = {what}
         THEN Goto(p, "loop") /\ entry' = [entry EXCEPT ![reg[p].who] = at[p]]
         ELSE UNCHANGED <<pc, entry>>
    /\ UNCHANGED <<job, pos, lst, name, owner, shmid, at, key, raced, wiped, due>>

\* Mutant: the count is not advanced.
reg_count_same(p) ==
    /\ pc[p] = "reg" /\ "count" \in reg[p].todo
    /\ seg' = [seg EXCEPT ![at[p]].pids = reg[p].n]
    /\ Stored(p, "count")

reg_count(p) ==
    /\ pc[p] = "reg" /\ "count" \in reg[p].todo
    /\ seg' = [seg EXCEPT ![at[p]].pids = reg[p].n + 1]
    /\ Stored(p, "count")

\* Mutant: ++pids in the place of pids++.
reg_slot_next(p) ==
    /\ pc[p] = "reg" /\ "slot" \in reg[p].todo
    /\ seg' = [seg EXCEPT ![at[p]].pidv[(reg[p].n + 1) % MaxPid] = reg[p].who]
    /\ Stored(p, "slot")

reg_slot(p) ==
    /\ pc[p] = "reg" /\ "slot" \in reg[p].todo
    /\ seg' = [seg EXCEPT ![at[p]].pidv[reg[p].n] = reg[p].who]
    /\ Stored(p, "slot")

-----------------------------------------------------------------------------
(***************************************************************************)
(* The loop over the modules of loader.conf.  A child whose start() returns *)
(* falls out of launch_service into the loop of the loader it is a copy of. *)
(***************************************************************************)
ToDo(p) == pc[p] = "loop" /\ pos[p] <= Len(Conf[job[p]])
Chosen(p) == Conf[job[p]][pos[p]]

\* load returns NULL for a missing library, and its info is read all the same
\* where a process is forked for it.
load_missing(p) ==
    /\ ToDo(p) /\ Chosen(p) \in Missing /\ job[p] \in Forks
    /\ Die(p)

\* fork, and reg_pid of the child in the parent.
launch(p, q) ==
    /\ ToDo(p) /\ Chosen(p) \notin Missing /\ job[p] \in Forks
    /\ Fresh(q)
    /\ pc' = [pc EXCEPT ![p] = "reg", ![q] = "rpc"]
    /\ job' = [job EXCEPT ![q] = job[p]]
    /\ name' = [name EXCEPT ![q] = Chosen(p)]
    /\ pos' = [pos EXCEPT ![p] = @ + 1, ![q] = pos[p] + 1]
    /\ at' = [at EXCEPT ![q] = at[p]]
    /\ reg' = [reg EXCEPT ![p] = [who |-> q, n |-> 0, todo |-> {"load"}]]
    /\ UNCHANGED <<lst, owner, shmid, key, seg, hist>>

launch_fails(p) ==
    /\ MayCrash
    /\ ToDo(p) /\ Chosen(p) \notin Missing /\ job[p] \in Forks
    /\ pos' = [pos EXCEPT ![p] = @ + 1]
    /\ UNCHANGED <<pc, job, lst, name, owner, shmid, at, reg, key, seg, hist>>

\* rpc_reg of NULL only logs.
launch_framework(p) ==
    /\ ToDo(p) /\ job[p] \notin Forks
    /\ pos' = [pos EXCEPT ![p] = @ + 1]
    /\ UNCHANGED <<pc, job, lst, name, owner, shmid, at, reg, key, seg, hist>>

\* Mutant: the framework loader listens under no name.
loop_end_unnamed(p) ==
    /\ pc[p] = "loop" /\ pos[p] > Len(Conf[job[p]])
    /\ Goto(p, "wait")
    /\ lst' = [lst EXCEPT ![p] = IF job[p] \in Forks THEN @ ELSE "connect"]
    /\ UNCHANGED <<job, pos, name, owner, shmid, at, reg, key, seg, hist>>

\* The end of the list: the framework loader listens, the others wait for
\* their children.
loop_end(p) ==
    /\ pc[p] = "loop" /\ pos[p] > Len(Conf[job[p]])
    /\ Goto(p, "wait")
    /\ IF job[p] \in Forks
         THEN UNCHANGED <<lst, name>>
         ELSE lst' = [lst EXCEPT ![p] = "connect"] /\ name' = [name EXCEPT ![p] = job[p]]
    /\ UNCHANGED <<job, pos, owner, shmid, at, reg, key, seg, hist>>

(***************************************************************************)
(* The child: rpc_init, rpc_reg, rpc_listen, then start().                 *)
(***************************************************************************)
child_listen(q) ==
    /\ pc[q] = "rpc"
    /\ lst' = [lst EXCEPT ![q] = "connect"]
    /\ Goto(q, "start")
    /\ UNCHANGED <<job, pos, name, owner, shmid, at, reg, key, seg, hist>>

start_returns(q) ==
    /\ pc[q] = "start" /\ name[q] \in Returns
    /\ Goto(q, "loop")
    /\ UNCHANGED <<job, pos, lst, name, owner, shmid, at, reg, key, seg, hist>>

\* Mutant: the reply of the bus is not looked at.
request_name_unchecked(q) ==
    /\ lst[q] = "connect"
    /\ lst' = [lst EXCEPT ![q] = "serve"]
    /\ owner' = [owner EXCEPT ![name[q]] = IF @ = 0 THEN q ELSE @]
    /\ UNCHANGED <<pc, job, pos, name, shmid, at, reg, key, seg, hist>>

\* A process that does not get its name exits, wherever its main thread is.
request_name(q) ==
    /\ lst[q] = "connect"
    /\ IF owner[name[q]] = 0
         THEN /\ lst' = [lst EXCEPT ![q] = "serve"]
              /\ owner' = [owner EXCEPT ![name[q]] = q]
              /\ UNCHANGED <<pc, job, pos, name, shmid, at, reg, key, seg, hist>>
         ELSE Die(q)

-----------------------------------------------------------------------------
Next ==
    \/ \E p \in Pid : start_initd(p)
    \/ \E p \in Pid : init_remove(p)
    \/ \E p \in Pid : init_create(p)
    \/ \E p \in Pid : init_clear(p)
    \/ \E p \in Pid : init_attach(p)
    \/ \E p \in Pid : init_trap(p)
    \/ \E p \in Pid : sigroutine(p)
    \/ \E p \in Pid : default_term(p)
    \/ \E p \in Pid : sweep_count(p)
    \/ \E p \in Pid : sweep_kill(p)
    \/ \E p \in Pid, l \in Loader : start_loader(p, l)
    \/ \E p \in Pid : reg_load(p)
    \/ \E p \in Pid : reg_count(p)
    \/ \E p \in Pid : reg_slot(p)
    \/ \E p \in Pid : load_missing(p)
    \/ \E p, q \in Pid : launch(p, q)
    \/ \E p \in Pid : launch_fails(p)
    \/ \E p \in Pid : launch_framework(p)
    \/ \E p \in Pid : loop_end(p)
    \/ \E q \in Pid : child_listen(q)
    \/ \E q \in Pid : start_returns(q)
    \/ \E q \in Pid : request_name(q)
    \/ \E p \in Pid : Crash(p)

Spec == Init /\ [][Next]_vars

\* The threads of a process keep running, and initd and the loaders are
\* started in the end.
Fairness ==
    /\ WF_vars(\E p \in Pid : start_initd(p))
    /\ \A l \in Loader : WF_vars(\E p \in Pid : start_loader(p, l))
    /\ \A p \in Pid :
         /\ WF_vars(init_remove(p) \/ init_create(p) \/ init_clear(p) \/ init_attach(p) \/ init_trap(p))
         /\ WF_vars(reg_load(p) \/ reg_count(p) \/ reg_slot(p) \/ load_missing(p)
                    \/ (\E q \in Pid : launch(p, q)) \/ launch_framework(p) \/ loop_end(p)
                    \/ child_listen(p) \/ start_returns(p))
         /\ WF_vars(request_name(p))

FairSpec == Spec /\ Fairness

-----------------------------------------------------------------------------
(***************************************************************************)
(* Properties.                                                             *)
(***************************************************************************)
Listed(s) == {seg[s].pidv[i] : i \in {i \in Slot : i < seg[s].pids}}

\* A process entered in the table stays there, below the count, whoever else
\* registers, dies half-way or shuts down: only a registration that overlapped
\* another one, or the memset of a starting initd, can be lost.
LostOnlyInRace ==
    \A q \in Pid : entry[q] # 0 => q \in Listed(entry[q]) \cup raced

\* An empty slot below the count, which would end a sweep early, is one that a
\* reg_pid has reserved and not filled, or died before filling, unless a memset
\* hit a registration.
HolesAreUnfilled ==
    \A s \in Seg : \A i \in Slot :
        i < seg[s].pids /\ seg[s].pidv[i] = 0 =>
            \/ \E r \in Pid : at[r] = s /\ reg[r].n = i /\ "slot" \in reg[r].todo
            \/ s \in wiped

\* A sweep that got to the end of the table leaves alive no process that was
\* in it when the SIGTERM came, whatever registered since; what was lost in a
\* race was not in it.
SweepThorough ==
    \A p \in Pid : pc[p] = "swept" => \A q \in due[p] \ raced : ~Alive(q)

\* Every module of loader.conf ends up in one process for good, also when a
\* child falls back into the loader's loop and launches the rest once more.
OneProcessPerModule ==
    \A m \in Module :
        <>[](Cardinality({p \in Pid : name[p] = m /\ Alive(p)}) = 1)
=============================================================================
