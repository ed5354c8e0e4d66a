------------------------------ MODULE Modules -------------------------------
(***************************************************************************)
(* The modules of one process: how loader.c loads them and imports what    *)
(* they depend on, what the macros of module.h make of a module's          *)
(* interface, which module the listener thread serves, and what becomes of *)
(* notifications (Notify).                                                 *)
(*                                                                         *)
(* The process is the framework loader, or the child a service loader (or  *)
(* app loader) forks for the module at place own of its list: what the     *)
(* loader did up to the fork the child has done too.  A library is mapped  *)
(* once per process, so importing a module that is loaded runs the         *)
(* _dylib_init_ of the module itself again.                                *)
(***************************************************************************)
EXTENDS Integers, Sequences, Functions, Notify, Khash

CONSTANTS
    Module,      \* the modules
    Missing,     \* those without a library to open
    Methods,     \* what each EXPORTs, in the order of its RPC_REGs
    Hash,        \* the hash value of each module's "layer.id"
    Confs,       \* the lists of loader.conf
    Imports      \* what on_load of each module may import, in order

ASSUME ModuleAssumption == Missing \subseteq Module /\ Handler = Module /\ "none" \notin Module
\* loader.conf lists a module once.
ASSUME ConfAssumption ==
    Confs \subseteq Seq(Module) /\ \A c \in Confs : \A i, j \in DOMAIN c : c[i] = c[j] => i = j
ASSUME MethodsAssumption == Methods \in [Module -> Seq(STRING)]
ASSUME HashAssumption == Hash \in [Module -> Nat]
\* With two imports at most a table is never resized once it holds something.
ASSUME ImportAssumption ==
    Imports \subseteq [Module -> Seq(Module)]
    /\ \A f \in Imports : \A m \in Module : Len(f[m]) <= 2

VARIABLES
    kind,        \* "framework" or "child"
    conf,        \* the modules the loader goes through
    own,         \* the place of the module the child was forked for
    imports,     \* what each module imports
    main,        \* the main thread
    pos,         \* its place in conf
    init,        \* the _dylib_init_ under way: of which library, what is left
    wants,       \* what on_load has still to import
    regs,        \* method_regs of each library
    iface,       \* the members of its INTERFACE that are filled in
    loads,       \* how often its on_load ran
    depends,     \* its table of imported interfaces
    bound,       \* history: who got which interface for which id
    modules,     \* g_rpc_mgr->modules
    listening,   \* the listener thread serves
    dropped      \* history: the modules a call to which was lost, and when

setting == <<kind, conf, own, imports>>
loading == <<main, pos, init, wants>>
libs == <<regs, iface, loads, depends, bound>>
serving == <<modules, listening>>
vars == <<setting, loading, libs, serving, dropped, notify>>

Idle == [lib |-> "none", todo |-> <<>>]
Methods_of(m) == Range(Methods[m])

\* Those to import which gives NULL: without a library, or an EXPORT in it.
NoInterface == Missing \cup {m \in Module : Methods[m] = <<>>}

ModulesTypeOK ==
    /\ NotifyTypeOK
    /\ kind \in {"framework", "child"} /\ conf \in Confs /\ own \in DOMAIN conf /\ imports \in Imports
    /\ main \in {"next", "init", "on_load", "import", "bind", "launch", "start", "up", "crashed"}
    /\ pos \in 1 .. Len(conf) + 1
    /\ init = Idle \/ init.lib \in Module \ Missing
    /\ \A m \in Module : Range(regs[m]) \subseteq Methods_of(m) /\ iface[m] \subseteq Methods_of(m)
    /\ \A m \in Module : loads[m] \in 0 .. 1 /\ depends[m].n \in {0, 3}
    /\ bound \subseteq [by : Module, id : Module, got : Module \cup {"none"}]
    /\ modules \in Seq(Module)
    /\ listening \in BOOLEAN
    /\ dropped \subseteq [mod : Module, again : BOOLEAN]

Init ==
    /\ NotifyInit
    /\ kind \in {"framework", "child"}
    /\ conf \in Confs /\ own \in DOMAIN conf /\ imports \in Imports
    /\ kind = "framework" => own = 1
    /\ main = "next" /\ pos = 1 /\ init = Idle /\ wants = <<>>
    /\ regs = [m \in Module |-> <<>>] /\ iface = [m \in Module |-> {}]
    /\ loads = [m \in Module |-> 0] /\ depends = [m \in Module |-> kh_init]
    /\ bound = {}
    /\ modules = <<>> /\ listening = FALSE
    /\ dropped = {}

Main(from, to) == main = from /\ main' = to
This == conf[pos]

-----------------------------------------------------------------------------
(***************************************************************************)
(* _dylib_init_ of a library, as EXPORT and RPC_REG write it.  A library   *)
(* without an EXPORT has none, and no methods.                             *)
(***************************************************************************)
\* Mutant: the list of an earlier _dylib_init_ is used again.
EXPORT_again(lib) ==
    /\ init' = [lib |-> lib, todo |-> Methods[lib]]
    /\ UNCHANGED regs

EXPORT(lib) ==
    /\ init' = [lib |-> lib, todo |-> Methods[lib]]
    /\ regs' = [regs EXCEPT ![lib] = <<>>]

\* The client stub into INTERFACE, the server stub to the head of the list.
RPC_REG ==
    /\ main = "init" /\ init.todo # <<>>
    /\ LET me == Head(init.todo) IN
       /\ iface' = [iface EXCEPT ![init.lib] = @ \cup {me}]
       /\ regs' = [regs EXCEPT ![init.lib] = <<me>> \o @]
    /\ init' = [init EXCEPT !.todo = Tail(@)]
    /\ UNCHANGED <<setting, main, pos, wants, loads, depends, bound, serving, dropped, notify>>

\* Back in import, or in load.
dylib_init_returns ==
    /\ main = "init" /\ init.todo = <<>>
    /\ main' = IF wants # <<>> THEN "bind" ELSE "on_load"
    /\ init' = Idle
    /\ UNCHANGED <<setting, pos, wants, libs, serving, dropped, notify>>

(***************************************************************************)
(* load, from launch_framework or launch_service.  For a missing library   *)
(* it returns NULL: rpc_reg takes that, but launch_service reads the info. *)
(***************************************************************************)
load ==
    /\ pos <= Len(conf) /\ This \notin Missing
    /\ Main("next", "init")
    /\ EXPORT(This)
    /\ UNCHANGED <<setting, pos, wants, iface, loads, depends, bound, serving, dropped, notify>>

load_missing ==
    /\ main = "next" /\ pos <= Len(conf) /\ This \in Missing
    /\ IF kind = "framework"
         THEN pos' = pos + 1 /\ UNCHANGED main
         ELSE main' = "crashed" /\ UNCHANGED pos
    /\ UNCHANGED <<setting, init, wants, libs, serving, dropped, notify>>

on_load ==
    /\ Main("on_load", "import")
    /\ loads' = [loads EXCEPT ![This] = @ + 1]
    /\ wants' = imports[This]
    /\ UNCHANGED <<setting, pos, init, regs, iface, depends, bound, serving, dropped, notify>>

(***************************************************************************)
(* import.  The keys of depends point into stack frames that are gone, so  *)
(* any of them may, or may not, equal the id looked for: the buckets in    *)
(* same do.                                                                *)
(***************************************************************************)
Buckets_of(m) == SUBSET {b \in 0 .. depends[m].n - 1 : depends[m].flag[b] = "live"}

Binds(id, got) == bound' = bound \cup {[by |-> This, id |-> id, got |-> got]}

\* get_module_depend finds an interface.
import_known ==
    /\ main = "import" /\ wants # <<>>
    /\ \E same \in Buckets_of(This) :
         LET got == hash_get(depends[This], Hash[Head(wants)], same) IN
         got # "none" /\ Binds(Head(wants), got)
    /\ wants' = Tail(wants)
    /\ UNCHANGED <<setting, main, pos, init, regs, iface, loads, depends, serving, dropped, notify>>

\* It finds none: the library is opened.
Unknown ==
    /\ main = "import" /\ wants # <<>>
    /\ \E same \in Buckets_of(This) : hash_get(depends[This], Hash[Head(wants)], same) = "none"

\* Mutant: import leaves the initialisation to load.
import_open_bare ==
    /\ Unknown /\ Head(wants) \notin NoInterface
    /\ main' = "bind"
    /\ UNCHANGED <<setting, pos, init, wants, libs, serving, dropped, notify>>

import_open ==
    /\ Unknown /\ Head(wants) \notin NoInterface
    /\ main' = "init"
    /\ EXPORT(Head(wants))
    /\ UNCHANGED <<setting, pos, wants, iface, loads, depends, bound, serving, dropped, notify>>

\* No symbol INTERFACE, and none at all without a library: NULL, and nothing is
\* registered.
import_missing ==
    /\ Unknown /\ Head(wants) \in NoInterface
    /\ Binds(Head(wants), "none")
    /\ wants' = Tail(wants)
    /\ UNCHANGED <<setting, main, pos, init, regs, iface, loads, depends, serving, dropped, notify>>

reg_module_depend ==
    /\ Main("bind", "import")
    /\ \E same \in Buckets_of(This) :
         depends' = [depends EXCEPT ![This] = hash_set(@, Hash[Head(wants)], same, Head(wants))]
    /\ Binds(Head(wants), Head(wants))
    /\ wants' = Tail(wants)
    /\ UNCHANGED <<setting, pos, init, regs, iface, loads, serving, dropped, notify>>

\* The rest of on_load: it may register a handler.
on_load_returns ==
    /\ wants = <<>>
    /\ Main("import", "launch")
    /\ \/ \E n \in Notification : reg_notify(n, This)
       \/ UNCHANGED notify
    /\ UNCHANGED <<setting, pos, init, wants, libs, serving, dropped>>

-----------------------------------------------------------------------------
(***************************************************************************)
(* launch_framework, launch_service: what follows load.                    *)
(***************************************************************************)
rpc_reg == modules' = Append(modules, This)

launch_framework ==
    /\ kind = "framework" /\ Main("launch", "next")
    /\ rpc_reg
    /\ pos' = pos + 1
    /\ UNCHANGED <<setting, init, wants, libs, listening, dropped, notify>>

\* The loader, or the child that fell back into its loop, forks another one.
launch_other ==
    /\ kind = "child" /\ pos # own /\ Main("launch", "next")
    /\ pos' = pos + 1
    /\ UNCHANGED <<setting, init, wants, libs, serving, dropped, notify>>

\* rpc_reg, rpc_listen, start.
launch_self ==
    /\ kind = "child" /\ pos = own /\ Main("launch", "start")
    /\ rpc_reg
    /\ listening' = TRUE
    /\ UNCHANGED <<setting, pos, init, wants, libs, dropped, notify>>

start_returns ==
    /\ Main("start", "next")
    /\ pos' = pos + 1
    /\ UNCHANGED <<setting, init, wants, libs, serving, dropped, notify>>

\* The end of the list: the framework listens, the others wait.
loop_end ==
    /\ pos > Len(conf) /\ Main("next", "up")
    /\ listening' = (listening \/ kind = "framework")
    /\ UNCHANGED <<setting, pos, init, wants, libs, modules, dropped, notify>>

(***************************************************************************)
(* The listener thread, and what others send it.                           *)
(***************************************************************************)
Served == modules[Len(modules)]
Serving == listening /\ main # "crashed" /\ modules # <<>>

\* A call of a method of m, which is in this process.  rpc_method_filter looks
\* at the methods of the last module; what it does not find it drops.
call(m, me) ==
    /\ Serving /\ m \in Range(modules) /\ me \in Methods_of(m)
    /\ dropped' = IF m = Served /\ me \in Range(regs[m]) THEN dropped
                  ELSE dropped \cup {[mod |-> m, again |-> init.lib = m]}
    /\ UNCHANGED <<setting, loading, libs, serving, notify>>

signal ==
    /\ Serving
    /\ \/ bus_in = <<>> /\ \E n \in Notification : signal_arrives(n)
       \/ dispatch_signal
    /\ UNCHANGED <<setting, loading, libs, serving, dropped>>

\* A module tells the others something.
notifies ==
    /\ main \in {"start", "up"}
    /\ \E n \in Notification : msg_notify(n)
    /\ UNCHANGED <<setting, loading, libs, serving, dropped>>

-----------------------------------------------------------------------------
Next ==
    \/ load \/ load_missing \/ RPC_REG \/ dylib_init_returns \/ on_load
    \/ import_known \/ import_open \/ import_missing \/ reg_module_depend \/ on_load_returns
    \/ launch_framework \/ launch_other \/ launch_self \/ start_returns \/ loop_end
    \/ \E m \in Module : \E me \in Methods_of(m) : call(m, me)
    \/ signal \/ notifies

Spec == Init /\ [][Next]_vars

-----------------------------------------------------------------------------
(***************************************************************************)
(* Properties.                                                             *)
(***************************************************************************)
\* However often its library is initialised again, also while it is served,
\* the served module is loaded once and has every method once, the last
\* RPC_REG first, whenever no _dylib_init_ of it is under way; a call to it is
\* lost only during one.
ServedAsDeclared ==
    Serving =>
        /\ init.lib # Served =>
             loads[Served] = 1 /\ \A i \in DOMAIN Methods[Served] :
                 /\ Len(regs[Served]) = Len(Methods[Served])
                 /\ regs[Served][i] = Methods[Served][Len(Methods[Served]) + 1 - i]
        /\ \A d \in dropped : d.mod = Served => d.again

\* A module that imports one id gets the interface of that module, if it has
\* one, with every member in place, whatever the dead keys in its table compare
\* to.  With two ids it may get the first one's for the second.
RightInterface ==
    \A b \in bound :
        /\ Range(imports[b.by]) = {b.id} => b.got = IF b.id \in NoInterface THEN "none" ELSE b.id
        /\ b.got # "none" => b.got \in Range(imports[b.by]) /\ iface[b.got] = Methods_of(b.got)

\* However many modules of the process register handlers, and for whichever
\* notifications, a search for a notification finds every handler registered for
\* it, in the order they were registered (notify.c:56-75).
HandlersKept ==
    \A n \in Notification :
        asked[n] = IF Entries(n) = {} THEN <<>> ELSE notify_get_handlers(n)

\* A notification is a broadcast (README:18): what a module gives to msg_notify
\* leaves its process (module.c:378, 419), and when one comes to a process, the
\* handlers that were registered there for it run (module.c:100-119, 198).
Broadcast == told \subseteq bus_out /\ due \subseteq ran
=============================================================================
