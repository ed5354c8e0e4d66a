--------------------------- MODULE Modules_proofs ---------------------------
(***************************************************************************)
(* What holds of Modules for every set of modules, every loader.conf,      *)
(* every declaration of methods and imports: the served module answers as  *)
(* it was declared, an import gets its interface, and no handler that is   *)
(* registered is lost.  And what holds of Str, whose strings the loaders   *)
(* take the lines of loader.conf apart with, for every capacity and all    *)
(* characters.                                                             *)
(***************************************************************************)
EXTENDS Modules, Str, TLAPS, SequenceTheorems, WellFoundedInduction

-----------------------------------------------------------------------------
(***************************************************************************)
(* The served module.                                                      *)
(***************************************************************************)
Setting ==
    /\ kind \in {"framework", "child"}
    /\ conf \in Seq(Module) /\ \A i, j \in DOMAIN conf : conf[i] = conf[j] => i = j
    /\ own \in 1 .. Len(conf)
    /\ imports \in [Module -> Seq(Module)]

Loading ==
    /\ main \in {"next", "init", "on_load", "import", "bind", "launch", "start", "up", "crashed"}
    /\ pos \in 1 .. Len(conf) + 1
    /\ wants \in Seq(Module)
    /\ main \notin {"next", "up", "crashed"} => pos <= Len(conf) /\ This \notin Missing
    /\ main \in {"next", "on_load", "launch", "start"} => wants = <<>>
    /\ main = "bind" => wants # <<>>

\* A _dylib_init_ is under way: load's has nothing to return to but on_load.
Exporting ==
    /\ init \in [lib : Module \cup {"none"}, todo : Seq(STRING)]
    /\ main = "init" => init.lib \in Module /\ (wants = <<>> => init.lib = This)
    /\ main # "init" => init = Idle

\* The list of lib holds the methods before the todo, the last one first.
Reversed(r, ms) == Len(r) = Len(ms) /\ \A i \in DOMAIN ms : r[i] = ms[Len(ms) + 1 - i]

Halfway ==
    main = "init" =>
        LET r == regs[init.lib]
            ms == Methods[init.lib]
        IN /\ Len(r) + Len(init.todo) = Len(ms)
           /\ \A i \in 1 .. Len(r) : r[i] = ms[Len(r) + 1 - i]
           /\ \A i \in 1 .. Len(init.todo) : init.todo[i] = ms[Len(r) + i]

\* The module at place i has been through on_load.
Past(i) ==
    \/ i < pos
    \/ i = pos /\ (main \in {"import", "bind", "launch", "start"} \/ (main = "init" /\ wants # <<>>))

Complete(m) == init.lib # m => Reversed(regs[m], Methods[m])

Libs ==
    /\ regs \in [Module -> Seq(STRING)]
    /\ loads \in [Module -> Nat]
    /\ \A i \in DOMAIN conf : loads[conf[i]] = IF Past(i) /\ conf[i] \notin Missing THEN 1 ELSE 0
    /\ \A m \in Module : loads[m] = 1 => Complete(m)
    /\ main = "on_load" => Complete(This)

\* Nothing is served before rpc_listen, and nothing is registered after it.
Serves ==
    /\ modules \in Seq(Module) /\ \A i \in DOMAIN modules : loads[modules[i]] = 1
    /\ listening \in BOOLEAN
    /\ kind = "framework" /\ listening => main = "up"
    /\ kind = "child" /\ (listening \/ modules # <<>>) => pos > own \/ (pos = own /\ main = "start")

Dropped ==
    /\ ~listening => dropped = {}
    /\ \A d \in dropped : modules # <<>> => (d.mod = Served => d.again)

LoadInv == Setting /\ Loading /\ Exporting /\ Halfway /\ Libs /\ Serves /\ Dropped

LEMMA InitLoad == Init => LoadInv
<1> SUFFICES ASSUME Init PROVE LoadInv
    OBVIOUS
<1>1. Setting
    BY ConfAssumption, ImportAssumption DEF Init, Setting
<1>2. Loading
    BY <1>1 DEF Init, Loading, Setting
<1>4. Exporting /\ Halfway
    BY DEF Init, Exporting, Halfway, Idle
<1>5. \A m \in Module : loads[m] = 0 /\ regs[m] = <<>>
    BY DEF Init
<1>6. \A i \in DOMAIN conf : conf[i] \in Module /\ ~Past(i)
    BY <1>1 DEF Init, Past, Setting
<1>7. Libs
    BY <1>5, <1>6 DEF Init, Libs
<1>8. modules \in Seq(Module) /\ DOMAIN modules = {}
    BY DEF Init
<1>3. Serves /\ Dropped
    BY <1>8 DEF Init, Serves, Dropped
<1> QED
    BY <1>1, <1>2, <1>3, <1>4, <1>7 DEF LoadInv

\* Steps of import, and the rest of on_load: the libraries stay as they are.
LEMMA Imports_on ==
    ASSUME LoadInv, wants' \in Seq(Module),
           UNCHANGED <<setting, pos, init, regs, loads, serving, dropped>>,
           \/ main \in {"import", "bind"} /\ main' = "import"
           \/ main = "import" /\ main' = "launch" /\ wants' = <<>>
    PROVE  LoadInv'
<1>1. Setting'
    BY DEF LoadInv, Setting, setting
<1>2. Loading'
    BY DEF LoadInv, Loading, This, setting
<1>3. Exporting' /\ Halfway'
    BY DEF LoadInv, Exporting, Halfway
<1>4. \A i \in DOMAIN conf : Past(i)' <=> Past(i)
    BY DEF LoadInv, Past
<1>5. Libs'
    BY <1>4 DEF LoadInv, Libs, Complete, Reversed, setting
<1>6. Serves' /\ Dropped'
    BY DEF LoadInv, Serves, Dropped, Served, setting, serving
<1> QED
    BY <1>1, <1>2, <1>3, <1>5, <1>6 DEF LoadInv

\* The loop over loader.conf goes on to the next module.
LEMMA Loop_on ==
    ASSUME LoadInv, main' = "next", pos' = pos + 1, pos <= Len(conf),
           \/ main \in {"launch", "start"}
           \/ main = "next" /\ This \in Missing,
           modules' = modules \/ (main = "launch" /\ kind = "framework" /\ rpc_reg),
           UNCHANGED <<setting, init, wants, regs, loads, listening, dropped>>
    PROVE  LoadInv'
<1>1. Setting'
    BY DEF LoadInv, Setting, setting
<1>2. Loading'
    BY DEF LoadInv, Loading, setting
<1>3. Exporting' /\ Halfway'
    BY DEF LoadInv, Exporting, Halfway
<1>4. \A i \in DOMAIN conf : conf[i] \notin Missing => (Past(i)' <=> Past(i))
    <2> SUFFICES ASSUME NEW i \in DOMAIN conf, conf[i] \notin Missing PROVE Past(i)' <=> Past(i)
        OBVIOUS
    <2>1. i \in Int /\ pos \in Int
        BY DEF LoadInv, Loading, Setting
    <2>2. Past(i)' <=> i < pos + 1
        BY DEF Past
    <2>3. CASE i = pos
        <3>1. main \in {"launch", "start"}
            BY <2>3 DEF This
        <3> QED
            BY <2>1, <2>2, <2>3, <3>1 DEF Past
    <2>4. CASE i # pos
        BY <2>1, <2>2, <2>4 DEF Past
    <2> QED
        BY <2>3, <2>4
<1>5. Libs'
    BY <1>4 DEF LoadInv, Libs, Complete, Reversed, setting
<1>6. CASE modules' = modules
    BY <1>1, <1>2, <1>3, <1>5, <1>6 DEF LoadInv, Serves, Dropped, Served, setting, Loading, Setting
<1>7. CASE main = "launch" /\ kind = "framework" /\ rpc_reg
    <2>1. This \in Module /\ loads[This] = 1
        BY <1>7 DEF LoadInv, Libs, Past, Loading, Setting, This
    <2>2. ~listening /\ dropped = {}
        BY <1>7 DEF LoadInv, Serves, Dropped
    <2>3. Serves'
        BY <1>7, <2>1, <2>2 DEF LoadInv, Serves, rpc_reg, setting
    <2> QED
        BY <1>1, <1>2, <1>3, <1>5, <2>2, <2>3 DEF LoadInv, Dropped
<1> QED
    BY <1>6, <1>7

\* A library is initialised: load's, or one that import opens.
LEMMA Exports_on ==
    ASSUME LoadInv, NEW lib \in Module, EXPORT(lib), main' = "init",
           \/ main = "next" /\ lib = This /\ pos <= Len(conf) /\ This \notin Missing
           \/ main = "import" /\ wants # <<>>,
           UNCHANGED <<setting, pos, wants, loads, serving, dropped>>
    PROVE  LoadInv'
<1>1. Setting'
    BY DEF LoadInv, Setting, setting
<1>2. Loading'
    BY DEF LoadInv, Loading, setting, This
<1>3. init' = [lib |-> lib, todo |-> Methods[lib]] /\ regs' = [regs EXCEPT ![lib] = <<>>]
    BY DEF EXPORT
<1>4. Methods[lib] \in Seq(STRING)
    BY MethodsAssumption
<1>5. Exporting'
    BY <1>3, <1>4 DEF LoadInv, Loading, Exporting, This, setting
<1>6. regs' \in [Module -> Seq(STRING)] /\ regs'[lib] = <<>>
    BY <1>3 DEF LoadInv, Libs
<1>7. Halfway'
    BY <1>3, <1>4, <1>6 DEF Halfway
<1>8. \A i \in DOMAIN conf : Past(i)' <=> Past(i)
    BY DEF LoadInv, Past, Loading
<1>9. ASSUME NEW m \in Module, loads[m] = 1 PROVE Complete(m)'
    BY <1>3, <1>9, ModuleAssumption DEF LoadInv, Libs, Complete, Reversed, Exporting, Idle
<1>10. Libs'
    BY <1>6, <1>8, <1>9 DEF LoadInv, Libs, setting
<1>11. Serves' /\ Dropped'
    BY DEF LoadInv, Serves, Dropped, Served, setting, serving
<1> QED
    BY <1>1, <1>2, <1>5, <1>7, <1>10, <1>11 DEF LoadInv

\* The first of the todo moves to the head of the list.
Splits(r, t, ms) ==
    /\ Len(r) + Len(t) = Len(ms)
    /\ \A i \in 1 .. Len(r) : r[i] = ms[Len(r) + 1 - i]
    /\ \A i \in 1 .. Len(t) : t[i] = ms[Len(r) + i]

LEMMA Moves ==
    ASSUME NEW r \in Seq(STRING), NEW t \in Seq(STRING), NEW ms \in Seq(STRING),
           t # <<>>, Splits(r, t, ms)
    PROVE  <<Head(t)>> \o r \in Seq(STRING) /\ Splits(<<Head(t)>> \o r, Tail(t), ms)
<1> DEFINE s == <<Head(t)>> \o r
<1>1. Head(t) = t[1] /\ Head(t) \in STRING /\ Len(t) \in Nat /\ Len(t) > 0
    OBVIOUS
<1>2. s \in Seq(STRING) /\ Len(s) = Len(r) + 1 /\ s[1] = Head(t)
    BY <1>1
<1>3. Tail(t) \in Seq(STRING) /\ Len(Tail(t)) = Len(t) - 1
    BY <1>1
<1>4. ASSUME NEW i \in 1 .. Len(s) PROVE s[i] = ms[Len(s) + 1 - i]
    <2>1. CASE i = 1
        <3>1. s[1] = ms[Len(r) + 1]
            BY <1>1, <1>2 DEF Splits
        <3> QED
            BY <1>2, <2>1, <3>1
    <2>2. CASE i # 1
        <3>1. i - 1 \in 1 .. Len(r) /\ s[i] = r[i - 1]
            BY <1>1, <1>2, <2>2
        <3>2. r[i - 1] = ms[Len(r) + 1 - (i - 1)]
            BY <3>1 DEF Splits
        <3>3. Len(r) + 1 - (i - 1) = Len(s) + 1 - i
            BY <1>2
        <3> QED
            BY <3>1, <3>2, <3>3
    <2> QED
        BY <2>1, <2>2
<1>5. ASSUME NEW i \in 1 .. Len(Tail(t)) PROVE Tail(t)[i] = ms[Len(s) + i]
    <2>1. i + 1 \in 1 .. Len(t) /\ Tail(t)[i] = t[i + 1]
        BY <1>1, <1>3
    <2>2. t[i + 1] = ms[Len(r) + (i + 1)]
        BY <2>1 DEF Splits
    <2>3. Len(r) + (i + 1) = Len(s) + i
        BY <1>2
    <2> QED
        BY <2>1, <2>2, <2>3
<1>6. Len(s) + Len(Tail(t)) = Len(ms)
    BY <1>1, <1>2, <1>3 DEF Splits
<1> QED
    BY <1>2, <1>4, <1>5, <1>6 DEF Splits

LEMMA RegStep == LoadInv /\ RPC_REG => LoadInv'
<1> SUFFICES ASSUME LoadInv, RPC_REG PROVE LoadInv'
    OBVIOUS
<1> DEFINE lib == init.lib
           r == regs[lib]
<1>1. /\ main = "init" /\ init.todo # <<>> /\ lib \in Module
      /\ UNCHANGED <<setting, main, pos, wants, loads, serving, dropped>>
    BY DEF RPC_REG, LoadInv, Exporting
<1>2. init.todo \in Seq(STRING) /\ Tail(init.todo) \in Seq(STRING)
    BY <1>1 DEF LoadInv, Exporting
<1>3. init' = [lib |-> lib, todo |-> Tail(init.todo)]
    BY <1>1, <1>2 DEF RPC_REG, LoadInv, Exporting
<1>4. r \in Seq(STRING) /\ regs' = [regs EXCEPT ![lib] = <<Head(init.todo)>> \o r]
    BY <1>1 DEF RPC_REG, LoadInv, Libs
<1>5. Setting' /\ Loading'
    BY <1>1 DEF LoadInv, Setting, Loading, setting, This
<1>6. Exporting'
    BY <1>1, <1>2, <1>3 DEF LoadInv, Exporting, setting, This
<1>7. Splits(r, init.todo, Methods[lib])
    BY <1>1 DEF LoadInv, Halfway, Splits
<1>8. <<Head(init.todo)>> \o r \in Seq(STRING)
      /\ Splits(<<Head(init.todo)>> \o r, Tail(init.todo), Methods[lib])
    <2>1. Methods[lib] \in Seq(STRING)
        BY <1>1, MethodsAssumption
    <2> HIDE DEF r, lib
    <2> QED
        BY <1>1, <1>2, <1>4, <1>7, <2>1, Moves
<1>9. regs' \in [Module -> Seq(STRING)] /\ regs'[lib] = <<Head(init.todo)>> \o r
    BY <1>1, <1>4, <1>8 DEF LoadInv, Libs
<1>10. Halfway'
    <2>1. init'.lib = lib /\ init'.todo = Tail(init.todo)
        BY <1>3
    <2> QED
        BY <1>8, <1>9, <2>1 DEF Halfway, Splits
<1>11. \A m \in Module : Complete(m) => Complete(m)'
    BY <1>1, <1>3, <1>4 DEF LoadInv, Libs, Complete, Reversed
<1>12. \A i \in DOMAIN conf : Past(i)' <=> Past(i)
    BY <1>1 DEF Past
<1>13. Libs'
    BY <1>1, <1>9, <1>11, <1>12 DEF LoadInv, Libs, setting
<1>14. Serves' /\ Dropped'
    BY <1>1 DEF LoadInv, Serves, Dropped, Served, setting, serving
<1> QED
    BY <1>5, <1>6, <1>10, <1>13, <1>14 DEF LoadInv

LEMMA ReturnStep == LoadInv /\ dylib_init_returns => LoadInv'
<1> SUFFICES ASSUME LoadInv, dylib_init_returns PROVE LoadInv'
    OBVIOUS
<1>1. /\ main = "init" /\ init.todo = <<>> /\ init' = Idle
      /\ main' = IF wants # <<>> THEN "bind" ELSE "on_load"
      /\ UNCHANGED <<setting, pos, wants, regs, loads, serving, dropped>>
    BY DEF dylib_init_returns, libs
<1>2. Setting' /\ Loading'
    BY <1>1 DEF LoadInv, Setting, Loading, setting, This
<1>3. Exporting' /\ Halfway'
    BY <1>1 DEF Exporting, Halfway, Idle
<1>4. init.lib \in Module /\ Reversed(regs[init.lib], Methods[init.lib])
    <2> DEFINE r == regs[init.lib]
               ms == Methods[init.lib]
    <2>1. init.lib \in Module /\ r \in Seq(STRING) /\ ms \in Seq(STRING)
        BY <1>1, MethodsAssumption DEF LoadInv, Exporting, Libs
    <2>2. Len(r) + 0 = Len(ms) /\ \A i \in 1 .. Len(r) : r[i] = ms[Len(r) + 1 - i]
        BY <1>1 DEF LoadInv, Halfway
    <2> HIDE DEF r, ms
    <2>3. Len(r) = Len(ms) /\ DOMAIN ms = 1 .. Len(r)
        BY <2>1, <2>2
    <2>4. Reversed(r, ms)
        BY <2>2, <2>3 DEF Reversed
    <2> QED
        BY <2>1, <2>4 DEF r, ms
<1>5. \A m \in Module : Complete(m) => Complete(m)'
    BY <1>1, <1>4 DEF Complete
<1>6. \A i \in DOMAIN conf : Past(i)' <=> Past(i)
    BY <1>1 DEF Past
<1>7. main' = "on_load" => Complete(This)'
    BY <1>1, <1>4 DEF LoadInv, Exporting, Complete, This, setting
<1>8. Libs'
    BY <1>1, <1>5, <1>6, <1>7 DEF LoadInv, Libs, setting
<1>9. Serves' /\ Dropped'
    BY <1>1 DEF LoadInv, Serves, Dropped, Served, setting, serving
<1> QED
    BY <1>2, <1>3, <1>8, <1>9 DEF LoadInv

LEMMA OnLoadStep == LoadInv /\ on_load => LoadInv'
<1> SUFFICES ASSUME LoadInv, on_load PROVE LoadInv'
    OBVIOUS
<1>1. /\ main = "on_load" /\ main' = "import" /\ wants' = imports[This]
      /\ loads' = [loads EXCEPT ![This] = @ + 1]
      /\ UNCHANGED <<setting, pos, init, regs, serving, dropped>>
    BY DEF on_load, Main
<1>2. pos \in DOMAIN conf /\ This \in Module /\ This \notin Missing
    BY <1>1 DEF LoadInv, Loading, Setting, This
<1>3. Setting' /\ Loading'
    BY <1>1, <1>2 DEF LoadInv, Setting, Loading, setting, This
<1>4. Exporting' /\ Halfway'
    BY <1>1 DEF LoadInv, Exporting, Halfway
<1>5. loads[This] = 0
    BY <1>1, <1>2 DEF LoadInv, Libs, Past, This, Loading
<1>6. loads' \in [Module -> Nat] /\ loads'[This] = 1 /\ \A m \in Module \ {This} : loads'[m] = loads[m]
    BY <1>1, <1>2, <1>5 DEF LoadInv, Libs
<1>7. ASSUME NEW i \in DOMAIN conf
      PROVE  loads'[conf[i]] = IF Past(i)' /\ conf[i] \notin Missing THEN 1 ELSE 0
    <2>1. CASE i = pos
        BY <1>1, <1>2, <1>6, <2>1 DEF Past, This
    <2>2. CASE i # pos
        <3>1. conf[i] \in Module /\ conf[i] # This
            BY <1>2, <2>2 DEF LoadInv, Setting, This
        <3>2. Past(i)' <=> Past(i)
            BY <1>1, <2>2 DEF Past
        <3> QED
            BY <1>6, <3>1, <3>2 DEF LoadInv, Libs
    <2> QED
        BY <2>1, <2>2
<1>8. \A m \in Module : loads'[m] = 1 => Complete(m)'
    BY <1>1, <1>6 DEF LoadInv, Libs, Complete
<1>9. Libs'
    BY <1>1, <1>6, <1>7, <1>8 DEF LoadInv, Libs, setting
<1>10. Serves'
    BY <1>1, <1>5, <1>6 DEF LoadInv, Serves, setting, serving
<1> QED
    BY <1>1, <1>3, <1>4, <1>9, <1>10 DEF LoadInv, Dropped, Served, serving

\* A call reaches the served module, unless its library is initialised again.
LEMMA CallStep ==
    ASSUME LoadInv, NEW m \in Module, NEW me \in Methods_of(m), call(m, me)
    PROVE  LoadInv'
<1>1. listening /\ modules # <<>> /\ UNCHANGED <<setting, loading, libs, serving, notify>>
    BY DEF call, Serving
<1>2. dropped' = IF m = Served /\ me \in Range(regs[m]) THEN dropped
                 ELSE dropped \cup {[mod |-> m, again |-> init.lib = m]}
    BY DEF call
<1>3. ASSUME m = Served, init.lib # m PROVE me \in Range(regs[m])
    <2>1. Served \in Module /\ loads[Served] = 1
        BY <1>1 DEF LoadInv, Serves, Served
    <2>2. Reversed(regs[m], Methods[m]) /\ regs[m] \in Seq(STRING) /\ Methods[m] \in Seq(STRING)
        BY <1>3, <2>1, MethodsAssumption DEF LoadInv, Libs, Complete
    <2>3. PICK i \in DOMAIN Methods[m] : me = Methods[m][i]
        BY DEF Methods_of, Range
    <2>4. i \in 1 .. Len(Methods[m]) /\ DOMAIN regs[m] = 1 .. Len(Methods[m])
        BY <2>2, <2>3 DEF Reversed
    <2>5. Len(Methods[m]) + 1 - i \in DOMAIN Methods[m]
        BY <2>2, <2>4
    <2>6. regs[m][Len(Methods[m]) + 1 - i] = Methods[m][Len(Methods[m]) + 1 - (Len(Methods[m]) + 1 - i)]
        BY <2>2, <2>5 DEF Reversed
    <2>7. Len(Methods[m]) + 1 - (Len(Methods[m]) + 1 - i) = i
        BY <2>2, <2>4
    <2> QED
        <3>1. Len(Methods[m]) + 1 - i \in DOMAIN regs[m]
            BY <2>2, <2>4
        <3>2. regs[m][Len(Methods[m]) + 1 - i] = me
            BY <2>3, <2>6, <2>7
        <3> QED
            BY <3>1, <3>2 DEF Range
<1>4. Setting' /\ Loading' /\ Exporting' /\ Halfway'
    BY <1>1 DEF LoadInv, Setting, Loading, Exporting, Halfway, setting, loading, libs, This
<1>5. Libs' /\ Serves'
    BY <1>1 DEF LoadInv, Libs, Serves, Past, Complete, setting, loading, libs, serving, This
<1>6. Dropped'
    <2>1. ASSUME NEW d \in dropped', modules # <<>>, d.mod = Served PROVE d.again
        <3>1. CASE d \in dropped
            BY <2>1, <3>1 DEF LoadInv, Dropped
        <3>2. CASE d \notin dropped
            <4>1. d = [mod |-> m, again |-> init.lib = m] /\ ~(m = Served /\ me \in Range(regs[m]))
                BY <1>2, <2>1, <3>2
            <4>2. init.lib = m
                BY <1>3, <2>1, <4>1
            <4> QED
                BY <4>1, <4>2
        <3> QED
            BY <3>1, <3>2
    <2>2. Served' = Served /\ modules' = modules /\ listening'
        BY <1>1 DEF Served, serving
    <2> QED
        BY <2>1, <2>2 DEF Dropped
<1> QED
    BY <1>4, <1>5, <1>6 DEF LoadInv

\* The child serves the module it was forked for, once on_load has returned.
LEMMA SelfStep == LoadInv /\ launch_self => LoadInv'
<1> SUFFICES ASSUME LoadInv, launch_self PROVE LoadInv'
    OBVIOUS
<1>1. /\ kind = "child" /\ pos = own /\ main = "launch" /\ main' = "start"
      /\ modules' = Append(modules, This) /\ listening' = TRUE
      /\ UNCHANGED <<setting, pos, init, wants, regs, loads, dropped>>
    BY DEF launch_self, Main, rpc_reg, libs
<1>2. This \in Module /\ loads[This] = 1
    BY <1>1 DEF LoadInv, Libs, Past, Loading, Setting, This
<1>3. ~listening /\ modules = <<>> /\ dropped = {}
    BY <1>1 DEF LoadInv, Serves, Dropped, Setting, Loading
<1>4. Setting' /\ Loading' /\ Exporting' /\ Halfway'
    BY <1>1 DEF LoadInv, Setting, Loading, Exporting, Halfway, setting, This
<1>5. \A i \in DOMAIN conf : Past(i)' <=> Past(i)
    BY <1>1 DEF Past
<1>6. Libs'
    BY <1>1, <1>5 DEF LoadInv, Libs, Complete, setting
<1>7. Serves'
    <2>1. modules' = <<This>>
        BY <1>1, <1>3
    <2> QED
        BY <1>1, <1>2, <2>1 DEF Serves, setting
<1>8. Dropped'
    BY <1>1, <1>3 DEF Dropped
<1> QED
    BY <1>4, <1>6, <1>7, <1>8 DEF LoadInv

LEMMA EndStep == LoadInv /\ loop_end => LoadInv'
<1> SUFFICES ASSUME LoadInv, loop_end PROVE LoadInv'
    OBVIOUS
<1>1. /\ main = "next" /\ main' = "up" /\ pos > Len(conf)
      /\ listening' = (listening \/ kind = "framework")
      /\ UNCHANGED <<setting, pos, init, wants, regs, loads, modules, dropped>>
    BY DEF loop_end, Main, libs
<1>2. Setting' /\ Loading' /\ Exporting' /\ Halfway'
    BY <1>1 DEF LoadInv, Setting, Loading, Exporting, Halfway, setting, This
<1>3. \A i \in DOMAIN conf : Past(i)' <=> Past(i)
    BY <1>1 DEF Past
<1>4. Libs'
    BY <1>1, <1>3 DEF LoadInv, Libs, Complete, setting
<1>5. pos > own
    BY <1>1 DEF LoadInv, Loading, Setting
<1>6. Serves' /\ Dropped'
    BY <1>1, <1>5 DEF LoadInv, Setting, Serves, Dropped, Served, setting
<1> QED
    BY <1>2, <1>4, <1>6 DEF LoadInv

\* What leaves the modules alone: messages, and a child that ends in load.
LEMMA Idle_on ==
    ASSUME LoadInv, UNCHANGED <<setting, pos, init, wants, regs, loads, serving, dropped>>,
           main' = main \/ (main = "next" /\ main' = "crashed" /\ kind = "child")
    PROVE  LoadInv'
<1>1. Setting' /\ Loading' /\ Exporting' /\ Halfway'
    BY DEF LoadInv, Setting, Loading, Exporting, Halfway, setting, This
<1>2. \A i \in DOMAIN conf : Past(i)' <=> Past(i)
    BY DEF Past
<1>3. Libs'
    BY <1>2 DEF LoadInv, Libs, Complete, setting, This
<1>4. Serves' /\ Dropped'
    BY DEF LoadInv, Serves, Dropped, Served, setting, serving
<1> QED
    BY <1>1, <1>3, <1>4 DEF LoadInv

LEMMA NextLoad == LoadInv /\ [Next]_vars => LoadInv'
<1> SUFFICES ASSUME LoadInv, [Next]_vars PROVE LoadInv'
    OBVIOUS
<1>1. CASE load
    <2>1. This \in Module
        BY <1>1 DEF load, LoadInv, Loading, Setting, This
    <2> QED
        BY <1>1, <2>1, Exports_on DEF load, Main
<1>2. CASE load_missing
    <2>1. CASE kind = "framework"
        BY <1>2, <2>1, Loop_on DEF load_missing, libs, serving
    <2>2. CASE kind # "framework"
        BY <1>2, <2>2, Idle_on DEF load_missing, libs, LoadInv, Setting
    <2> QED
        BY <2>1, <2>2
<1>3. CASE RPC_REG
    BY <1>3, RegStep
<1>4. CASE dylib_init_returns
    BY <1>4, ReturnStep
<1>5. CASE on_load
    BY <1>5, OnLoadStep
<1>6. CASE import_known \/ import_missing
    <2>1. /\ main = "import" /\ main' = "import" /\ wants # <<>> /\ wants' = Tail(wants)
          /\ UNCHANGED <<setting, pos, init, regs, loads, serving, dropped>>
        BY <1>6 DEF import_known, import_missing, Unknown
    <2>2. wants' \in Seq(Module)
        BY <2>1 DEF LoadInv, Loading
    <2> QED
        BY <2>1, <2>2, Imports_on
<1>7. CASE import_open
    <2>1. /\ main = "import" /\ wants # <<>> /\ main' = "init" /\ EXPORT(Head(wants))
          /\ UNCHANGED <<setting, pos, wants, loads, serving, dropped>>
        BY <1>7 DEF import_open, Unknown
    <2>2. Head(wants) \in Module
        BY <2>1 DEF LoadInv, Loading
    <2> QED
        BY <2>1, <2>2, Exports_on
<1>8. CASE reg_module_depend
    <2>1. /\ main = "bind" /\ main' = "import" /\ wants' = Tail(wants)
          /\ UNCHANGED <<setting, pos, init, regs, loads, serving, dropped>>
        BY <1>8 DEF reg_module_depend, Main
    <2>2. wants' \in Seq(Module)
        BY <2>1 DEF LoadInv, Loading
    <2> QED
        BY <2>1, <2>2, Imports_on
<1>9. CASE on_load_returns
    <2>1. /\ main = "import" /\ main' = "launch" /\ wants' = <<>>
          /\ UNCHANGED <<setting, pos, init, regs, loads, serving, dropped>>
        BY <1>9 DEF on_load_returns, Main, libs
    <2> QED
        BY <2>1, Imports_on
<1>10. CASE launch_framework
    <2>1. pos <= Len(conf)
        BY <1>10 DEF launch_framework, Main, LoadInv, Loading
    <2> QED
        BY <1>10, <2>1, Loop_on DEF launch_framework, Main, libs
<1>11. CASE launch_other \/ start_returns
    <2>1. pos <= Len(conf)
        BY <1>11 DEF launch_other, start_returns, Main, LoadInv, Loading
    <2> QED
        BY <1>11, <2>1, Loop_on DEF launch_other, start_returns, Main, libs, serving
<1>12. CASE launch_self \/ loop_end
    BY <1>12, SelfStep, EndStep
<1>13. ASSUME NEW m \in Module, NEW me \in Methods_of(m), call(m, me) PROVE LoadInv'
    BY <1>13, CallStep
<1>14. CASE signal \/ notifies \/ UNCHANGED vars
    <2>1. UNCHANGED <<setting, loading, libs, serving, dropped>>
        BY <1>14 DEF signal, notifies, vars
    <2> QED
        BY <2>1, Idle_on DEF loading, libs
<1> QED
    BY <1>1, <1>2, <1>3, <1>4, <1>5, <1>6, <1>7, <1>8, <1>9, <1>10, <1>11, <1>12, <1>13, <1>14 DEF Next

LEMMA LoadServed == LoadInv => ServedAsDeclared
<1> SUFFICES ASSUME LoadInv, Serving PROVE
        /\ init.lib # Served => loads[Served] = 1 /\ Reversed(regs[Served], Methods[Served])
        /\ \A d \in dropped : d.mod = Served => d.again
    BY DEF ServedAsDeclared, Reversed
<1>1. modules # <<>> /\ Served \in Module /\ loads[Served] = 1
    BY DEF LoadInv, Serving, Serves, Served
<1> QED
    BY <1>1 DEF LoadInv, Libs, Complete, Dropped

\* In every process, for every list of modules, every declaration and every
\* import, the module the listener looks at was loaded once, has each method
\* once in its list whenever no initialisation of its library is under way, and
\* loses a call only during one (module.h, loader.c, module.c).
THEOREM ServesAsDeclared == Spec => []ServedAsDeclared
<1>1. Init => LoadInv
    BY InitLoad
<1>2. LoadInv /\ [Next]_vars => LoadInv'
    BY NextLoad
<1>3. LoadInv => ServedAsDeclared
    BY LoadServed
<1> QED
    BY <1>1, <1>2, <1>3, PTL DEF Spec

-----------------------------------------------------------------------------
(***************************************************************************)
(* Notifications.                                                          *)
(***************************************************************************)
Entry_ == [notify : Notification, handlers : Seq(Handler)]

\* The list has one entry for a name, with all its handlers.
Registry ==
    /\ notify_list \in Seq(Entry_)
    /\ asked \in [Notification -> Seq(Handler)]
    /\ \A i, j \in DOMAIN notify_list : notify_list[i].notify = notify_list[j].notify => i = j
    /\ \A i \in DOMAIN notify_list : notify_list[i].handlers = asked[notify_list[i].notify]
    /\ \A n \in Notification : Entries(n) = {} => asked[n] = <<>>

\* Of a notification in the list the search finds the entry.
LEMMA EntryIs ==
    ASSUME Registry, NEW n \in Notification, Entries(n) # {}
    PROVE  /\ Entry(n) \in DOMAIN notify_list /\ notify_list[Entry(n)].notify = n
           /\ Entries(n) = {Entry(n)}
<1>1. PICK e : e \in Entries(n)
    OBVIOUS
<1>2. e \in DOMAIN notify_list /\ notify_list[e].notify = n
    BY <1>1 DEF Entries
<1>3. Entries(n) = {e}
    BY <1>1, <1>2 DEF Entries, Registry
<1>4. e <= e
    BY <1>2 DEF Registry
<1>5. Entry(n) = e
    BY <1>3, <1>4 DEF Entry
<1> QED
    BY <1>2, <1>3, <1>5

LEMMA NamesAre ==
    ASSUME Registry
    PROVE  \A i \in DOMAIN notify_list :
               notify_list[i] \in Entry_ /\ notify_list[i].notify \in Notification
<1>1. ASSUME NEW i \in DOMAIN notify_list PROVE notify_list[i] \in Entry_
    BY DEF Registry
<1>2. \A e \in Entry_ : e.notify \in Notification
    BY DEF Entry_
<1> QED
    BY <1>1, <1>2

\* A handler for a name that is not in the list.
LEMMA RegisterFirst ==
    ASSUME Registry, NEW n \in Notification, NEW h \in Handler, Entries(n) = {}, reg_notify(n, h)
    PROVE  Registry'
<1> DEFINE e == [notify |-> n, handlers |-> <<h>>]
           l == Len(notify_list)
<1>1. e \in Entry_ /\ e.notify = n /\ e.handlers = <<h>>
    BY DEF Entry_
<1>2. notify_list' = Append(notify_list, e) /\ asked' = [asked EXCEPT ![n] = Append(@, h)]
    BY DEF reg_notify, notify_add_handler
<1> HIDE DEF e
<1>3. asked[n] = <<>> /\ asked'[n] = <<h>> /\ \A x \in Notification \ {n} : asked'[x] = asked[x]
    <2>1. asked[n] = <<>> /\ asked \in [Notification -> Seq(Handler)]
        BY DEF Registry
    <2>2. Append(asked[n], h) = <<h>>
        BY <2>1
    <2> QED
        BY <1>2, <2>1, <2>2
<1>4. notify_list' \in Seq(Entry_) /\ asked' \in [Notification -> Seq(Handler)]
    BY <1>1, <1>2 DEF Registry
<1>5. l \in Nat /\ DOMAIN notify_list = 1 .. l /\ DOMAIN notify_list' = 1 .. l + 1
    BY <1>1, <1>2 DEF Registry
<1>6. notify_list'[l + 1] = e /\ \A i \in 1 .. l : notify_list'[i] = notify_list[i]
    BY <1>1, <1>2 DEF Registry
<1> HIDE DEF l
<1>7. \A i \in 1 .. l : notify_list[i].notify # n /\ notify_list[i].notify \in Notification
    BY <1>5, NamesAre DEF Entries
<1>8. ASSUME NEW i \in 1 .. l + 1, NEW j \in 1 .. l + 1,
             notify_list'[i].notify = notify_list'[j].notify
      PROVE  i = j
    <2>1. CASE i \in 1 .. l /\ j \in 1 .. l
        <3>1. notify_list[i].notify = notify_list[j].notify
            BY <1>6, <1>8, <2>1
        <3> QED
            BY <1>5, <2>1, <3>1 DEF Registry
    <2>2. CASE i = l + 1 /\ j \in 1 .. l
        BY <1>1, <1>6, <1>7, <1>8, <2>2
    <2>3. CASE i \in 1 .. l /\ j = l + 1
        BY <1>1, <1>6, <1>7, <1>8, <2>3
    <2> QED
        BY <1>5, <2>1, <2>2, <2>3
<1>9. ASSUME NEW i \in 1 .. l + 1
      PROVE  notify_list'[i].handlers = asked'[notify_list'[i].notify]
    <2>1. CASE i = l + 1
        BY <1>1, <1>3, <1>6, <2>1
    <2>2. CASE i \in 1 .. l
        <3>1. notify_list'[i] = notify_list[i] /\ notify_list[i].notify \in Notification \ {n}
            BY <1>6, <1>7, <2>2
        <3>2. notify_list[i].handlers = asked[notify_list[i].notify]
            BY <1>5, <2>2 DEF Registry
        <3> QED
            BY <1>3, <3>1, <3>2
    <2> QED
        BY <1>5, <2>1, <2>2
<1>10. ASSUME NEW x \in Notification, Entries(x)' = {} PROVE asked'[x] = <<>>
    <2>1. x # n
        BY <1>1, <1>5, <1>6, <1>10 DEF Entries
    <2>2. Entries(x) = {}
        BY <1>5, <1>6, <1>10 DEF Entries
    <2> QED
        BY <1>3, <2>1, <2>2 DEF Registry
<1> QED
    BY <1>4, <1>5, <1>8, <1>9, <1>10 DEF Registry

\* A handler for a name that is.
LEMMA RegisterAnother ==
    ASSUME Registry, NEW n \in Notification, NEW h \in Handler, Entries(n) # {}, reg_notify(n, h)
    PROVE  Registry'
<1> DEFINE p == Entry(n)
           new == [notify_list[p] EXCEPT !.handlers = Append(@, h)]
<1>1. p \in DOMAIN notify_list /\ notify_list[p].notify = n /\ notify_list[p] \in Entry_
    BY EntryIs DEF Registry
<1>2. asked' = [asked EXCEPT ![n] = Append(@, h)] /\ notify_list' = [notify_list EXCEPT ![p] = new]
    BY DEF reg_notify, notify_add_handler
<1>3. new \in Entry_ /\ new.notify = n /\ new.handlers = Append(notify_list[p].handlers, h)
    BY <1>1 DEF Entry_
<1> HIDE DEF p, new
<1>4. notify_list[p].handlers = asked[n]
    BY <1>1 DEF Registry
<1>5. asked'[n] = new.handlers /\ \A x \in Notification \ {n} : asked'[x] = asked[x]
    BY <1>2, <1>3, <1>4 DEF Registry
<1>6. notify_list' \in Seq(Entry_) /\ DOMAIN notify_list' = DOMAIN notify_list
    BY <1>1, <1>2, <1>3 DEF Registry
<1>7. notify_list'[p] = new /\ \A i \in DOMAIN notify_list \ {p} : notify_list'[i] = notify_list[i]
    BY <1>1, <1>2 DEF Registry
<1>8. \A i \in DOMAIN notify_list : notify_list'[i].notify = notify_list[i].notify
    BY <1>1, <1>3, <1>7
<1>9. \A i \in DOMAIN notify_list \ {p} : notify_list[i].notify \in Notification \ {n}
    <2>1. \A i, j \in DOMAIN notify_list : notify_list[i].notify = notify_list[j].notify => i = j
        BY DEF Registry
    <2> QED
        BY <1>1, <2>1, NamesAre
<1>10. ASSUME NEW i \in DOMAIN notify_list
       PROVE  notify_list'[i].handlers = asked'[notify_list'[i].notify]
    <2>1. CASE i = p
        BY <1>3, <1>5, <1>7, <2>1
    <2>2. CASE i # p
        <3>1. notify_list'[i] = notify_list[i] /\ notify_list[i].notify \in Notification \ {n}
            BY <1>7, <1>9, <2>2
        <3>2. notify_list[i].handlers = asked[notify_list[i].notify]
            BY DEF Registry
        <3> QED
            BY <1>5, <3>1, <3>2
    <2> QED
        BY <2>1, <2>2
<1>11. asked' \in [Notification -> Seq(Handler)]
    BY <1>2 DEF Registry
<1>12. ASSUME NEW x \in Notification, Entries(x)' = {} PROVE asked'[x] = <<>>
    <2>1. Entries(x) = {}
        BY <1>6, <1>8, <1>12 DEF Entries
    <2>2. x # n
        BY <1>1, <2>1 DEF Entries
    <2> QED
        BY <1>5, <2>1, <2>2 DEF Registry
<1> QED
    BY <1>6, <1>8, <1>10, <1>11, <1>12 DEF Registry

\* Nothing else touches the registry.
LEMMA RegistryNext ==
    ASSUME Registry, main = "import" => This \in Handler, [Next]_vars
    PROVE  Registry'
<1>1. CASE UNCHANGED registry
    BY <1>1 DEF registry, Registry, Entries
<1>2. ASSUME NEW n \in Notification, This \in Handler, reg_notify(n, This) PROVE Registry'
    BY <1>2, RegisterFirst, RegisterAnother
<1>3. CASE on_load_returns
    BY <1>1, <1>2, <1>3 DEF on_load_returns, Main, notify
<1>4. CASE signal
    BY <1>1, <1>4 DEF signal, signal_arrives, dispatch_signal
<1>5. CASE notifies
    BY <1>1, <1>5 DEF notifies, msg_notify
<1>6. ASSUME NEW m, NEW me, call(m, me) PROVE UNCHANGED registry
    BY <1>6 DEF call, notify
<1>7. CASE load \/ load_missing \/ RPC_REG \/ dylib_init_returns \/ on_load
    BY <1>1, <1>7 DEF load, load_missing, RPC_REG, dylib_init_returns, on_load, notify
<1>8. CASE import_known \/ import_open \/ import_missing \/ reg_module_depend
    BY <1>1, <1>8 DEF import_known, import_open, import_missing, reg_module_depend, notify
<1>9. CASE launch_framework \/ launch_other \/ launch_self \/ start_returns \/ loop_end
    BY <1>1, <1>9 DEF launch_framework, launch_other, launch_self, start_returns, loop_end, notify
<1>10. CASE UNCHANGED vars
    BY <1>1, <1>10 DEF vars, notify
<1> QED
    BY <1>1, <1>3, <1>4, <1>5, <1>6, <1>7, <1>8, <1>9, <1>10 DEF Next

\* In every process, whichever of its modules register handlers for which
\* notifications, a search for a notification finds all handlers registered for
\* it, in order, and none for one that has none (notify.c:20-75).
THEOREM HandlersFound == Spec => []HandlersKept
<1>1. Init => LoadInv /\ Registry
    <2> SUFFICES ASSUME Init PROVE Registry
        BY InitLoad
    <2>1. notify_list = <<>> /\ asked = [n \in Notification |-> <<>>]
        BY DEF Init, NotifyInit
    <2> QED
        BY <2>1 DEF Registry
<1>2. LoadInv /\ Registry /\ [Next]_vars => LoadInv' /\ Registry'
    <2> SUFFICES ASSUME LoadInv, Registry, [Next]_vars PROVE Registry'
        BY NextLoad
    <2>1. main = "import" => This \in Handler
        BY ModuleAssumption DEF LoadInv, Loading, Setting, This
    <2> QED
        BY <2>1, RegistryNext
<1>3. Registry => HandlersKept
    <2> SUFFICES ASSUME Registry, NEW n \in Notification, Entries(n) # {}
                 PROVE  asked[n] = notify_get_handlers(n)
        BY DEF HandlersKept, Registry
    <2>1. Entry(n) \in DOMAIN notify_list /\ notify_list[Entry(n)].notify = n
        BY EntryIs
    <2> QED
        BY <2>1 DEF Registry, notify_get_handlers
<1> QED
    BY <1>1, <1>2, <1>3, PTL DEF Spec

-----------------------------------------------------------------------------
(***************************************************************************)
(* The hash table, up to its first three buckets: import asks for two      *)
(* interfaces at most, and then it never grows.                            *)
(***************************************************************************)
\* A table of k buckets.
Tab(k) ==
    [n : {k}, size : Nat, occupied : Nat, upper : Nat,
     flag : [0 .. k - 1 -> {"empty", "live"}], val : [0 .. k - 1 -> Module \cup {"none"}]]

\* A table as import uses it, whose values are in V.
Table(h, V) ==
    \E k \in {0, 3} : h \in Tab(k) /\ \A i \in 0 .. k - 1 : h.flag[i] = "live" => h.val[i] \in V

LEMMA LeastOfThree ==
    ASSUME NEW S \in SUBSET (0 .. 2), S # {} PROVE Least(S) \in S
<1>1. \E x \in S : \A y \in S : x <= y
    <2>1. CASE 0 \in S
        BY <2>1
    <2>2. CASE 0 \notin S /\ 1 \in S
        BY <2>2
    <2>3. CASE 0 \notin S /\ 1 \notin S
        <3>1. \A x \in 0 .. 2 : x = 0 \/ x = 1 \/ x = 2
            OBVIOUS
        <3>2. S = {2}
            BY <2>3, <3>1
        <3> QED
            BY <3>2
    <2> QED
        BY <2>1, <2>2, <2>3
<1> QED
    BY <1>1 DEF Least

LEMMA FreshTable == kh_init \in Tab(0) /\ \A V : Table(kh_init, V)
<1>1. Buckets(0) \in Tab(0)
    BY DEF Buckets, Tab, UpperBound
<1>2. kh_init \in Tab(0)
    BY <1>1 DEF kh_init, Tab
<1> QED
    BY <1>2 DEF Table

LEMMA FirstBuckets ==
    ASSUME NEW h \in Tab(0) PROVE kh_resize_empty(h) \in Tab(3)
        /\ \A i \in 0 .. 2 : kh_resize_empty(h).flag[i] = "empty"
<1>1. Least({p \in Primes : p > h.n + 1}) = 3
    <2>1. h.n = 0
        BY DEF Tab
    <2>2. {p \in Primes : p > h.n + 1} = {3, 11, 23, 53}
        BY <2>1 DEF Primes
    <2>3. \A x \in {3, 11, 23, 53} : (\A y \in {3, 11, 23, 53} : x <= y) <=> x = 3
        OBVIOUS
    <2> QED
        BY <2>2, <2>3 DEF Least
<1>2. kh_resize_empty(h) = Buckets(3)
    BY <1>1 DEF kh_resize_empty
<1>3. Buckets(3) \in Tab(3)
    BY DEF Buckets, Tab, UpperBound
<1>4. \A i \in 0 .. 2 : Buckets(3).flag[i] = "empty"
    BY DEF Buckets
<1> QED
    BY <1>2, <1>3, <1>4

LEMMA SiteInTable ==
    ASSUME NEW h \in Tab(3), NEW k \in Nat, NEW t \in 0 .. 2 PROVE Site(h, k, t) \in 0 .. 2
<1>1. h.n = 3
    BY DEF Tab
<1>2. k % 3 \in Int /\ k % 2 \in 0 .. 1
    OBVIOUS
<1>3. \A b \in 0 .. 1 : t * (1 + b) \in Int
    OBVIOUS
<1>4. (k % 3) + t * (1 + (k % 2)) \in Int
    BY <1>2, <1>3
<1>5. \A x \in Int : x % 3 \in 0 .. 2
    OBVIOUS
<1>6. Site(h, k, t) = ((k % 3) + t * (1 + (k % 2))) % 3
    BY <1>1 DEF Site
<1> QED
    BY <1>4, <1>5, <1>6

LEMMA Lookup ==
    ASSUME NEW h, NEW V, Table(h, V), NEW k \in Nat, NEW same
    PROVE  hash_get(h, k, same) \in V \cup {"none"}
<1>1. CASE h \in Tab(0)
    <2>1. h.n = 0
        BY <1>1 DEF Tab
    <2> QED
        BY <2>1 DEF hash_get, kh_get
<1>2. CASE h \in Tab(3) /\ \A i \in 0 .. 2 : h.flag[i] = "live" => h.val[i] \in V
    <2>1. h.n = 3
        BY <1>2 DEF Tab
    <2> DEFINE T == Turns(h, k, same)
               i == Site(h, k, Least(T))
    <2>2. T \subseteq 0 .. 2
        BY <2>1 DEF Turns
    <2>3. T # {} => i \in 0 .. 2
        BY <1>2, <2>2, LeastOfThree, SiteInTable
    <2>4. kh_get(h, k, same) = IF T = {} THEN 3 ELSE IF h.flag[i] = "live" THEN i ELSE 3
        BY <2>1 DEF kh_get
    <2> HIDE DEF T, i
    <2> QED
        BY <1>2, <2>1, <2>3, <2>4 DEF hash_get
<1> QED
    BY <1>1, <1>2 DEF Table

LEMMA Insert ==
    ASSUME NEW h, NEW V, Table(h, V), NEW k \in Nat, NEW same, NEW v \in Module
    PROVE  Table(hash_set(h, k, same, v), V \cup {v})
<1> DEFINE g == IF h.n = 0 THEN kh_resize_empty(h) ELSE h
           i == kh_site(g, k, same)
<1>1. g \in Tab(3) /\ \A j \in 0 .. 2 : g.flag[j] = "live" => g.val[j] \in V
    <2>1. CASE h \in Tab(0)
        <3>1. h.n = 0
            BY <2>1 DEF Tab
        <3> QED
            BY <2>1, <3>1, FirstBuckets
    <2>2. CASE h \in Tab(3) /\ \A j \in 0 .. 2 : h.flag[j] = "live" => h.val[j] \in V
        <3>1. h.n = 3
            BY <2>2 DEF Tab
        <3> QED
            BY <2>2, <3>1
    <2> QED
        BY <2>1, <2>2 DEF Table
<1>2. hash_set(h, k, same, v) =
         IF g.flag[i] = "empty"
           THEN [g EXCEPT !.flag[i] = "live", !.val[i] = v, !.size = @ + 1, !.occupied = @ + 1]
           ELSE [g EXCEPT !.val[i] = v]
    BY DEF hash_set
<1> HIDE DEF g
<1>3. i \in 0 .. 2
    <2>1. g.n = 3
        BY <1>1 DEF Tab
    <2> DEFINE T == Turns(g, k, same)
    <2>2. T \subseteq 0 .. 2
        BY <2>1 DEF Turns
    <2>3. T # {} => Site(g, k, Least(T)) \in 0 .. 2
        BY <1>1, <2>2, LeastOfThree, SiteInTable
    <2>4. k % 3 \in 0 .. 2
        OBVIOUS
    <2> QED
        BY <2>1, <2>3, <2>4 DEF kh_site
<1> HIDE DEF i
<1>4. PICK s : s = hash_set(h, k, same, v)
    OBVIOUS
<1>5. /\ s \in Tab(3)
      /\ s.val = [g.val EXCEPT ![i] = v]
      /\ \A j \in 0 .. 2 : j # i => s.flag[j] = g.flag[j]
    <2>1. CASE g.flag[i] = "empty"
        <3>1. s = [g EXCEPT !.flag[i] = "live", !.val[i] = v, !.size = @ + 1, !.occupied = @ + 1]
            BY <1>2, <1>4, <2>1
        <3>2. s.flag = [g.flag EXCEPT ![i] = "live"] /\ s.val = [g.val EXCEPT ![i] = v]
            BY <1>1, <3>1 DEF Tab
        <3>3. /\ [g.val EXCEPT ![i] = v] \in [0 .. 3 - 1 -> Module \cup {"none"}]
              /\ [g.flag EXCEPT ![i] = "live"] \in [0 .. 3 - 1 -> {"empty", "live"}]
            BY <1>1, <1>3 DEF Tab
        <3>4. s.size = g.size + 1 /\ s.occupied = g.occupied + 1 /\ s.n = 3 /\ s.upper = g.upper
            BY <1>1, <3>1 DEF Tab
        <3>5. s = [n |-> s.n, size |-> s.size, occupied |-> s.occupied, upper |-> s.upper,
                   flag |-> s.flag, val |-> s.val]
            BY <1>1, <3>1 DEF Tab
        <3>6. g.size + 1 \in Nat /\ g.occupied + 1 \in Nat /\ g.upper \in Nat
            BY <1>1 DEF Tab
        <3>7. s \in Tab(3)
            BY <3>2, <3>3, <3>4, <3>5, <3>6 DEF Tab
        <3>8. \A j \in 0 .. 2 : j # i => s.flag[j] = g.flag[j]
            BY <1>1, <3>2 DEF Tab
        <3> QED
            BY <3>2, <3>7, <3>8
    <2>2. CASE g.flag[i] # "empty"
        <3>1. s = [g EXCEPT !.val[i] = v]
            BY <1>2, <1>4, <2>2
        <3>2. s.flag = g.flag /\ s.val = [g.val EXCEPT ![i] = v]
            BY <1>1, <3>1 DEF Tab
        <3>3. [g.val EXCEPT ![i] = v] \in [0 .. 3 - 1 -> Module \cup {"none"}]
            BY <1>1, <1>3 DEF Tab
        <3>4. s \in Tab(3)
            BY <1>1, <3>1, <3>2, <3>3 DEF Tab
        <3> QED
            BY <3>2, <3>4
    <2> QED
        BY <2>1, <2>2
<1>6. \A j \in 0 .. 2 : s.flag[j] = "live" => s.val[j] \in V \cup {v}
    BY <1>1, <1>3, <1>5 DEF Tab
<1>7. Table(s, V \cup {v})
    BY <1>5, <1>6 DEF Table
<1> QED
    BY <1>4, <1>7
-----------------------------------------------------------------------------
(***************************************************************************)
(* The interfaces a module imports.                                        *)
(***************************************************************************)
Ready(m) == iface[m] = Methods_of(m)

\* What a module may have in its table: interfaces it imports, complete.
Importable(m) == {v \in Range(imports[m]) \ NoInterface : Ready(v)}

\* INTERFACE gets members by RPC_REG only; during a _dylib_init_ those to come
\* are still on the list.
Ifaces ==
    /\ iface \in [Module -> SUBSET STRING] /\ \A m \in Module : iface[m] \subseteq Methods_of(m)
    /\ main = "init" => Methods_of(init.lib) \subseteq iface[init.lib] \cup Range(init.todo)

\* What is left of the imports of this module; the first is being opened.
Wanting ==
    /\ \A i \in DOMAIN wants : wants[i] \in Range(imports[This])
    /\ main \in {"init", "bind"} /\ wants # <<>> => Head(wants) \notin NoInterface
    /\ main = "init" /\ wants # <<>> => init.lib = Head(wants)
    /\ main = "bind" => Ready(Head(wants))

Tables ==
    /\ depends \in [Module -> Tab(0) \cup Tab(3)]
    /\ \A m \in Module : Table(depends[m], Importable(m))

Binders == \A b \in bound : b.by \in Module

BindInv == LoadInv /\ Ifaces /\ Wanting /\ Tables /\ Binders /\ RightInterface

LEMMA TableGrows ==
    ASSUME NEW h, NEW V, NEW W, V \subseteq W, Table(h, V) PROVE Table(h, W)
BY DEF Table

LEMMA MethodsAre ==
    ASSUME NEW m \in Module
    PROVE  /\ Methods[m] \in Seq(STRING) /\ Methods_of(m) \in SUBSET STRING
           /\ \A i \in DOMAIN Methods[m] : Methods[m][i] \in Methods_of(m)
<1>1. Methods[m] \in Seq(STRING)
    BY MethodsAssumption
<1> QED
    BY <1>1 DEF Methods_of, Range

\* Interfaces only grow: what was imported, or bound, stays right.
LEMMA Bound_on ==
    ASSUME BindInv, UNCHANGED <<imports, depends, bound>>, iface' \in [Module -> SUBSET STRING],
           \A m \in Module : iface[m] \subseteq iface'[m] /\ iface'[m] \subseteq Methods_of(m)
    PROVE  Tables' /\ Binders' /\ RightInterface'
<1>1. \A m \in Module : Ready(m) => Ready(m)'
    BY DEF Ready, Methods_of
<1>2. \A m \in Module : Range(imports[m]) \subseteq Module
    BY DEF BindInv, LoadInv, Setting, Range
<1>3. ASSUME NEW m \in Module PROVE Table(depends[m], Importable(m))'
    <2>1. Importable(m) \subseteq Importable(m)'
        BY <1>1, <1>2 DEF Importable
    <2>2. Table(depends[m], Importable(m))
        BY DEF BindInv, Tables
    <2>3. Table(depends[m], Importable(m)')
        BY <2>1, <2>2, TableGrows
    <2> QED
        BY <2>3 DEF Table, Tab
<1>4. Tables'
    BY <1>3 DEF BindInv, Tables, Tab
<1>5. ASSUME NEW b \in bound, b.got # "none" PROVE Ready(b.got)'
    <2>1. Ready(b.got) /\ b.got \in Range(imports[b.by])
        BY <1>5 DEF BindInv, RightInterface, Ready
    <2>2. b.by \in Module
        BY <1>5 DEF BindInv, Binders
    <2> QED
        BY <1>1, <1>2, <2>1, <2>2
<1>6. RightInterface'
    BY <1>5 DEF BindInv, RightInterface, Ready, Methods_of
<1>7. Binders'
    BY DEF BindInv, Binders
<1> QED
    BY <1>4, <1>6, <1>7

\* The first of the wants is settled: it was bound to got.
LEMMA Settled ==
    ASSUME BindInv, main \in {"import", "bind"}, wants # <<>>, wants' = Tail(wants), main' = "import",
           UNCHANGED <<setting, pos, init, iface>>,
           NEW got, Binds(Head(wants), got),
           \/ got = "none" /\ Head(wants) \in NoInterface
           \/ got \in Importable(This)
    PROVE  Ifaces' /\ Wanting' /\ Binders' /\ RightInterface'
<1>1. This \in Module /\ wants \in Seq(Module) /\ Head(wants) = wants[1] /\ 1 \in DOMAIN wants
    BY DEF BindInv, LoadInv, Loading, Setting, This
<1>2. Head(wants) \in Range(imports[This])
    BY <1>1 DEF BindInv, Wanting
<1>3. Ifaces'
    BY DEF BindInv, Ifaces, LoadInv, Exporting
<1>4. Wanting'
    <2>1. \A i \in DOMAIN Tail(wants) : i + 1 \in DOMAIN wants /\ Tail(wants)[i] = wants[i + 1]
        BY <1>1
    <2>2. This' = This
        BY DEF This, setting
    <2> QED
        BY <2>1, <2>2 DEF BindInv, Wanting, setting
<1>5. ASSUME NEW b \in bound'
      PROVE  /\ Range(imports[b.by]) = {b.id} => b.got = IF b.id \in NoInterface THEN "none" ELSE b.id
             /\ b.got # "none" => b.got \in Range(imports[b.by]) /\ iface[b.got] = Methods_of(b.got)
    <2>1. CASE b \in bound
        BY <2>1 DEF BindInv, RightInterface
    <2>2. CASE b = [by |-> This, id |-> Head(wants), got |-> got]
        <3>1. b.by = This /\ b.id = Head(wants) /\ b.got = got
            BY <2>2
        <3> QED
            BY <1>2, <3>1 DEF Importable, Ready
    <2> QED
        BY <1>5, <2>1, <2>2 DEF Binds
<1>6. RightInterface'
    BY <1>5 DEF RightInterface, setting, Methods_of
<1>7. Binders'
    BY <1>1 DEF BindInv, Binders, Binds
<1> QED
    BY <1>3, <1>4, <1>6, <1>7

\* A library begins its _dylib_init_; what on_load wants is not touched.
LEMMA BindExport ==
    ASSUME BindInv, NEW lib \in Module, EXPORT(lib), main' = "init", wants' = wants,
           UNCHANGED <<setting, pos, iface, depends, bound>>,
           \/ wants = <<>>
           \/ lib = Head(wants) /\ Head(wants) \notin NoInterface
    PROVE  Ifaces' /\ Wanting' /\ Tables' /\ Binders' /\ RightInterface'
<1>1. init'.lib = lib /\ init'.todo = Methods[lib]
    BY DEF EXPORT
<1>2. Ifaces'
    BY <1>1 DEF BindInv, Ifaces, Methods_of
<1>3. Wanting'
    BY <1>1 DEF BindInv, Wanting, setting, This
<1>4. Tables' /\ Binders' /\ RightInterface'
    BY Bound_on DEF BindInv, Ifaces, setting
<1> QED
    BY <1>2, <1>3, <1>4

LEMMA BindReg == BindInv /\ RPC_REG => Ifaces' /\ Wanting' /\ Tables' /\ Binders' /\ RightInterface'
<1> SUFFICES ASSUME BindInv, RPC_REG
             PROVE  Ifaces' /\ Wanting' /\ Tables' /\ Binders' /\ RightInterface'
    OBVIOUS
<1> DEFINE lib == init.lib
           me == Head(init.todo)
<1>1. /\ main = "init" /\ main' = "init" /\ init.todo # <<>> /\ init' = [init EXCEPT !.todo = Tail(@)]
      /\ iface' = [iface EXCEPT ![lib] = @ \cup {me}]
      /\ UNCHANGED <<setting, pos, wants, depends, bound>>
    BY DEF RPC_REG
<1>2. lib \in Module /\ init.todo \in Seq(STRING) /\ regs[lib] \in Seq(STRING)
    BY <1>1 DEF BindInv, LoadInv, Exporting, Libs
<1>3. init'.lib = lib /\ init'.todo = Tail(init.todo)
    BY <1>1, <1>2 DEF BindInv, LoadInv, Exporting
<1>4. me \in Methods_of(lib) /\ me \in STRING
    <2>1. Splits(regs[lib], init.todo, Methods[lib])
        BY <1>1 DEF BindInv, LoadInv, Halfway, Splits
    <2>2. /\ me = Methods[lib][Len(regs[lib]) + 1] /\ Len(regs[lib]) + 1 \in 1 .. Len(Methods[lib])
          /\ Methods[lib] \in Seq(STRING)
        <3>1. Methods[lib] \in Seq(STRING) /\ Len(init.todo) \in Nat \ {0} /\ me = init.todo[1]
              /\ Len(regs[lib]) \in Nat
            BY <1>1, <1>2, MethodsAre
        <3>2. init.todo[1] = Methods[lib][Len(regs[lib]) + 1]
            BY <2>1, <3>1 DEF Splits
        <3>3. Len(regs[lib]) + Len(init.todo) = Len(Methods[lib])
            BY <2>1 DEF Splits
        <3>4. Len(regs[lib]) + 1 \in 1 .. Len(Methods[lib])
            <4>1. \A a \in Nat, b \in Nat \ {0} : a + 1 \in 1 .. a + b
                OBVIOUS
            <4> QED
                BY <3>1, <3>3, <4>1
        <3> QED
            BY <3>1, <3>2, <3>4
    <2> QED
        BY <1>2, <2>2, MethodsAre
<1>5. /\ iface' \in [Module -> SUBSET STRING]
      /\ iface'[lib] = iface[lib] \cup {me}
      /\ \A m \in Module : iface[m] \subseteq iface'[m] /\ iface'[m] \subseteq Methods_of(m)
    BY <1>1, <1>2, <1>4 DEF BindInv, Ifaces
<1>6. Ifaces'
    <2>1. Range(init.todo) \subseteq {me} \cup Range(Tail(init.todo))
        <3>1. ASSUME NEW i \in DOMAIN init.todo, i # 1
              PROVE  i - 1 \in DOMAIN Tail(init.todo) /\ Tail(init.todo)[i - 1] = init.todo[i]
            BY <1>1, <1>2, <3>1
        <3>2. ASSUME NEW i \in DOMAIN init.todo PROVE init.todo[i] \in {me} \cup Range(Tail(init.todo))
            <4>1. CASE i = 1
                BY <1>2, <4>1
            <4>2. CASE i # 1
                BY <3>1, <4>2 DEF Range
            <4> QED
                BY <4>1, <4>2
        <3> QED
            BY <3>2 DEF Range
    <2>2. Methods_of(lib) \subseteq iface'[lib] \cup Range(init'.todo)
        BY <1>1, <1>3, <1>5, <2>1 DEF BindInv, Ifaces
    <2> QED
        BY <1>3, <1>5, <2>2 DEF Ifaces, Methods_of
<1>7. Wanting'
    BY <1>1, <1>3 DEF BindInv, Wanting, setting, This
<1>8. Tables' /\ Binders' /\ RightInterface'
    BY <1>1, <1>5, Bound_on DEF setting
<1> QED
    BY <1>6, <1>7, <1>8

LEMMA NextBind == BindInv /\ [Next]_vars => BindInv'
<1> SUFFICES ASSUME BindInv, [Next]_vars PROVE BindInv'
    OBVIOUS
<1>0. LoadInv /\ LoadInv'
    BY NextLoad DEF BindInv
<1> DEFINE Goal == Ifaces' /\ Wanting' /\ Tables' /\ Binders' /\ RightInterface'
<1> SUFFICES Goal
    BY <1>0 DEF BindInv
<1>this. main \notin {"next", "up", "crashed"} => This \in Module /\ wants \in Seq(Module)
    BY <1>0 DEF LoadInv, Loading, Setting, This
\* Steps after which no _dylib_init_ is under way, and nothing new is wanted.
<1>1. ASSUME UNCHANGED <<imports, iface, depends, bound>>, main' \notin {"init", "bind"},
             \A i \in DOMAIN wants' : wants'[i] \in Range(imports[This'])
      PROVE  Goal
    <2>1. Ifaces'
        BY <1>1 DEF BindInv, Ifaces, Methods_of
    <2>2. Wanting'
        BY <1>1 DEF Wanting
    <2>3. Tables' /\ Binders' /\ RightInterface'
        BY <1>1, Bound_on DEF BindInv, Ifaces
    <2> QED
        BY <2>1, <2>2, <2>3
<1>2. ASSUME UNCHANGED <<setting, pos, init, wants, iface, depends, bound>>, main' = main PROVE Goal
    <2>1. Ifaces' /\ Wanting'
        BY <1>2 DEF BindInv, Ifaces, Wanting, Methods_of, setting, This, Ready
    <2>2. Tables' /\ Binders' /\ RightInterface'
        BY <1>2, Bound_on DEF BindInv, Ifaces, setting
    <2> QED
        BY <2>1, <2>2
<1>3. CASE load
    <2>1. This \in Module /\ wants = <<>>
        BY <1>0, <1>3 DEF load, Main, LoadInv, Loading, Setting, This
    <2> QED
        BY <1>3, <2>1, BindExport DEF load, Main
<1>4. CASE load_missing \/ launch_framework \/ launch_other \/ launch_self \/ start_returns \/ loop_end
    <2>1. /\ UNCHANGED <<imports, iface, depends, bound, wants>> /\ main' \notin {"init", "bind"}
          /\ main \in {"next", "launch", "start"}
        BY <1>4 DEF load_missing, launch_framework, launch_other, launch_self, start_returns, loop_end,
           Main, setting, libs
    <2>2. wants = <<>>
        BY <1>0, <2>1 DEF LoadInv, Loading
    <2> QED
        BY <1>1, <2>1, <2>2
<1>5. CASE RPC_REG
    BY <1>5, BindReg
<1>6. CASE dylib_init_returns
    <2>1. /\ main = "init" /\ init.todo = <<>> /\ main' = IF wants # <<>> THEN "bind" ELSE "on_load"
          /\ UNCHANGED <<setting, pos, wants, iface, depends, bound>>
        BY <1>6 DEF dylib_init_returns, libs
    <2>2. init.lib \in Module /\ Ready(init.lib)
        <3>1. Range(init.todo) = {} /\ init.lib \in Module
            BY <1>0, <2>1 DEF Range, LoadInv, Exporting
        <3> QED
            BY <2>1, <3>1 DEF BindInv, Ifaces, Ready
    <2>3. Ifaces'
        BY <2>1 DEF BindInv, Ifaces, Methods_of
    <2>4. Wanting'
        BY <2>1, <2>2 DEF BindInv, Wanting, Ready, Methods_of, setting, This
    <2>5. Tables' /\ Binders' /\ RightInterface'
        BY <2>1, Bound_on DEF BindInv, Ifaces, setting
    <2> QED
        BY <2>3, <2>4, <2>5
<1>7. CASE on_load
    <2>1. /\ main' = "import" /\ wants' = imports[This] /\ UNCHANGED <<setting, pos, iface, depends, bound>>
        BY <1>7 DEF on_load, Main
    <2> QED
        BY <1>1, <2>1 DEF setting, This, Range
<1>8. CASE import_known
    <2>1. PICK same \in Buckets_of(This) :
             /\ hash_get(depends[This], Hash[Head(wants)], same) # "none"
             /\ Binds(Head(wants), hash_get(depends[This], Hash[Head(wants)], same))
        BY <1>8 DEF import_known
    <2>2. /\ main = "import" /\ wants # <<>> /\ wants' = Tail(wants) /\ main' = "import"
          /\ UNCHANGED <<setting, pos, init, iface, depends>>
        BY <1>8 DEF import_known
    <2>3. Hash[Head(wants)] \in Nat /\ Table(depends[This], Importable(This))
        BY <1>this, <2>2, HashAssumption DEF BindInv, Tables
    <2> DEFINE got == hash_get(depends[This], Hash[Head(wants)], same)
    <2>4. got \in Importable(This) \cup {"none"}
        BY <2>3, Lookup
    <2> HIDE DEF got
    <2>5. Ifaces' /\ Wanting' /\ Binders' /\ RightInterface'
        BY <2>1, <2>2, <2>4, Settled DEF got
    <2>6. Tables'
        BY <2>2 DEF BindInv, Tables, Table, Importable, Ready, setting, Methods_of
    <2> QED
        BY <2>5, <2>6
<1>9. CASE import_missing
    <2>1. /\ main = "import" /\ wants # <<>> /\ wants' = Tail(wants) /\ main' = "import"
          /\ UNCHANGED <<setting, pos, init, iface, depends>> /\ Head(wants) \in NoInterface
          /\ Binds(Head(wants), "none")
        BY <1>9 DEF import_missing, Unknown
    <2>2. Ifaces' /\ Wanting' /\ Binders' /\ RightInterface'
        BY <2>1, Settled
    <2>3. Tables'
        BY <2>1 DEF BindInv, Tables, Table, Importable, Ready, setting, Methods_of
    <2> QED
        BY <2>2, <2>3
<1>10. CASE import_open
    <2>1. /\ main = "import" /\ wants # <<>> /\ main' = "init" /\ EXPORT(Head(wants))
          /\ Head(wants) \notin NoInterface
          /\ UNCHANGED <<setting, pos, wants, iface, depends, bound>>
        BY <1>10 DEF import_open, Unknown
    <2>2. Head(wants) \in Module
        BY <1>this, <2>1
    <2> QED
        BY <2>1, <2>2, BindExport
<1>11. CASE reg_module_depend
    <2>1. PICK same \in Buckets_of(This) :
             depends' = [depends EXCEPT ![This] = hash_set(@, Hash[Head(wants)], same, Head(wants))]
        BY <1>11 DEF reg_module_depend
    <2>2. /\ main = "bind" /\ wants # <<>> /\ wants' = Tail(wants) /\ main' = "import"
          /\ UNCHANGED <<setting, pos, init, iface>> /\ Binds(Head(wants), Head(wants))
        BY <1>0, <1>11 DEF reg_module_depend, Main, LoadInv, Loading
    <2>3. Head(wants) \in Module /\ Hash[Head(wants)] \in Nat /\ This \in Module
        BY <1>this, <2>2, HashAssumption
    <2>4. Head(wants) \in Importable(This)
        <3>1. 1 \in DOMAIN wants /\ Head(wants) = wants[1]
            BY <1>this, <2>2
        <3> QED
            BY <2>2, <3>1 DEF BindInv, Wanting, Importable
    <2>5. Ifaces' /\ Wanting' /\ Binders' /\ RightInterface'
        BY <2>2, <2>4, Settled
    <2> DEFINE h == hash_set(depends[This], Hash[Head(wants)], same, Head(wants))
    <2>6. Table(h, Importable(This))
        <3>1. Table(h, Importable(This) \cup {Head(wants)})
            BY <2>3, Insert DEF BindInv, Tables
        <3>2. Importable(This) \cup {Head(wants)} = Importable(This)
            BY <2>4
        <3> QED
            BY <3>1, <3>2
    <2>7. depends' = [depends EXCEPT ![This] = h]
        BY <2>1
    <2> HIDE DEF h
    <2>8. h \in Tab(0) \cup Tab(3)
        BY <2>6 DEF Table
    <2>9. depends' \in [Module -> Tab(0) \cup Tab(3)] /\ \A m \in Module : Table(depends'[m], Importable(m))
        BY <2>3, <2>6, <2>7, <2>8 DEF BindInv, Tables
    <2>10. \A m \in Module : Importable(m)' = Importable(m)
        BY <2>2 DEF Importable, Ready, setting, Methods_of
    <2>11. Tables'
        BY <2>9, <2>10 DEF Tables, Table, Tab
    <2> QED
        BY <2>5, <2>11
<1>12. CASE on_load_returns
    <2>1. wants' = <<>> /\ main' = "launch" /\ UNCHANGED <<imports, iface, depends, bound>>
        BY <1>12 DEF on_load_returns, Main, libs, setting
    <2> QED
        BY <1>1, <2>1
<1>13. CASE (\E m \in Module : \E me \in Methods_of(m) : call(m, me)) \/ signal \/ notifies \/ UNCHANGED vars
    <2>1. UNCHANGED <<setting, loading, libs>>
        BY <1>13 DEF call, signal, notifies, vars
    <2> QED
        BY <1>2, <2>1 DEF loading, libs
<1> HIDE DEF Goal
<1> QED
    BY <1>3, <1>4, <1>5, <1>6, <1>7, <1>8, <1>9, <1>10, <1>11, <1>12, <1>13 DEF Next

\* Whatever the keys in its table have become, and whatever the modules hash to, a
\* module that imports one id gets that module's interface with every member in
\* place, or NULL if there is no library (module.h, hash.c, khash.h).
THEOREM ImportsRight == Spec => []RightInterface
<1>1. Init => BindInv
    <2> SUFFICES ASSUME Init PROVE BindInv
        OBVIOUS
    <2>1. LoadInv
        BY InitLoad
    <2>2. Ifaces /\ Wanting /\ Binders /\ RightInterface
        BY DEF Init, Ifaces, Wanting, Binders, RightInterface, Methods_of
    <2>3. kh_init \in Tab(0) /\ \A V : Table(kh_init, V)
        BY FreshTable
    <2>4. Tables
        BY <2>3 DEF Init, Tables
    <2> QED
        BY <2>1, <2>2, <2>4 DEF BindInv
<1>2. BindInv /\ [Next]_vars => BindInv'
    BY NextBind
<1>3. BindInv => RightInterface
    BY DEF BindInv
<1> QED
    BY <1>1, <1>2, <1>3, PTL DEF Spec

-----------------------------------------------------------------------------
(***************************************************************************)
(* Strings.  Numbers first: induction over a set, and recursive functions. *)
(***************************************************************************)
\* There is a well-founded relation that contains < on the naturals.
LEMMA LessIsWellFounded ==
    \E R : IsWellFoundedOn(R, Nat) /\ \A a, b \in Nat : a < b => <<a, b>> \in R
<1>1. \A a, b \in Nat : a < b => <<a, b>> \in OpToRel(<, Nat)
    <2> SUFFICES ASSUME NEW a \in Nat, NEW b \in Nat, a < b
                 PROVE  <<a, b>> \in OpToRel(<, Nat)
        BY Zenon
    <2>1. <<a, b>> \in Nat \X Nat /\ <<a, b>>[1] < <<a, b>>[2]
        OBVIOUS
    <2> QED
        BY <2>1, Zenon DEF OpToRel
<1> QED
    BY <1>1, NatLessThanWellFounded, Zenon

\* A set of naturals that is not empty has a least element.
LEMMA LeastElement ==
    ASSUME NEW T, T \subseteq Nat, T # {}
    PROVE  \E i \in T : \A j \in T : i <= j
<1>1. PICK R : IsWellFoundedOn(R, Nat) /\ \A a, b \in Nat : a < b => <<a, b>> \in R
    BY LessIsWellFounded, Zenon
<1>2. IsWellFoundedOn(R, Nat)
    BY <1>1, Zenon
<1>3. PICK i \in T : \A j \in T : ~ (<<j, i>> \in R)
    BY <1>2, WFMin, Zenon
<1>4. ASSUME NEW j \in T PROVE i <= j
    <2>1. i \in Nat /\ j \in Nat
        OBVIOUS
    <2>2. ~ (j < i)
        BY <1>1, <1>3, <2>1, Zenon
    <2> QED
        BY <2>1, <2>2
<1> QED
    BY <1>4

\* Min of FiniteSetsExt.
LEMMA MinIs ==
    ASSUME NEW T, T \subseteq Nat, T # {}
    PROVE  Min(T) \in T /\ \A j \in T : Min(T) <= j
<1>1. \E i \in T : \A j \in T : i <= j
    BY LeastElement
<1> QED
    BY <1>1, Zenon DEF Min

\* Induction: a set that holds 0 and with every number the next one.
LEMMA Inductive ==
    ASSUME NEW T, 0 \in T, \A i \in Nat : i \in T => i + 1 \in T
    PROVE  \A i \in Nat : i \in T
<1> DEFINE U == {i \in Nat : i \notin T}
<1> SUFFICES ASSUME U # {} PROVE FALSE
    OBVIOUS
<1>1. PICK m \in U : \A j \in U : m <= j
    <2>1. U \subseteq Nat
        OBVIOUS
    <2> QED
        BY <2>1, LeastElement
<1>2. m \in Nat /\ m # 0 /\ m \notin T
    OBVIOUS
<1>3. m - 1 \in Nat /\ (m - 1) + 1 = m /\ ~ (m <= m - 1)
    BY <1>2
<1>4. m - 1 \in T
    BY <1>1, <1>3
<1> QED
    BY <1>2, <1>3, <1>4

\* The same up to n.
LEMMA InductiveUpTo ==
    ASSUME NEW n \in Nat, NEW T, 0 \in T, \A i \in 0 .. n - 1 : i \in T => i + 1 \in T
    PROVE  \A i \in 0 .. n : i \in T
<1> DEFINE U == {i \in Nat : i <= n => i \in T}
<1>1. 0 \in U
    OBVIOUS
<1>2. \A i \in Nat : i \in U => i + 1 \in U
    <2> SUFFICES ASSUME NEW i \in Nat, i \in U, i + 1 <= n PROVE i + 1 \in T
        OBVIOUS
    <2>1. i \in 0 .. n - 1 /\ i \in T
        OBVIOUS
    <2> QED
        BY <2>1
<1> HIDE DEF U
<1>3. \A i \in Nat : i \in U
    BY <1>1, <1>2, Inductive
<1> QED
    BY <1>3 DEF U

\* A function may be defined by its value at 0 and each value by the one before.
Begun(f, n, V, a, G) ==
    f \in [0 .. n -> V] /\ f[0] = a /\ \A i \in 0 .. n - 1 : f[i + 1] = G[i][f[i]]

LEMMA Recursion ==
    ASSUME NEW V, NEW a \in V, NEW G \in [Nat -> [V -> V]], NEW n \in Nat
    PROVE  \E f : Begun(f, n, V, a, G)
<1> DEFINE T == {k \in Nat : \E f : Begun(f, k, V, a, G)}
<1>1. 0 \in T
    <2>1. Begun([i \in 0 .. 0 |-> a], 0, V, a, G)
        BY DEF Begun
    <2> QED
        BY <2>1
<1>2. \A k \in Nat : k \in T => k + 1 \in T
    <2> SUFFICES ASSUME NEW k \in Nat, NEW f, Begun(f, k, V, a, G)
                 PROVE  \E g : Begun(g, k + 1, V, a, G)
        OBVIOUS
    <2> DEFINE g == [i \in 0 .. k + 1 |-> IF i <= k THEN f[i] ELSE G[k][f[k]]]
    <2>1. f \in [0 .. k -> V] /\ f[0] = a /\ \A i \in 0 .. k - 1 : f[i + 1] = G[i][f[i]]
        BY DEF Begun
    <2>2. f[k] \in V /\ G[k][f[k]] \in V
        BY <2>1
    <2>3. g \in [0 .. k + 1 -> V] /\ g[0] = a
        BY <2>1, <2>2
    <2>4. ASSUME NEW i \in 0 .. (k + 1) - 1 PROVE g[i + 1] = G[i][g[i]]
        <3>1. i \in 0 .. k /\ i \in 0 .. k + 1 /\ i + 1 \in 0 .. k + 1 /\ g[i] = f[i]
            OBVIOUS
        <3>2. CASE i = k
            BY <3>1, <3>2
        <3>3. CASE i # k
            <4>1. i \in 0 .. k - 1 /\ i + 1 <= k
                BY <3>1, <3>3
            <4> QED
                BY <2>1, <3>1, <4>1
        <3> QED
            BY <3>2, <3>3
    <2> HIDE DEF g
    <2>5. Begun(g, k + 1, V, a, G)
        BY <2>3, <2>4 DEF Begun
    <2> QED
        BY <2>5
<1> HIDE DEF T
<1>3. n \in T
    BY <1>1, <1>2, Inductive
<1> QED
    BY <1>3 DEF T

-----------------------------------------------------------------------------
(* The buffer. *)

Cell == Char \cup {NUL}

\* A string object; what its buffer holds is another matter.
Raw(s) ==
    /\ s = [buf |-> s.buf, length |-> s.length, capacity |-> s.capacity]
    /\ s.capacity \in Nat /\ DEFAULT_STRING_LEN <= s.capacity /\ s.length \in 0 .. s.capacity
    /\ s.buf \in [0 .. s.capacity -> Cell] /\ s.buf[s.capacity] = NUL

\* s is the string of the text t: both lengths are that of t.
Holds(s, t) ==
    /\ Raw(s) /\ t \in Seq(Char) /\ s.length = Len(t)
    /\ s.buf[Len(t)] = NUL /\ \A k \in 1 .. Len(t) : s.buf[k - 1] = t[k]

LEMMA NewIs ==
    ASSUME NEW len \in Nat
    PROVE  LET s == str_new__len(len) IN
           Raw(s) /\ len <= s.capacity /\ s.length = 0 /\ \A k \in 0 .. s.capacity : s.buf[k] = NUL
<1> DEFINE cap == Larger(len, DEFAULT_STRING_LEN)
<1>1. cap \in Nat /\ len <= cap /\ DEFAULT_STRING_LEN <= cap
    BY BoundAssumption DEF Larger
<1> HIDE DEF cap
<1>2. str_new__len(len) = [buf |-> [k \in 0 .. cap |-> NUL], length |-> 0, capacity |-> cap]
    BY DEF str_new__len, cap
<1> QED
    BY <1>1, <1>2 DEF Raw, Cell

LEMMA CopyIs ==
    ASSUME NEW s, Raw(s), NEW at \in Nat, NEW t \in Seq(Cell),
           \/ at + Len(t) <= s.capacity
           \/ at + Len(t) = s.capacity + 1 /\ t[Len(t)] = NUL
    PROVE  LET r == MemCpy(s, at, t) IN
           /\ Raw(r) /\ r.length = s.length /\ r.capacity = s.capacity
           /\ \A k \in 0 .. s.capacity :
                 r.buf[k] = IF at <= k /\ k < at + Len(t) THEN t[k - at + 1] ELSE s.buf[k]
<1> DEFINE b == [k \in 0 .. s.capacity |-> IF k - at + 1 \in DOMAIN t THEN t[k - at + 1] ELSE s.buf[k]]
<1>1. /\ s = [buf |-> s.buf, length |-> s.length, capacity |-> s.capacity]
      /\ s.capacity \in Nat /\ DEFAULT_STRING_LEN <= s.capacity /\ s.length \in 0 .. s.capacity
      /\ s.buf \in [0 .. s.capacity -> Cell] /\ s.buf[s.capacity] = NUL
    BY DEF Raw
<1>2. Len(t) \in Nat /\ DOMAIN t = 1 .. Len(t) /\ \A k \in 1 .. Len(t) : t[k] \in Cell
    OBVIOUS
<1>3. MemCpy(s, at, t) = [buf |-> b, length |-> s.length, capacity |-> s.capacity]
    <2>1. DOMAIN s.buf = 0 .. s.capacity
        BY <1>1
    <2>2. MemCpy(s, at, t) = [s EXCEPT !.buf = b]
        BY <2>1 DEF MemCpy
    <2> HIDE DEF b
    <2> QED
        BY <1>1, <2>2
<1>4. \A k \in 0 .. s.capacity : k - at + 1 \in DOMAIN t <=> at <= k /\ k < at + Len(t)
    BY <1>1, <1>2
<1>5. \A k \in 0 .. s.capacity : b[k] = IF at <= k /\ k < at + Len(t) THEN t[k - at + 1] ELSE s.buf[k]
    BY <1>4
<1>6. b \in [0 .. s.capacity -> Cell]
    BY <1>1, <1>2
<1> HIDE DEF b
<1>8. b[s.capacity] = NUL
    <2>1. s.capacity \in 0 .. s.capacity
        BY <1>1
    <2>2. CASE at + Len(t) <= s.capacity
        BY <1>1, <1>2, <1>5, <2>1, <2>2
    <2>3. CASE at + Len(t) = s.capacity + 1 /\ t[Len(t)] = NUL
        <3>1. s.capacity - at + 1 = Len(t) /\ s.capacity < at + Len(t)
            BY <1>1, <1>2, <2>3
        <3> QED
            BY <1>1, <1>5, <2>1, <2>3, <3>1
    <2> QED
        BY <2>2, <2>3
<1>7. Raw([buf |-> b, length |-> s.length, capacity |-> s.capacity])
    BY <1>1, <1>6, <1>8 DEF Raw
<1> QED
    BY <1>3, <1>5, <1>7

LEMMA BytesAre ==
    ASSUME NEW s, NEW m \in Nat, NEW n \in Nat, m <= n, NEW S,
           \A k \in m .. n - 1 : s.buf[k] \in S
    PROVE  /\ Bytes(s, m, n) \in Seq(S) /\ Len(Bytes(s, m, n)) = n - m
           /\ \A k \in 1 .. n - m : Bytes(s, m, n)[k] = s.buf[m + k - 1]
<1>1. n - m \in Nat /\ \A k \in 1 .. n - m : m + k - 1 \in m .. n - 1
    OBVIOUS
<1> QED
    BY <1>1 DEF Bytes

LEMMA ResizeIs ==
    ASSUME NEW s, Raw(s), NEW size \in Nat
    PROVE  LET r == str_resize(s, size) IN
           /\ Raw(r) /\ r.length = size /\ r.buf[size] = NUL /\ s.capacity <= r.capacity
           /\ \A k \in 0 .. size - 1 : k < s.length \/ size <= s.capacity => r.buf[k] = s.buf[k]
<1> DEFINE r == IF size > s.capacity THEN str_realloc(s, size) ELSE s
<1>1. /\ s.capacity \in Nat /\ s.length \in 0 .. s.capacity /\ s.buf \in [0 .. s.capacity -> Cell]
      /\ NUL \in Cell
    BY DEF Raw, Cell
<1>2. /\ Raw(r) /\ size <= r.capacity /\ s.capacity <= r.capacity
      /\ \A k \in 0 .. size - 1 : k < s.length \/ size <= s.capacity => r.buf[k] = s.buf[k]
    <2>1. CASE size <= s.capacity
        BY <1>1, <2>1
    <2>2. CASE size > s.capacity
        <3> DEFINE t == Bytes(s, 0, s.length)
                   c == MemCpy(str_new__len(size), 0, t)
        <3>1. /\ t \in Seq(Cell) /\ Len(t) = s.length
              /\ \A k \in 1 .. s.length : t[k] = s.buf[k - 1]
            <4>1. \A k \in 0 .. s.length - 1 : s.buf[k] \in Cell
                BY <1>1
            <4>2. s.length \in Nat /\ 0 \in Nat /\ 0 <= s.length
                BY <1>1
            <4> HIDE DEF t
            <4>3. /\ t \in Seq(Cell) /\ Len(t) = s.length - 0
                  /\ \A k \in 1 .. s.length - 0 : t[k] = s.buf[0 + k - 1]
                BY <4>1, <4>2, BytesAre DEF t
            <4> QED
                BY <4>2, <4>3
        <3> HIDE DEF t
        <3>2. /\ Raw(c) /\ size <= c.capacity
              /\ \A k \in 0 .. c.capacity : k < s.length => c.buf[k] = t[k + 1]
            <4>1. Raw(str_new__len(size)) /\ size <= str_new__len(size).capacity
                BY NewIs
            <4>3. 0 + Len(t) <= str_new__len(size).capacity
                BY <1>1, <2>2, <3>1, <4>1 DEF Raw
            <4>2. /\ Raw(c) /\ c.capacity = str_new__len(size).capacity
                  /\ \A k \in 0 .. str_new__len(size).capacity :
                        c.buf[k] = IF 0 <= k /\ k < 0 + Len(t) THEN t[k - 0 + 1] ELSE str_new__len(size).buf[k]
                BY <3>1, <4>1, <4>3, CopyIs
            <4> HIDE DEF c
            <4> DEFINE d == str_new__len(size)
            <4>4. c.capacity = d.capacity /\ size <= d.capacity
                BY <4>1, <4>2
            <4>5. \A k \in 0 .. d.capacity : c.buf[k] = IF 0 <= k /\ k < 0 + Len(t) THEN t[k - 0 + 1] ELSE d.buf[k]
                BY <4>2
            <4> HIDE DEF d
            <4>6. Len(t) = s.length /\ s.length \in Nat /\ \A k \in 0 .. d.capacity : k - 0 + 1 = k + 1 /\ 0 <= k
                BY <1>1, <3>1
            <4>7. \A k \in 0 .. c.capacity : k < s.length => c.buf[k] = t[k + 1]
                BY <4>4, <4>5, <4>6
            <4> QED
                BY <4>2, <4>4, <4>7
        <3> HIDE DEF c
        <3>3. r = [c EXCEPT !.length = s.length]
            BY <2>2 DEF str_realloc, c, t
        <3>4. Raw(r) /\ r.capacity = c.capacity /\ r.buf = c.buf
            BY <1>1, <2>2, <3>2, <3>3 DEF Raw
        <3> HIDE DEF r
        <3>5. \A k \in 0 .. size - 1 : k < s.length => r.buf[k] = s.buf[k]
            <4> SUFFICES ASSUME NEW k \in 0 .. size - 1, k < s.length PROVE r.buf[k] = s.buf[k]
                OBVIOUS
            <4>1. c.capacity \in Nat /\ s.length \in Nat
                BY <1>1, <3>2 DEF Raw
            <4>2. k \in 0 .. c.capacity /\ k + 1 \in 1 .. s.length /\ (k + 1) - 1 = k
                BY <3>2, <4>1
            <4>3. c.buf[k] = t[k + 1] /\ t[k + 1] = s.buf[(k + 1) - 1]
                BY <3>1, <3>2, <4>2
            <4> QED
                BY <3>4, <4>2, <4>3
        <3>6. s.capacity <= r.capacity /\ size <= r.capacity /\ ~ (size <= s.capacity)
            <4>1. c.capacity \in Nat
                BY <3>2 DEF Raw
            <4> QED
                BY <1>1, <2>2, <3>2, <3>4, <4>1
        <3> QED
            BY <3>4, <3>5, <3>6
    <2> QED
        BY <1>1, <2>1, <2>2
<1>3. str_resize(s, size) = [r EXCEPT !.buf[size] = NUL, !.length = size]
    BY DEF str_resize
<1> HIDE DEF r
<1>4. /\ r = [buf |-> r.buf, length |-> r.length, capacity |-> r.capacity]
      /\ r.capacity \in Nat /\ r.buf \in [0 .. r.capacity -> Cell]
      /\ DEFAULT_STRING_LEN <= r.capacity /\ r.buf[r.capacity] = NUL
    BY <1>2 DEF Raw
<1> DEFINE b == [r.buf EXCEPT ![size] = NUL]
<1>5. str_resize(s, size) = [buf |-> b, length |-> size, capacity |-> r.capacity]
    BY <1>3, <1>4
<1>6. b \in [0 .. r.capacity -> Cell] /\ b[size] = NUL /\ b[r.capacity] = NUL /\ \A k \in 0 .. size - 1 : b[k] = r.buf[k]
    BY <1>1, <1>2, <1>4
<1> HIDE DEF b
<1>7. Raw([buf |-> b, length |-> size, capacity |-> r.capacity])
    BY <1>2, <1>4, <1>6 DEF Raw
<1> QED
    BY <1>2, <1>5, <1>6, <1>7

-----------------------------------------------------------------------------
(* What the operations leave. *)

\* w begins with u, whatever comes then.
Says(w, u) ==
    Raw(w) /\ u \in Seq(Char) /\ Len(u) <= w.capacity /\ \A k \in 1 .. Len(u) : w.buf[k - 1] = u[k]

LEMMA SaysNothing ==
    ASSUME NEW len \in Nat
    PROVE  Says(str_new__len(len), <<>>) /\ len <= str_new__len(len).capacity
<1>1. str_new__len(len).capacity \in Nat
    BY NewIs DEF Raw
<1> QED
    BY <1>1, NewIs DEF Says

LEMMA SaysMore ==
    ASSUME NEW w, NEW u, Says(w, u), NEW v \in Seq(Char), Len(u) + Len(v) <= w.capacity
    PROVE  Says(MemCpy(w, Len(u), v), u \o v) /\ MemCpy(w, Len(u), v).capacity = w.capacity
<1>1. /\ Raw(w) /\ w.capacity \in Nat /\ u \in Seq(Char) /\ \A k \in 1 .. Len(u) : w.buf[k - 1] = u[k]
      /\ Len(u) \in Nat /\ Len(v) \in Nat
    BY DEF Says, Raw
<1>2. v \in Seq(Cell)
    BY SeqMonotonic DEF Cell
<1> DEFINE r == MemCpy(w, Len(u), v)
<1>6. Len(u) + Len(v) <= w.capacity
    OBVIOUS
<1>3. /\ Raw(r) /\ r.capacity = w.capacity
      /\ \A k \in 0 .. w.capacity :
            r.buf[k] = IF Len(u) <= k /\ k < Len(u) + Len(v) THEN v[k - Len(u) + 1] ELSE w.buf[k]
    BY <1>1, <1>2, <1>6, CopyIs
<1>4. /\ u \o v \in Seq(Char) /\ Len(u \o v) = Len(u) + Len(v)
      /\ \A k \in 1 .. Len(u) + Len(v) : (u \o v)[k] = IF k <= Len(u) THEN u[k] ELSE v[k - Len(u)]
    BY <1>1
<1> HIDE DEF r
<1>5. ASSUME NEW k \in 1 .. Len(u) + Len(v) PROVE r.buf[k - 1] = (u \o v)[k]
    <2>1. k - 1 \in 0 .. w.capacity /\ (k - 1) - Len(u) + 1 = k - Len(u)
        BY <1>1
    <2>2. CASE k <= Len(u)
        BY <1>1, <1>3, <1>4, <2>1, <2>2
    <2>3. CASE ~ (k <= Len(u))
        <3>1. Len(u) <= k - 1 /\ k - 1 < Len(u) + Len(v)
            BY <1>1, <2>3
        <3> QED
            BY <1>3, <1>4, <2>1, <2>3, <3>1
    <2> QED
        BY <2>2, <2>3
<1> QED
    BY <1>3, <1>4, <1>5 DEF Says, r

\* str_resize to the length of what the buffer says makes a string of it.
LEMMA Finished ==
    ASSUME NEW w, NEW u, Says(w, u)
    PROVE  Holds(str_resize(w, Len(u)), u)
<1>1. Raw(w) /\ w.capacity \in Nat /\ u \in Seq(Char) /\ Len(u) \in Nat /\ Len(u) <= w.capacity
    BY DEF Says, Raw
<1> DEFINE r == str_resize(w, Len(u))
<1>2. /\ Raw(r) /\ r.length = Len(u) /\ r.buf[Len(u)] = NUL
      /\ \A k \in 0 .. Len(u) - 1 : r.buf[k] = w.buf[k]
    BY <1>1, ResizeIs
<1> HIDE DEF r
<1>3. \A k \in 1 .. Len(u) : k - 1 \in 0 .. Len(u) - 1
    BY <1>1
<1>4. \A k \in 1 .. Len(u) : r.buf[k - 1] = u[k]
    BY <1>2, <1>3 DEF Says
<1> QED
    BY <1>1, <1>2, <1>4 DEF Holds, r

LEMMA HoldsSays ==
    ASSUME NEW s, NEW t, Holds(s, t)
    PROVE  /\ Says(s, t) /\ s # Wild /\ Len(t) \in Nat /\ s.capacity \in Nat /\ Len(t) <= s.capacity
           /\ s.buf[Len(t)] = NUL /\ s.length = Len(t) /\ t \in Seq(Char)
<1>1. s.buf \in [0 .. s.capacity -> Cell] /\ s.capacity \in Nat /\ s.length \in 0 .. s.capacity
    BY DEF Holds, Raw
<1>2. s # Wild
    <2>1. DOMAIN s.buf # {}
        BY <1>1
    <2> QED
        BY <2>1 DEF Wild
<1> QED
    BY <1>1, <1>2 DEF Holds, Says

\* b are the characters m + 1 .. n of t.
IsPart(b, t, m, n) ==
    b = SubSeq(t, m + 1, n) /\ b \in Seq(Char) /\ Len(b) = n - m /\ \A k \in 1 .. n - m : b[k] = t[m + k]

\* Bytes of a string are a part of its text.
LEMMA PartIs ==
    ASSUME NEW s, NEW t, Holds(s, t), NEW m \in Nat, NEW n \in Nat, m <= n, n <= Len(t)
    PROVE  IsPart(Bytes(s, m, n), t, m, n)
<1>1. t \in Seq(Char) /\ Len(t) \in Nat /\ \A k \in 1 .. Len(t) : s.buf[k - 1] = t[k] /\ t[k] \in Char
    BY DEF Holds
<1>2. \A k \in m .. n - 1 : k + 1 \in 1 .. Len(t) /\ (k + 1) - 1 = k
    BY <1>1
<1>3. \A k \in m .. n - 1 : s.buf[k] = t[k + 1] /\ s.buf[k] \in Char
    BY <1>1, <1>2
<1>4. /\ Bytes(s, m, n) \in Seq(Char) /\ Len(Bytes(s, m, n)) = n - m
      /\ \A k \in 1 .. n - m : Bytes(s, m, n)[k] = s.buf[m + k - 1]
    <2>1. \A k \in m .. n - 1 : s.buf[k] \in Char
        BY <1>3
    <2> QED
        BY <2>1, BytesAre
<1>5. \A k \in 1 .. n - m : Bytes(s, m, n)[k] = t[m + k]
    <2> SUFFICES ASSUME NEW k \in 1 .. n - m PROVE Bytes(s, m, n)[k] = t[m + k]
        OBVIOUS
    <2>1. m + k - 1 \in m .. n - 1 /\ (m + k - 1) + 1 = m + k
        OBVIOUS
    <2> QED
        BY <1>3, <1>4, <2>1
<1> HIDE DEF Bytes
<1>6. SubSeq(t, m + 1, n) \in Seq(Char) /\ Len(SubSeq(t, m + 1, n)) = n - m
      /\ \A k \in 1 .. n - m : SubSeq(t, m + 1, n)[k] = t[m + k]
    <2>1. \A k \in m + 1 .. n : t[k] \in Char
        BY <1>1
    <2>2. m + 1 \in Int /\ n \in Int
        OBVIOUS
    <2>3. /\ SubSeq(t, m + 1, n) \in Seq(Char)
          /\ Len(SubSeq(t, m + 1, n)) = IF m + 1 <= n THEN n - (m + 1) + 1 ELSE 0
          /\ \A k \in 1 .. n - (m + 1) + 1 : SubSeq(t, m + 1, n)[k] = t[(m + 1) + k - 1]
        BY <2>1, <2>2, SubSeqProperties
    <2> QED
        BY <2>3
<1>7. Bytes(s, m, n) = SubSeq(t, m + 1, n)
    BY <1>4, <1>5, <1>6, SeqEqual
<1> QED
    BY <1>4, <1>5, <1>7 DEF IsPart

LEMMA TextIs ==
    ASSUME NEW s, NEW t, Holds(s, t)
    PROVE  Bytes(s, 0, s.length) = t
<1>1. t \in Seq(Char) /\ Len(t) \in Nat /\ s.length = Len(t)
    BY HoldsSays
<1>2. PICK n \in Nat : n = Len(t)
    BY <1>1
<1>3. 0 <= n /\ n <= Len(t)
    BY <1>2
<1>4. Bytes(s, 0, n) = SubSeq(t, 0 + 1, n)
    BY <1>3, PartIs DEF IsPart
<1>5. SubSeq(t, 0 + 1, n) = SubSeq(t, 1, n)
    BY <1>2
<1> QED
    BY <1>1, <1>2, <1>4, <1>5, SubSeqFull

LEMMA CopyHolds ==
    ASSUME NEW s, NEW t, Holds(s, t), NEW c \in Seq(Char)
    PROVE  Holds(MemCpy(str_resize(s, Len(c)), 0, c), c)
<1> DEFINE r == str_resize(s, Len(c))
           w == MemCpy(r, 0, c)
<1>1. Len(c) \in Nat /\ Raw(s) /\ c \in Seq(Cell)
    BY SeqMonotonic DEF Holds, Cell
<1>2. Raw(r) /\ r.length = Len(c) /\ r.buf[Len(c)] = NUL
    BY <1>1, ResizeIs
<1>3. r.capacity \in Nat /\ Len(c) <= r.capacity
    BY <1>2 DEF Raw
<1> HIDE DEF r
<1>7. 0 + Len(c) <= r.capacity
    BY <1>1, <1>3
<1>4. /\ Raw(w) /\ w.length = Len(c)
      /\ \A k \in 0 .. r.capacity : w.buf[k] = IF 0 <= k /\ k < 0 + Len(c) THEN c[k - 0 + 1] ELSE r.buf[k]
    BY <1>1, <1>2, <1>7, CopyIs
<1>5. w.buf[Len(c)] = NUL
    BY <1>1, <1>2, <1>3, <1>4
<1>6. \A k \in 1 .. Len(c) : w.buf[k - 1] = c[k]
    <2> SUFFICES ASSUME NEW k \in 1 .. Len(c) PROVE w.buf[k - 1] = c[k]
        OBVIOUS
    <2>1. k - 1 \in 0 .. r.capacity /\ k - 1 < 0 + Len(c) /\ (k - 1) - 0 + 1 = k
        BY <1>1, <1>3
    <2> QED
        BY <1>4, <2>1
<1> HIDE DEF w
<1> QED
    BY <1>4, <1>5, <1>6 DEF Holds, w, r

LEMMA EraseHolds ==
    ASSUME NEW s, NEW t, Holds(s, t)
    PROVE  Holds([s EXCEPT !.length = 0, !.buf[0] = NUL], <<>>)
<1>1. /\ s = [buf |-> s.buf, length |-> s.length, capacity |-> s.capacity]
      /\ s.capacity \in Nat /\ DEFAULT_STRING_LEN <= s.capacity /\ s.buf[s.capacity] = NUL
      /\ s.buf \in [0 .. s.capacity -> Cell] /\ NUL \in Cell
    BY DEF Holds, Raw, Cell
<1> DEFINE b == [s.buf EXCEPT ![0] = NUL]
<1>2. PICK e : e = [s EXCEPT !.length = 0, !.buf[0] = NUL]
    OBVIOUS
<1>3. e = [buf |-> b, length |-> 0, capacity |-> s.capacity]
    BY <1>1, <1>2
<1>4. b \in [0 .. s.capacity -> Cell] /\ b[0] = NUL /\ b[s.capacity] = NUL
    BY <1>1
<1> HIDE DEF b
<1>5. Raw(e) /\ e.length = 0 /\ e.buf = b
    BY <1>1, <1>3, <1>4 DEF Raw
<1>6. <<>> \in Seq(Char) /\ Len(<<>>) = 0 /\ \A k \in 1 .. 0 : FALSE
    OBVIOUS
<1>7. Holds(e, <<>>)
    BY <1>4, <1>5, <1>6 DEF Holds
<1> QED
    BY <1>2, <1>7

LEMMA ShrinkHolds ==
    ASSUME NEW s, NEW t, Holds(s, t), NEW n \in Nat, n <= Len(t)
    PROVE  Holds(str_resize(s, n), SubSeq(t, 1, n))
<1>1. Says(s, t) /\ Len(t) \in Nat /\ s.capacity \in Nat /\ Len(t) <= s.capacity /\ t \in Seq(Char)
    BY HoldsSays
<1> DEFINE u == SubSeq(t, 1, n)
<1>2. u \in Seq(Char) /\ Len(u) = n /\ \A k \in 1 .. n : u[k] = t[k]
    BY <1>1
<1> HIDE DEF u
<1>3. Says(s, u)
    <2>1. Raw(s) /\ \A k \in 1 .. Len(t) : s.buf[k - 1] = t[k]
        BY <1>1, Zenon DEF Says
    <2>2. ASSUME NEW k \in 1 .. Len(u) PROVE s.buf[k - 1] = u[k]
        <3>1. k \in 1 .. n /\ k \in 1 .. Len(t)
            BY <1>1, <1>2
        <3> QED
            BY <1>2, <2>1, <3>1, Zenon
    <2>3. Len(u) <= s.capacity
        BY <1>1, <1>2
    <2> QED
        BY <1>2, <2>1, <2>2, <2>3, Zenon DEF Says
<1> QED
    BY <1>2, <1>3, Finished DEF u

LEMMA AppendHolds ==
    ASSUME NEW s, NEW t, Holds(s, t), NEW c \in Seq(Char)
    PROVE  Holds(MemCpy(str_resize(s, s.length + Len(c)), s.length, Append(c, NUL)), t \o c)
<1> DEFINE n == Len(t)
           r == str_resize(s, n + Len(c))
           w == MemCpy(r, n, Append(c, NUL))
           a == Append(c, NUL)
<1>1. /\ s.length = n /\ n \in Nat /\ Len(c) \in Nat /\ Raw(s) /\ t \in Seq(Char)
      /\ \A k \in 1 .. n : s.buf[k - 1] = t[k]
    BY DEF Holds
<1>2. /\ a \in Seq(Cell) /\ Len(a) = Len(c) + 1 /\ a[Len(c) + 1] = NUL
      /\ \A k \in 1 .. Len(c) : a[k] = c[k]
    <2>1. c \in Seq(Cell) /\ NUL \in Cell
        BY SeqMonotonic DEF Cell
    <2> QED
        BY <2>1, AppendProperties
<1>3. /\ Raw(r) /\ r.length = n + Len(c) /\ r.capacity \in Nat /\ n + Len(c) <= r.capacity
      /\ \A k \in 0 .. n - 1 : r.buf[k] = s.buf[k]
    <2>1. n + Len(c) \in Nat
        BY <1>1
    <2>2. /\ Raw(r) /\ r.length = n + Len(c)
          /\ \A k \in 0 .. (n + Len(c)) - 1 : k < s.length \/ n + Len(c) <= s.capacity => r.buf[k] = s.buf[k]
        BY <1>1, <2>1, ResizeIs
    <2> HIDE DEF r
    <2>3. r.capacity \in Nat /\ r.length <= r.capacity
        BY <2>2 DEF Raw
    <2> QED
        BY <1>1, <2>2, <2>3
<1> HIDE DEF r, a
<1>9. \/ n + Len(a) <= r.capacity
      \/ n + Len(a) = r.capacity + 1 /\ a[Len(a)] = NUL
    <2>1. Len(a) = Len(c) + 1 /\ a[Len(a)] = NUL
        BY <1>2
    <2>2. n + Len(c) < r.capacity \/ n + Len(c) = r.capacity
        <3>1. n + Len(c) \in Nat /\ r.capacity \in Nat /\ n + Len(c) <= r.capacity
            BY <1>1, <1>3
        <3>2. \A x, y \in Nat : x <= y => x < y \/ x = y
            OBVIOUS
        <3> QED
            BY <3>1, <3>2, Zenon
    <2> QED
        BY <1>1, <1>3, <2>1, <2>2
<1>4. /\ Raw(w) /\ w.length = n + Len(c)
      /\ \A k \in 0 .. r.capacity : w.buf[k] = IF n <= k /\ k < n + Len(a) THEN a[k - n + 1] ELSE r.buf[k]
    BY <1>1, <1>2, <1>3, <1>9, CopyIs DEF a
<1> HIDE DEF w
<1>5. /\ t \o c \in Seq(Char) /\ Len(t \o c) = n + Len(c)
      /\ \A k \in 1 .. n + Len(c) : (t \o c)[k] = IF k <= n THEN t[k] ELSE c[k - n]
    BY <1>1
<1>6. w.buf[n + Len(c)] = NUL
    <2>1. n + Len(c) \in 0 .. r.capacity /\ n <= n + Len(c) /\ n + Len(c) < n + Len(a)
          /\ (n + Len(c)) - n + 1 = Len(c) + 1
        BY <1>1, <1>2, <1>3
    <2> QED
        BY <1>2, <1>4, <2>1
<1>7. \A k \in 1 .. n + Len(c) : w.buf[k - 1] = (t \o c)[k]
    <2> SUFFICES ASSUME NEW k \in 1 .. n + Len(c) PROVE w.buf[k - 1] = (t \o c)[k]
        OBVIOUS
    <2>1. k - 1 \in 0 .. r.capacity /\ (k - 1) - n + 1 = k - n
        BY <1>1, <1>3
    <2>2. CASE k <= n
        <3>1. k - 1 \in 0 .. n - 1 /\ ~ (n <= k - 1) /\ k \in 1 .. n
            BY <1>1, <2>2
        <3> QED
            BY <1>1, <1>3, <1>4, <1>5, <2>1, <2>2, <3>1
    <2>3. CASE ~ (k <= n)
        <3>1. n <= k - 1 /\ k - 1 < n + Len(a) /\ k - n \in 1 .. Len(c)
            BY <1>1, <1>2, <2>3
        <3> QED
            BY <1>2, <1>4, <1>5, <2>1, <2>3, <3>1
    <2> QED
        BY <2>2, <2>3
<1>8. Holds(w, t \o c)
    BY <1>4, <1>5, <1>6, <1>7 DEF Holds
<1> QED
    BY <1>1, <1>8 DEF w, r, a

LEMMA CstrHolds ==
    ASSUME NEW c \in Seq(Char)
    PROVE  Holds(str_new__cstr(c), c)
<1> DEFINE new == str_new__len(Len(c))
           w == MemCpy(new, 0, c)
<1>1. PICK n \in Nat : n = Len(c)
    OBVIOUS
<1>2. Says(new, <<>>) /\ n <= new.capacity
    BY <1>1, SaysNothing
<1>3. Says(MemCpy(new, Len(<<>>), c), <<>> \o c)
    <2>1. Len(<<>>) + Len(c) <= new.capacity
        BY <1>1, <1>2
    <2> HIDE DEF new
    <2> QED
        BY <1>2, <2>1, SaysMore
<1>4. Len(<<>>) = 0 /\ <<>> \o c = c
    OBVIOUS
<1>5. Says(w, c)
    BY <1>3, <1>4
<1> HIDE DEF w
<1>6. Holds(str_resize(w, Len(c)), c)
    BY <1>5, Finished
<1> QED
    BY <1>6 DEF str_new__cstr, w

\* The first '\0' from a position inside the text on is behind the text.
LEMMA LengthIs ==
    ASSUME NEW s, NEW t, Holds(s, t), NEW m \in Nat, m <= Len(t)
    PROVE  StrLen(s, m) = Len(t) - m
<1> DEFINE T == {k \in m .. s.capacity : s.buf[k] = NUL}
<1>1. /\ s.capacity \in Nat /\ Len(t) \in Nat /\ Len(t) <= s.capacity /\ s.buf[Len(t)] = NUL
      /\ t \in Seq(Char)
    BY HoldsSays
<1>2. Len(t) \in T
    BY <1>1
<1>3. ASSUME NEW k \in T PROVE Len(t) <= k
    <2>1. k \in Nat /\ s.buf[k] = NUL
        OBVIOUS
    <2> SUFFICES ASSUME k < Len(t) PROVE FALSE
        BY <1>1, <2>1
    <2>2. k + 1 \in 1 .. Len(t) /\ (k + 1) - 1 = k
        BY <1>1, <2>1
    <2>3. s.buf[(k + 1) - 1] = t[k + 1] /\ t[k + 1] \in Char
        BY <1>1, <2>2 DEF Holds
    <2> QED
        BY <2>1, <2>2, <2>3, CharAssumption
<1>4. T \subseteq Nat
    OBVIOUS
<1>7. StrLen(s, m) = Min(T) - m
    BY DEF StrLen
<1> HIDE DEF T
<1>5. Min(T) \in T /\ \A j \in T : Min(T) <= j
    BY <1>2, <1>4, MinIs
<1>6. Min(T) = Len(t)
    <2>1. PICK x : x = Min(T)
        OBVIOUS
    <2>2. x \in T /\ x \in Nat /\ x <= Len(t)
        BY <1>2, <1>4, <1>5, <2>1
    <2>3. Len(t) <= x
        BY <1>3, <2>2
    <2> QED
        BY <1>1, <2>1, <2>2, <2>3
<1> QED
    BY <1>6, <1>7

\* A piece of a string, taken as a string of its own.
LEMMA PieceHolds ==
    ASSUME NEW s, NEW t, Holds(s, t), NEW m \in Nat, NEW len \in Nat, m + len <= Len(t)
    PROVE  Holds(str_new__cstr2(s, m, len), SubSeq(t, m + 1, m + len))
<1> DEFINE c == Seen(s, m)
           u == SubSeq(c, 1, len)
<1>1. t \in Seq(Char) /\ Len(t) \in Nat /\ m <= Len(t)
    BY HoldsSays
<1>2. PICK n \in Nat : n = Len(t)
    BY <1>1
<1>3. /\ c \in Seq(Char) /\ Len(c) = n - m /\ \A k \in 1 .. n - m : c[k] = t[m + k]
    <2>1. c = Bytes(s, m, n)
        <3>1. StrLen(s, m) = n - m
            BY <1>1, <1>2, LengthIs
        <3>2. m + (n - m) = n
            BY <1>2
        <3> QED
            BY <3>1, <3>2 DEF Seen
    <2>2. m <= n /\ n <= Len(t)
        BY <1>1, <1>2
    <2> HIDE DEF c, u
    <2>3. /\ Bytes(s, m, n) \in Seq(Char) /\ Len(Bytes(s, m, n)) = n - m
          /\ \A k \in 1 .. n - m : Bytes(s, m, n)[k] = t[m + k]
        <3>1. IsPart(Bytes(s, m, n), t, m, n)
            BY <2>2, PartIs, Zenon
        <3> QED
            BY <3>1 DEF IsPart
    <2> QED
        BY <2>1, <2>3
<1> HIDE DEF c
<1>4. len <= Len(c) /\ n - m \in Nat /\ Len(c) \in Nat
    BY <1>1, <1>2, <1>3
<1>5. u \in Seq(Char) /\ Len(u) = len /\ \A k \in 1 .. len : u[k] = t[m + k]
    <2>1. u \in Seq(Char) /\ Len(u) = len /\ \A k \in 1 .. len : u[k] = c[k]
        BY <1>3, <1>4
    <2> HIDE DEF u
    <2>2. \A k \in 1 .. len : k \in 1 .. n - m
        BY <1>3, <1>4
    <2> QED
        BY <1>3, <2>1, <2>2
<1> HIDE DEF u
<1>6. /\ SubSeq(t, m + 1, m + len) \in Seq(Char) /\ Len(SubSeq(t, m + 1, m + len)) = len
      /\ \A k \in 1 .. len : SubSeq(t, m + 1, m + len)[k] = t[m + k]
    <2>1. Bytes(s, m, m + len) = SubSeq(t, m + 1, m + len)
          /\ Bytes(s, m, m + len) \in Seq(Char) /\ Len(Bytes(s, m, m + len)) = (m + len) - m
          /\ \A k \in 1 .. (m + len) - m : Bytes(s, m, m + len)[k] = t[m + k]
        <3>1. m + len \in Nat /\ m <= m + len /\ m + len <= Len(t)
            OBVIOUS
        <3>2. IsPart(Bytes(s, m, m + len), t, m, m + len)
            BY <3>1, PartIs, Zenon
        <3> QED
            BY <3>2, Zenon DEF IsPart
    <2>2. (m + len) - m = len
        OBVIOUS
    <2> QED
        BY <2>1, <2>2
<1> DEFINE v == SubSeq(t, m + 1, m + len)
<1>8. (IF len < Len(c) THEN len ELSE Len(c)) = len
    BY <1>4
<1>9. str_new__cstr2(s, m, len) = str_new__cstr(u)
    BY <1>8 DEF str_new__cstr2, c, u
<1>10. v \in Seq(Char) /\ Len(v) = len /\ \A k \in 1 .. len : v[k] = t[m + k]
    BY <1>6
<1> HIDE DEF u, v
<1>11. u = v
    BY <1>5, <1>10, SeqEqual
<1>12. Holds(str_new__cstr2(s, m, len), v)
    BY <1>5, <1>9, <1>11, CstrHolds
<1> QED
    BY <1>12 DEF v

LEMMA PrependHolds ==
    ASSUME NEW s, NEW t, Holds(s, t), NEW c \in Seq(Char)
    PROVE  LET new == str_new__len(s.length + Len(c)) IN
           Holds(str_resize(MemCpy(MemCpy(new, 0, c), Len(c), Bytes(s, 0, s.length)), s.length + Len(c)), c \o t)
<1>1. t \in Seq(Char) /\ s.length = Len(t) /\ Bytes(s, 0, s.length) = t
    BY HoldsSays, TextIs
<1>2. PICK n \in Nat, l \in Nat : n = Len(t) /\ l = Len(c)
    BY <1>1
<1> DEFINE new == str_new__len(n + l)
           w == MemCpy(new, 0, c)
           x == MemCpy(w, l, t)
<1>3. Says(new, <<>>) /\ n + l <= new.capacity /\ new.capacity \in Nat
    <2>1. n + l \in Nat
        OBVIOUS
    <2> HIDE DEF new
    <2>2. Says(new, <<>>) /\ n + l <= new.capacity
        BY <2>1, SaysNothing, Zenon DEF new
    <2> QED
        BY <2>2 DEF Says, Raw
<1> HIDE DEF new
<1>4. Says(w, c) /\ w.capacity = new.capacity
    <2>1. Len(<<>>) = 0 /\ <<>> \o c = c /\ Len(<<>>) + Len(c) <= new.capacity
        BY <1>2, <1>3
    <2>2. Says(MemCpy(new, Len(<<>>), c), <<>> \o c) /\ MemCpy(new, Len(<<>>), c).capacity = new.capacity
        BY <1>3, <2>1, SaysMore
    <2> QED
        BY <2>1, <2>2
<1> HIDE DEF w
<1>5. Says(x, c \o t)
    <2>1. Len(c) + Len(t) <= w.capacity
        BY <1>2, <1>3, <1>4
    <2> QED
        BY <1>1, <1>2, <1>4, <2>1, SaysMore
<1> HIDE DEF x
<1>6. Holds(str_resize(x, Len(c \o t)), c \o t)
    BY <1>5, Finished
<1>7. Len(c \o t) = n + l
    BY <1>1, <1>2
<1> QED
    BY <1>1, <1>2, <1>6, <1>7 DEF x, w, new

LEMMA InsertHolds ==
    ASSUME NEW s, NEW t, Holds(s, t), NEW c \in Seq(Char), NEW i \in Nat, i <= Len(t)
    PROVE  LET new == MemCpy(MemCpy(str_new__len(s.length + Len(c)), 0, Bytes(s, 0, i)), i, c) IN
           Holds(str_resize(MemCpy(new, i + Len(c), Bytes(s, i, s.length)), s.length + Len(c)),
                 SubSeq(t, 1, i) \o c \o SubSeq(t, i + 1, Len(t)))
<1>1. t \in Seq(Char) /\ s.length = Len(t)
    BY HoldsSays
<1>2. PICK n \in Nat, l \in Nat : n = Len(t) /\ l = Len(c)
    BY <1>1
<1> DEFINE a == SubSeq(t, 1, i)
           b == SubSeq(t, i + 1, n)
           new == str_new__len(n + l)
           w == MemCpy(new, 0, a)
           x == MemCpy(w, i, c)
           y == MemCpy(x, i + l, b)
<1> HIDE DEF a, b, new, w, x, y
<1>3. /\ a \in Seq(Char) /\ Len(a) = i /\ Bytes(s, 0, i) = a
    <2>1. 0 \in Nat /\ 0 <= i /\ i - 0 = i /\ 0 + 1 = 1
        OBVIOUS
    <2>2. Bytes(s, 0, i) = SubSeq(t, 0 + 1, i) /\ Bytes(s, 0, i) \in Seq(Char) /\ Len(Bytes(s, 0, i)) = i - 0
        <3>1. IsPart(Bytes(s, 0, i), t, 0, i)
            BY <2>1, PartIs, Zenon
        <3> QED
            BY <3>1, Zenon DEF IsPart
    <2> QED
        BY <2>1, <2>2 DEF a
<1>4. b \in Seq(Char) /\ Len(b) = n - i /\ Bytes(s, i, n) = b
    <2>1. i <= n /\ n <= Len(t)
        BY <1>2
    <2>2. Bytes(s, i, n) = SubSeq(t, i + 1, n) /\ Bytes(s, i, n) \in Seq(Char) /\ Len(Bytes(s, i, n)) = n - i
        <3>1. IsPart(Bytes(s, i, n), t, i, n)
            BY <2>1, PartIs, Zenon
        <3> QED
            BY <3>1, Zenon DEF IsPart
    <2> QED
        BY <2>2 DEF b
<1>5. Says(new, <<>>) /\ n + l <= new.capacity /\ new.capacity \in Nat
    <2>1. n + l \in Nat
        OBVIOUS
    <2>2. Says(new, <<>>) /\ n + l <= new.capacity
        BY <2>1, SaysNothing, Zenon DEF new
    <2> QED
        BY <2>2 DEF Says, Raw
<1>6. Says(w, a) /\ w.capacity = new.capacity
    <2>1. Len(<<>>) = 0 /\ <<>> \o a = a /\ Len(<<>>) + Len(a) <= new.capacity
        BY <1>2, <1>3, <1>5
    <2>2. Says(MemCpy(new, Len(<<>>), a), <<>> \o a) /\ MemCpy(new, Len(<<>>), a).capacity = new.capacity
        BY <1>3, <1>5, <2>1, SaysMore
    <2> QED
        BY <2>1, <2>2 DEF w
<1>7. Says(x, a \o c) /\ x.capacity = w.capacity
    <2>1. Len(a) + Len(c) <= w.capacity
        BY <1>2, <1>3, <1>5, <1>6
    <2> QED
        BY <1>3, <1>6, <2>1, SaysMore DEF x
<1>8. a \o c \in Seq(Char) /\ Len(a \o c) = i + l
    BY <1>2, <1>3
<1>9. Says(y, (a \o c) \o b)
    <2>1. Len(a \o c) + Len(b) <= x.capacity
        BY <1>2, <1>3, <1>4, <1>5, <1>6, <1>7, <1>8
    <2> QED
        BY <1>4, <1>7, <1>8, <2>1, SaysMore DEF y
<1>10. Holds(str_resize(y, Len((a \o c) \o b)), (a \o c) \o b)
    BY <1>9, Finished
<1>11. Len((a \o c) \o b) = n + l
    <2> DEFINE u == a \o c
    <2>1. u \in Seq(Char) /\ Len(u) = i + l
        BY <1>8
    <2> HIDE DEF u
    <2>2. Len(u \o b) = Len(u) + Len(b)
        BY <1>4, <2>1, ConcatProperties
    <2>3. (i + l) + (n - i) = n + l
        OBVIOUS
    <2> QED
        BY <1>4, <2>1, <2>2, <2>3 DEF u
<1> QED
    BY <1>1, <1>2, <1>3, <1>4, <1>10, <1>11 DEF y, x, w, new, a, b

-----------------------------------------------------------------------------
(* Trimming. *)

Associative(u, v, w) == (u \o v) \o w = u \o (v \o w)

LEMMA Associates ==
    ASSUME NEW C, NEW u \in Seq(C), NEW v \in Seq(C), NEW w \in Seq(C)
    PROVE  Associative(u, v, w)
    BY DEF Associative

\* Positions p .. q of t are its first word.
IsWord(t, p, q) ==
    /\ p <= q /\ \A k \in p .. q : t[k] \notin Blank
    /\ \A k \in 1 .. p - 1 : t[k] \in Blank
    /\ q = Len(t) \/ t[q + 1] \in Blank

LEMMA FirstWordIs ==
    ASSUME NEW t \in Seq(Char), NEW p \in 1 .. Len(t), NEW q \in 1 .. Len(t), IsWord(t, p, q)
    PROVE  Seqs!FirstWord(t) = SubSeq(t, p, q)
<1> DEFINE word == {w \in (1 .. Len(t)) \X (1 .. Len(t)) :
                       /\ w[1] <= w[2] /\ \A k \in w[1] .. w[2] : t[k] \notin Blank
                       /\ \A k \in 1 .. w[1] - 1 : t[k] \in Blank
                       /\ w[2] = Len(t) \/ t[w[2] + 1] \in Blank}
<1>1. \A i, j \in 1 .. Len(t) : <<i, j>> \in word <=> IsWord(t, i, j)
    <2> SUFFICES ASSUME NEW i \in 1 .. Len(t), NEW j \in 1 .. Len(t)
                 PROVE  <<i, j>> \in word <=> IsWord(t, i, j)
        BY Zenon
    <2> QED
        BY Zenon DEF IsWord
<1>2. \A w \in word : w = <<w[1], w[2]>> /\ w[1] \in 1 .. Len(t) /\ w[2] \in 1 .. Len(t)
    OBVIOUS
<1>3. Seqs!FirstWord(t) = CHOOSE u \in {SubSeq(t, w[1], w[2]) : w \in word} : TRUE
    BY DEF Seqs!FirstWord
<1> HIDE DEF word
<1>4. ASSUME NEW i \in 1 .. Len(t), NEW j \in 1 .. Len(t), IsWord(t, i, j)
      PROVE  i = p /\ j = q
    <2>1. /\ i <= j /\ \A k \in i .. j : t[k] \notin Blank
          /\ \A k \in 1 .. i - 1 : t[k] \in Blank
          /\ j = Len(t) \/ t[j + 1] \in Blank
        BY <1>4 DEF IsWord
    <2>2. /\ p <= q /\ \A k \in p .. q : t[k] \notin Blank
          /\ \A k \in 1 .. p - 1 : t[k] \in Blank
          /\ q = Len(t) \/ t[q + 1] \in Blank
        BY DEF IsWord
    <2>3. i \in Nat /\ j \in Nat /\ p \in Nat /\ q \in Nat /\ Len(t) \in Nat /\ 1 <= i /\ 1 <= p
          /\ j <= Len(t) /\ q <= Len(t)
        OBVIOUS
    <2>4. ~ (i < p)
        <3> SUFFICES ASSUME i < p PROVE FALSE
            OBVIOUS
        <3>1. i \in 1 .. p - 1 /\ i \in i .. j
            BY <2>1, <2>3
        <3> QED
            BY <2>1, <2>2, <3>1
    <2>5. ~ (p < i)
        <3> SUFFICES ASSUME p < i PROVE FALSE
            OBVIOUS
        <3>1. p \in 1 .. i - 1 /\ p \in p .. q
            BY <2>2, <2>3
        <3> QED
            BY <2>1, <2>2, <3>1
    <2>6. i = p
        BY <2>3, <2>4, <2>5
    <2>7. ~ (j < q)
        <3> SUFFICES ASSUME j < q PROVE FALSE
            OBVIOUS
        <3>1. j # Len(t) /\ j + 1 \in p .. q
            BY <2>1, <2>3, <2>6
        <3> QED
            BY <2>1, <2>2, <3>1
    <2>8. ~ (q < j)
        <3> SUFFICES ASSUME q < j PROVE FALSE
            OBVIOUS
        <3>1. q # Len(t) /\ q + 1 \in i .. j
            BY <2>2, <2>3, <2>6
        <3> QED
            BY <2>1, <2>2, <3>1
    <2> QED
        BY <2>3, <2>6, <2>7, <2>8
<1>5. <<p, q>> \in word
    BY <1>1
<1>6. \A w \in word : w = <<p, q>>
    BY <1>1, <1>2, <1>4
<1>7. {SubSeq(t, w[1], w[2]) : w \in word} = {SubSeq(t, p, q)}
    <2>1. <<p, q>>[1] = p /\ <<p, q>>[2] = q
        OBVIOUS
    <2> QED
        BY <1>5, <1>6, <2>1
<1> QED
    BY <1>3, <1>7

\* What str_trim makes of a string.
Trimmed(s) ==
    LET kept == {k \in 0 .. s.capacity : s.buf[k] \notin Blank \cup {NUL}}
        first == Min(kept)
        last == Min({k \in first .. s.capacity : s.buf[k] \in Blank \cup {NUL}})
        new == str_new__len(s.length)
    IN  IF kept = {} \/ last - first > new.capacity THEN Wild
        ELSE str_resize(MemCpy(new, 0, Bytes(s, first, last)), last - first)

\* A trimmed string holds some text, the first word if there is one; only a string that is
\* all blank can be led behind its buffer.
LEMMA TrimHolds ==
    ASSUME NEW s, NEW t, Holds(s, t)
    PROVE  /\ Trimmed(s) = Wild \/ \E u \in Seq(Char) : Holds(Trimmed(s), u)
           /\ (\E k \in DOMAIN t : t[k] \notin Blank) => Holds(Trimmed(s), Seqs!FirstWord(t))
<1> DEFINE kept == {k \in 0 .. s.capacity : s.buf[k] \notin Blank \cup {NUL}}
           first == Min(kept)
           ends == {k \in first .. s.capacity : s.buf[k] \in Blank \cup {NUL}}
           last == Min(ends)
           new == str_new__len(s.length)
           b == Bytes(s, first, last)
<1>1. Trimmed(s) = IF kept = {} \/ last - first > new.capacity THEN Wild
                   ELSE str_resize(MemCpy(new, 0, b), last - first)
    BY DEF Trimmed
<1>2. /\ s.capacity \in Nat /\ s.buf \in [0 .. s.capacity -> Cell] /\ s.buf[s.capacity] = NUL
      /\ s.length \in Nat /\ t \in Seq(Char) /\ s.length = Len(t) /\ Len(t) <= s.capacity
      /\ s.buf[Len(t)] = NUL /\ \A k \in 1 .. Len(t) : s.buf[k - 1] = t[k] /\ t[k] \in Char
    BY HoldsSays DEF Holds, Raw
<1>3. new.capacity \in Nat /\ s.length <= new.capacity /\ Says(new, <<>>)
    <2>1. Says(new, <<>>) /\ s.length <= new.capacity
        BY <1>2, SaysNothing
    <2> QED
        BY <2>1 DEF Says, Raw
<1>4. DOMAIN t = 1 .. Len(t)
    BY <1>2
<1>5. \A k \in DOMAIN t : t[k] \notin Blank => k - 1 \in kept
    BY <1>2, <1>4, CharAssumption
<1>6. CASE kept = {}
    BY <1>1, <1>5, <1>6
<1>7. CASE kept # {}
    <2>1. kept \subseteq Nat
        OBVIOUS
    <2>2. first \in kept /\ \A j \in kept : first <= j
        BY <1>7, <2>1, MinIs
    <2>3. first \in Nat /\ first <= s.capacity /\ s.buf[first] \notin Blank \cup {NUL}
        BY <2>2
    <2>4. \A k \in 0 .. s.capacity : k < first => s.buf[k] \in Blank \cup {NUL}
        <3> SUFFICES ASSUME NEW k \in 0 .. s.capacity, k < first, s.buf[k] \notin Blank \cup {NUL} PROVE FALSE
            OBVIOUS
        <3>1. k \in kept
            OBVIOUS
        <3>2. ~ (first <= k)
            BY <2>3
        <3> QED
            BY <2>2, <3>1, <3>2
    <2> HIDE DEF kept, first
    <2>5. s.capacity \in ends
        BY <1>2, <2>3
    <2>6. ends \subseteq Nat
        BY <2>3
    <2>7. last \in ends /\ \A j \in ends : last <= j
        BY <2>5, <2>6, MinIs
    <2>8. last \in Nat /\ first <= last /\ last <= s.capacity /\ s.buf[last] \in Blank \cup {NUL}
        BY <2>6, <2>7
    <2>9. \A k \in 0 .. s.capacity : first <= k /\ k < last => s.buf[k] \notin Blank \cup {NUL}
        <3> SUFFICES ASSUME NEW k \in 0 .. s.capacity, first <= k, k < last, s.buf[k] \in Blank \cup {NUL}
                     PROVE FALSE
            OBVIOUS
        <3>1. k \in ends
            BY <2>3
        <3>2. ~ (last <= k)
            BY <2>8
        <3> QED
            BY <2>7, <3>1, <3>2
    <2>10. s.length \in Nat /\ (first <= Len(t) => last <= Len(t))
        BY <1>2, <2>3, <2>7
    <2> HIDE DEF ends, last
    <2>11. first # last
        BY <2>3, <2>8
    <2>12. b \in Seq(Char) /\ Len(b) = last - first
        <3>1. \A k \in first .. last - 1 : s.buf[k] \in Char
            <4> SUFFICES ASSUME NEW k \in first .. last - 1 PROVE s.buf[k] \in Char
                OBVIOUS
            <4>1. k \in 0 .. s.capacity /\ first <= k /\ k < last
                BY <1>2, <2>3, <2>8
            <4>2. s.buf[k] \notin Blank \cup {NUL} /\ s.buf[k] \in Cell
                BY <1>2, <2>9, <4>1
            <4> QED
                BY <4>2 DEF Cell
        <3> QED
            BY <2>3, <2>8, <3>1, BytesAre
    <2>13. ASSUME last - first <= new.capacity
           PROVE  Holds(Trimmed(s), b)
        <3> HIDE DEF new, b
        <3>1. Trimmed(s) = str_resize(MemCpy(new, 0, b), last - first)
            <4>1. ~ (last - first > new.capacity)
                BY <1>3, <2>3, <2>8, <2>13
            <4> QED
                BY <1>1, <1>7, <4>1
        <3>2. Len(<<>>) = 0 /\ <<>> \o b = b /\ Len(<<>>) + Len(b) <= new.capacity
            BY <2>12, <2>13, <2>3, <2>8
        <3>3. Says(MemCpy(new, Len(<<>>), b), <<>> \o b)
            BY <1>3, <2>12, <3>2, SaysMore
        <3>4. Says(MemCpy(new, 0, b), b)
            BY <3>2, <3>3
        <3>5. Holds(str_resize(MemCpy(new, 0, b), Len(b)), b)
            BY <3>4, Finished
        <3> QED
            BY <2>12, <3>1, <3>5
    <2>14. Trimmed(s) = Wild \/ \E u \in Seq(Char) : Holds(Trimmed(s), u)
        <3>1. CASE last - first <= new.capacity
            BY <2>12, <2>13, <3>1
        <3>2. CASE ~ (last - first <= new.capacity)
            <4>1. last - first > new.capacity
                BY <1>3, <2>3, <2>8, <3>2
            <4> QED
                BY <1>1, <4>1
        <3> QED
            BY <3>1, <3>2
    <2>15. ASSUME NEW z \in DOMAIN t, t[z] \notin Blank
           PROVE  Holds(Trimmed(s), Seqs!FirstWord(t))
        <3>1. z \in 1 .. Len(t) /\ z - 1 \in kept
            BY <1>4, <1>5, <2>15
        <3>2. first <= z - 1 /\ first < Len(t)
            BY <1>2, <2>2, <2>3, <3>1
        <3>3. last <= Len(t)
            BY <1>2, <2>3, <2>10, <3>2
        <3>4. Holds(Trimmed(s), b)
            <4>1. last - first <= new.capacity
                BY <1>2, <1>3, <2>3, <2>8, <3>3
            <4> QED
                BY <2>13, <4>1
        <3>5. b = SubSeq(t, first + 1, last)
            <4>1. IsPart(b, t, first, last)
                BY <2>3, <2>8, <3>3, PartIs, Zenon
            <4> QED
                BY <4>1, Zenon DEF IsPart
        <3>6. first + 1 \in 1 .. Len(t) /\ last \in 1 .. Len(t) /\ first + 1 <= last
            BY <1>2, <2>3, <2>8, <2>11, <3>2, <3>3
        <3>7. \A k \in first + 1 .. last : t[k] \notin Blank
            <4> SUFFICES ASSUME NEW k \in first + 1 .. last PROVE t[k] \notin Blank
                OBVIOUS
            <4>1. k \in 1 .. Len(t) /\ k - 1 \in 0 .. s.capacity /\ first <= k - 1 /\ k - 1 < last
                BY <1>2, <2>3, <2>8, <3>3
            <4> QED
                BY <1>2, <2>9, <4>1
        <3>8. \A k \in 1 .. (first + 1) - 1 : t[k] \in Blank
            <4> SUFFICES ASSUME NEW k \in 1 .. (first + 1) - 1 PROVE t[k] \in Blank
                OBVIOUS
            <4>1. k \in 1 .. Len(t) /\ k - 1 \in 0 .. s.capacity /\ k - 1 < first
                BY <1>2, <2>3, <3>2
            <4>2. s.buf[k - 1] \in Blank \cup {NUL} /\ s.buf[k - 1] = t[k] /\ t[k] \in Char
                BY <1>2, <2>4, <4>1
            <4> QED
                BY <4>2, CharAssumption
        <3>9. last = Len(t) \/ t[last + 1] \in Blank
            <4> SUFFICES ASSUME last # Len(t) PROVE t[last + 1] \in Blank
                OBVIOUS
            <4>1. last + 1 \in 1 .. Len(t) /\ (last + 1) - 1 = last
                BY <1>2, <2>8, <3>3
            <4>2. s.buf[last] = t[last + 1] /\ t[last + 1] \in Char
                BY <1>2, <4>1
            <4> QED
                BY <2>8, <4>2, CharAssumption
        <3>10. IsWord(t, first + 1, last)
            BY <3>6, <3>7, <3>8, <3>9 DEF IsWord
        <3>11. Seqs!FirstWord(t) = SubSeq(t, first + 1, last)
            BY <1>2, <3>6, <3>10, FirstWordIs
        <3> QED
            BY <3>4, <3>5, <3>11
    <2> QED
        BY <2>14, <2>15
<1> QED
    BY <1>6, <1>7

-----------------------------------------------------------------------------
(* Finding: strstr, again and again. *)

\* sub stands behind the first k characters of t.
Match(t, sub, k) == k + Len(sub) <= Len(t) /\ SubSeq(t, k + 1, k + Len(sub)) = sub

LEMMA MatchIs ==
    ASSUME NEW s, NEW t, Holds(s, t), NEW sub \in Seq(Char), NEW k \in Nat
    PROVE  Match(t, sub, k) <=> k + Len(sub) <= Len(t) /\ Bytes(s, k, k + Len(sub)) = sub
<1> SUFFICES ASSUME k + Len(sub) <= Len(t)
             PROVE  SubSeq(t, k + 1, k + Len(sub)) = Bytes(s, k, k + Len(sub))
    BY DEF Match
<1>1. PICK n \in Nat : n = k + Len(sub)
    OBVIOUS
<1>2. k <= n /\ n <= Len(t)
    BY <1>1
<1>3. IsPart(Bytes(s, k, n), t, k, n)
    BY <1>2, PartIs, Zenon
<1> QED
    BY <1>1, <1>3 DEF IsPart

\* r is the first place from m on where sub stands, or none.
FirstMatch(t, sub, m, r, none) ==
    \/ r = none /\ \A k \in Nat : m <= k => ~ Match(t, sub, k)
    \/ r \in Nat /\ m <= r /\ Match(t, sub, r) /\ \A k \in m .. r - 1 : ~ Match(t, sub, k)

LEMMA StrStrIs ==
    ASSUME NEW s, NEW t, Holds(s, t), NEW sub \in Seq(Char), NEW m \in Nat, m <= Len(t)
    PROVE  FirstMatch(t, sub, m, StrStr(s, m, sub), s.capacity + 1)
<1> DEFINE none == s.capacity + 1
           T == {k \in m .. m + StrLen(s, m) : k + Len(sub) <= m + StrLen(s, m) /\ Bytes(s, k, k + Len(sub)) = sub}
           r == StrStr(s, m, sub)
<1>1. Len(t) \in Nat /\ s.capacity \in Nat /\ Len(t) <= s.capacity /\ Len(sub) \in Nat
    BY HoldsSays
<1>2. m + StrLen(s, m) = Len(t)
    BY <1>1, LengthIs
<1>3. \A k \in Nat : k \in T <=> m <= k /\ Match(t, sub, k)
    <2> SUFFICES ASSUME NEW k \in Nat PROVE k \in T <=> m <= k /\ Match(t, sub, k)
        OBVIOUS
    <2>1. Match(t, sub, k) <=> k + Len(sub) <= Len(t) /\ Bytes(s, k, k + Len(sub)) = sub
        BY MatchIs
    <2>2. k + Len(sub) <= Len(t) => k <= Len(t)
        BY <1>1
    <2>3. k \in T <=> k \in m .. Len(t) /\ k + Len(sub) <= Len(t) /\ Bytes(s, k, k + Len(sub)) = sub
        BY <1>2
    <2>4. k \in m .. Len(t) <=> m <= k /\ k <= Len(t)
        BY <1>1
    <2> QED
        BY <2>1, <2>2, <2>3, <2>4, Zenon
<1>4. T \cup {none} \subseteq Nat
    BY <1>1, <1>2
<1>5. r = Min(T \cup {none})
    BY DEF StrStr
<1> HIDE DEF T, r
<1>6. r \in T \cup {none} /\ \A j \in T \cup {none} : r <= j
    BY <1>4, <1>5, MinIs
<1>7. CASE r \in T
    <2>1. r \in Nat /\ m <= r /\ Match(t, sub, r)
        BY <1>3, <1>4, <1>7
    <2>2. \A k \in m .. r - 1 : ~ Match(t, sub, k)
        <3> SUFFICES ASSUME NEW k \in m .. r - 1, Match(t, sub, k) PROVE FALSE
            OBVIOUS
        <3>1. k \in Nat /\ m <= k /\ ~ (r <= k)
            BY <2>1
        <3>2. k \in T
            BY <1>3, <3>1
        <3> QED
            BY <1>6, <3>1, <3>2
    <2> QED
        BY <2>1, <2>2 DEF FirstMatch, r
<1>8. CASE r \notin T
    <2>1. r = none
        BY <1>6, <1>8
    <2>2. \A k \in Nat : m <= k => ~ Match(t, sub, k)
        <3> SUFFICES ASSUME NEW k \in Nat, m <= k, Match(t, sub, k) PROVE FALSE
            OBVIOUS
        <3>1. k \in T
            BY <1>3
        <3>2. none <= k
            BY <1>6, <2>1, <3>1
        <3>3. k <= Len(t)
            BY <1>1 DEF Match
        <3> QED
            BY <1>1, <3>2, <3>3
    <2> QED
        BY <2>1, <2>2 DEF FirstMatch, r
<1> QED
    BY <1>7, <1>8

\* The next find behind one.
NextFind(s, sub, last) == IF last > s.capacity THEN last ELSE StrStr(s, last + Len(sub), sub)

\* A find is a place where sub fits, or none.
LEMMA FindIs ==
    ASSUME NEW s, NEW t, Holds(s, t), NEW sub \in Seq(Char)
    PROVE  /\ StrStr(s, 0, sub) \in (0 .. Len(t) - Len(sub)) \cup {s.capacity + 1}
           /\ \A v \in (0 .. Len(t) - Len(sub)) \cup {s.capacity + 1} :
                 NextFind(s, sub, v) \in (0 .. Len(t) - Len(sub)) \cup {s.capacity + 1}
<1> DEFINE V == (0 .. Len(t) - Len(sub)) \cup {s.capacity + 1}
<1>1. Len(t) \in Nat /\ s.capacity \in Nat /\ Len(t) <= s.capacity /\ Len(sub) \in Nat
    BY HoldsSays
<1>2. ASSUME NEW m \in Nat, m <= Len(t) PROVE StrStr(s, m, sub) \in V
    <2>1. FirstMatch(t, sub, m, StrStr(s, m, sub), s.capacity + 1)
        BY <1>2, StrStrIs
    <2> QED
        BY <1>1, <2>1 DEF FirstMatch, Match
<1>3. StrStr(s, 0, sub) \in V
    BY <1>1, <1>2
<1>4. ASSUME NEW v \in V PROVE NextFind(s, sub, v) \in V
    <2>1. CASE v = s.capacity + 1
        BY <1>1, <2>1 DEF NextFind
    <2>2. CASE v \in 0 .. Len(t) - Len(sub)
        <3>1. v \in Nat /\ v + Len(sub) \in Nat /\ v + Len(sub) <= Len(t) /\ ~ (v > s.capacity)
            BY <1>1, <2>2
        <3>2. NextFind(s, sub, v) = StrStr(s, v + Len(sub), sub)
            BY <3>1 DEF NextFind
        <3> QED
            BY <1>2, <3>1, <3>2
    <2> QED
        BY <2>1, <2>2
<1> QED
    BY <1>3, <1>4

LEMMA FindsAre ==
    ASSUME NEW s, NEW t, Holds(s, t), NEW sub \in Seq(Char)
    PROVE  LET found == Finds(s, sub)
               V == (0 .. Len(t) - Len(sub)) \cup {s.capacity + 1} IN
           /\ found \in [0 .. s.capacity + 1 -> V]
           /\ found[0] = StrStr(s, 0, sub)
           /\ \A i \in 0 .. s.capacity : found[i + 1] = NextFind(s, sub, found[i])
<1> DEFINE none == s.capacity + 1
           V == (0 .. Len(t) - Len(sub)) \cup {none}
           a == StrStr(s, 0, sub)
           G == [i \in Nat |-> [v \in V |-> NextFind(s, sub, v)]]
           F(f) == [i \in 0 .. none |-> IF i = 0 THEN a ELSE NextFind(s, sub, f[i - 1])]
<1>1. s.capacity \in Nat /\ none \in Nat
    BY HoldsSays
<1>2. a \in V /\ \A v \in V : NextFind(s, sub, v) \in V
    BY FindIs
<1>3. Finds(s, sub) = CHOOSE f : f = F(f)
    BY Zenon DEF Finds, NextFind
<1> HIDE DEF V, a
<1>4. G \in [Nat -> [V -> V]]
    BY <1>2
<1>5. PICK f : Begun(f, none, V, a, G)
    <2> HIDE DEF G, none
    <2> QED
        BY <1>1, <1>2, <1>4, Recursion
<1>6. f = F(f)
    <2>1. f \in [0 .. none -> V] /\ f[0] = a /\ \A i \in 0 .. none - 1 : f[i + 1] = G[i][f[i]]
        BY <1>5, Zenon DEF Begun
    <2>2. \A i \in 0 .. none : f[i] = IF i = 0 THEN a ELSE NextFind(s, sub, f[i - 1])
        <3> SUFFICES ASSUME NEW i \in 0 .. none, i # 0 PROVE f[i] = NextFind(s, sub, f[i - 1])
            BY <2>1
        <3>1. i - 1 \in 0 .. none - 1 /\ i - 1 \in 0 .. none /\ i - 1 \in Nat /\ (i - 1) + 1 = i
            BY <1>1
        <3>2. f[i] = G[i - 1][f[i - 1]] /\ f[i - 1] \in V
            BY <2>1, <3>1
        <3> QED
            BY <3>1, <3>2
    <2> HIDE DEF G, none
    <2> QED
        BY <2>1, <2>2
<1> DEFINE g == Finds(s, sub)
<1>7. g = F(g)
    BY <1>3, <1>6, Zenon
<1> HIDE DEF g
<1>8. g[0] = a
    BY <1>1, <1>7
<1>9. \A i \in 0 .. s.capacity : g[i + 1] = NextFind(s, sub, g[i])
    <2> SUFFICES ASSUME NEW i \in 0 .. s.capacity PROVE g[i + 1] = NextFind(s, sub, g[i])
        OBVIOUS
    <2>1. i + 1 \in 0 .. none /\ i + 1 # 0 /\ (i + 1) - 1 = i
        BY <1>1
    <2> QED
        BY <1>7, <2>1
<1>10. g \in [0 .. none -> V]
    <2> DEFINE U == {i \in Nat : i <= none => g[i] \in V}
    <2>1. 0 \in U
        BY <1>2, <1>8
    <2>2. \A i \in Nat : i \in U => i + 1 \in U
        <3> SUFFICES ASSUME NEW i \in Nat, i \in U, i + 1 <= none PROVE g[i + 1] \in V
            OBVIOUS
        <3>1. i \in 0 .. s.capacity /\ i <= none
            BY <1>1
        <3> QED
            BY <1>2, <1>9, <3>1
    <2> HIDE DEF U
    <2>3. \A i \in Nat : i \in U
        BY <2>1, <2>2, Inductive
    <2>4. \A i \in 0 .. none : g[i] \in V
        BY <1>1, <2>3 DEF U
    <2>5. g = [i \in 0 .. none |-> g[i]]
        BY <1>7
    <2> QED
        BY <2>4, <2>5
<1> QED
    BY <1>8, <1>9, <1>10 DEF g, V, a

-----------------------------------------------------------------------------
(* Cutting a text at the places found. *)

\* Where the piece i starts, and where it ends.
From(sub, found, i) == IF i = 0 THEN 0 ELSE found[i - 1] + Len(sub)
To(t, found, num, i) == IF i = num THEN Len(t) ELSE found[i]

\* The first num places found are those where sub stands, one behind the other.
Cuts(t, sub, found, num) ==
    /\ \A i \in 0 .. num - 1 :
          /\ found[i] \in Nat /\ Match(t, sub, found[i])
          /\ From(sub, found, i) <= found[i]
          /\ \A k \in From(sub, found, i) .. found[i] - 1 : ~ Match(t, sub, k)
    /\ \A k \in Nat : From(sub, found, num) <= k => ~ Match(t, sub, k)

LEMMA CountIs ==
    ASSUME NEW s, NEW t, Holds(s, t), NEW sub \in Seq(Char), sub # <<>>
    PROVE  LET found == Finds(s, sub)
               num == str_count(s, sub) IN
           /\ num \in 0 .. s.capacity + 1 /\ Cuts(t, sub, found, num)
           /\ found[num] = s.capacity + 1 /\ \A i \in 0 .. num - 1 : found[i] <= s.capacity
<1> DEFINE none == s.capacity + 1
           V == (0 .. Len(t) - Len(sub)) \cup {none}
           found == Finds(s, sub)
           T == {i \in DOMAIN found : found[i] > s.capacity}
           num == str_count(s, sub)
<1>1. /\ s.capacity \in Nat /\ none \in Nat /\ Len(t) \in Nat /\ Len(t) <= s.capacity
      /\ Len(sub) \in Nat /\ Len(sub) >= 1
    <2>1. Len(sub) # 0
        BY EmptySeq
    <2> QED
        BY <2>1, HoldsSays
<1>2. /\ found \in [0 .. none -> V] /\ found[0] = StrStr(s, 0, sub)
      /\ \A i \in 0 .. s.capacity : found[i + 1] = NextFind(s, sub, found[i])
    BY FindsAre
<1>3. num = Min(T)
    BY DEF str_count
<1> HIDE DEF found, num
<1>4. \A i \in 0 .. none : found[i] \in V
    BY <1>2
<1>5. \A i \in 0 .. none : /\ found[i] \in Nat /\ found[i] <= none
                           /\ found[i] <= s.capacity => found[i] + Len(sub) <= Len(t)
    BY <1>1, <1>4
\* What the find i + 1 is, when there is a find i.
<1>6. ASSUME NEW i \in 0 .. s.capacity, found[i] <= s.capacity
      PROVE  FirstMatch(t, sub, found[i] + Len(sub), found[i + 1], none)
    <2>1. i \in 0 .. none /\ found[i] + Len(sub) \in Nat /\ found[i] + Len(sub) <= Len(t)
        BY <1>1, <1>5, <1>6
    <2>2. ~ (found[i] > s.capacity)
        BY <1>1, <1>5, <1>6, <2>1
    <2>3. found[i + 1] = StrStr(s, found[i] + Len(sub), sub)
        BY <1>2, <2>2 DEF NextFind
    <2> QED
        BY <2>1, <2>3, StrStrIs
<1>7. ASSUME NEW i \in 0 .. s.capacity, ~ (found[i] <= s.capacity) PROVE found[i + 1] = none
    <2>1. i \in 0 .. none
        BY <1>1
    <2>2. found[i] > s.capacity /\ found[i] = none
        BY <1>1, <1>5, <1>7, <2>1
    <2> QED
        BY <1>2, <2>2 DEF NextFind
\* The finds go forward, so that there is an end of them.
<1>8. \A i \in 0 .. none : i <= found[i]
    <2> DEFINE U == {i \in Nat : i <= none => i <= found[i]}
    <2>1. 0 \in U
        BY <1>1, <1>5
    <2>2. \A i \in Nat : i \in U => i + 1 \in U
        <3> SUFFICES ASSUME NEW i \in Nat, i \in U, i + 1 <= none PROVE i + 1 <= found[i + 1]
            OBVIOUS
        <3>1. i \in 0 .. s.capacity /\ i \in 0 .. none /\ i + 1 \in 0 .. none /\ i <= found[i]
            BY <1>1
        <3>2. CASE found[i] <= s.capacity
            <4>1. FirstMatch(t, sub, found[i] + Len(sub), found[i + 1], none)
                BY <1>6, <3>1, <3>2
            <4>2. found[i + 1] = none \/ found[i] + Len(sub) <= found[i + 1]
                BY <4>1 DEF FirstMatch
            <4>3. found[i] \in Nat /\ found[i + 1] \in Nat
                BY <1>5, <3>1
            <4> QED
                BY <1>1, <3>1, <4>2, <4>3
        <3>3. CASE ~ (found[i] <= s.capacity)
            BY <1>7, <3>1, <3>3
        <3> QED
            BY <3>2, <3>3
    <2> HIDE DEF U
    <2>3. \A i \in Nat : i \in U
        BY <2>1, <2>2, Inductive
    <2> QED
        BY <1>1, <2>3 DEF U
<1>9. DOMAIN found = 0 .. none
    BY <1>2
<1>10. none \in T
    <2>1. none \in 0 .. none
        BY <1>1
    <2>2. none <= found[none] /\ found[none] \in Nat
        BY <1>5, <1>8, <2>1
    <2> QED
        BY <1>1, <1>9, <2>1, <2>2
<1>11. num \in T /\ \A j \in T : num <= j
    <2>1. T \subseteq Nat
        BY <1>1, <1>9
    <2> HIDE DEF T
    <2> QED
        BY <1>3, <1>10, <2>1, MinIs
<1>12. num \in 0 .. none /\ num \in Nat /\ found[num] = none
    <2>1. num \in 0 .. none /\ found[num] > s.capacity
        BY <1>9, <1>11
    <2> QED
        BY <1>1, <1>5, <2>1
<1>13. \A i \in 0 .. num - 1 : i \in 0 .. s.capacity /\ i \in 0 .. none /\ found[i] <= s.capacity
    <2> SUFFICES ASSUME NEW i \in 0 .. num - 1 PROVE i \in 0 .. s.capacity /\ i \in 0 .. none /\ found[i] <= s.capacity
        OBVIOUS
    <2>1. i \in 0 .. none /\ i \in 0 .. s.capacity /\ ~ (num <= i)
        BY <1>1, <1>12
    <2>2. ~ (found[i] > s.capacity)
        BY <1>9, <1>11, <2>1
    <2> QED
        BY <1>1, <1>5, <2>1, <2>2
<1> DEFINE B(i) == From(sub, found, i)
<1>14. \A i \in 0 .. num : B(i) \in Nat /\ FirstMatch(t, sub, B(i), found[i], none)
    <2> SUFFICES ASSUME NEW i \in 0 .. num PROVE B(i) \in Nat /\ FirstMatch(t, sub, B(i), found[i], none)
        OBVIOUS
    <2>1. CASE i = 0
        <3>1. FirstMatch(t, sub, 0, StrStr(s, 0, sub), none)
            BY <1>1, StrStrIs
        <3> QED
            BY <1>2, <2>1, <3>1 DEF From
    <2>2. CASE i # 0
        <3>1. i - 1 \in 0 .. num - 1 /\ (i - 1) + 1 = i
            BY <1>12, <2>2
        <3>2. i - 1 \in 0 .. s.capacity /\ found[i - 1] <= s.capacity /\ found[i - 1] \in Nat
            BY <1>5, <1>13, <3>1
        <3>3. FirstMatch(t, sub, found[i - 1] + Len(sub), found[(i - 1) + 1], none)
            BY <1>6, <3>2
        <3> QED
            BY <1>1, <2>2, <3>1, <3>2, <3>3 DEF From
    <2> QED
        BY <2>1, <2>2
<1>15. ASSUME NEW i \in 0 .. num - 1
       PROVE  /\ found[i] \in Nat /\ Match(t, sub, found[i]) /\ B(i) <= found[i]
              /\ \A k \in B(i) .. found[i] - 1 : ~ Match(t, sub, k)
    <2>1. i \in 0 .. num /\ found[i] # none
        BY <1>1, <1>12, <1>13
    <2> QED
        BY <1>14, <2>1 DEF FirstMatch
<1>16. ASSUME NEW k \in Nat, B(num) <= k PROVE ~ Match(t, sub, k)
    <2>1. num \in 0 .. num
        BY <1>12
    <2>2. FirstMatch(t, sub, B(num), none, none)
        BY <1>12, <1>14, <2>1
    <2>3. ~ Match(t, sub, none)
        BY <1>1 DEF Match
    <2> QED
        BY <1>16, <2>2, <2>3 DEF FirstMatch
<1>17. Cuts(t, sub, found, num)
    <2> HIDE DEF none
    <2> QED
        BY <1>15, <1>16, Zenon DEF Cuts
<1> QED
    BY <1>12, <1>13, <1>17 DEF found, num

\* The pieces are in order, and inside the text.
LEMMA CutsInOrder ==
    ASSUME NEW t \in Seq(Char), NEW sub \in Seq(Char), sub # <<>>, NEW found, NEW num \in Nat,
           Cuts(t, sub, found, num)
    PROVE  /\ \A i \in 0 .. num : /\ From(sub, found, i) \in Nat /\ To(t, found, num, i) \in Nat
                                  /\ From(sub, found, i) <= To(t, found, num, i)
                                  /\ To(t, found, num, i) <= Len(t)
           /\ \A i \in 0 .. num - 1 : /\ To(t, found, num, i) = found[i] /\ From(sub, found, i + 1) = found[i] + Len(sub)
                                      /\ found[i] + Len(sub) <= Len(t)
           /\ \A i, j \in 0 .. num - 1 : i < j => found[i] + Len(sub) <= found[j]
<1> DEFINE B(i) == From(sub, found, i)
           E(i) == To(t, found, num, i)
<1>1. Len(t) \in Nat /\ Len(sub) \in Nat
    OBVIOUS
<1>2. \A i \in 0 .. num - 1 : /\ found[i] \in Nat /\ found[i] + Len(sub) <= Len(t) /\ B(i) <= found[i]
    BY DEF Cuts, Match
<1>3. \A i \in 0 .. num - 1 : E(i) = found[i] /\ B(i + 1) = found[i] + Len(sub)
    BY DEF From, To
<1>4. \A i \in 0 .. num : B(i) \in Nat /\ B(i) <= Len(t)
    <2> SUFFICES ASSUME NEW i \in 0 .. num PROVE B(i) \in Nat /\ B(i) <= Len(t)
        OBVIOUS
    <2>1. CASE i = 0
        BY <1>1, <2>1 DEF From
    <2>2. CASE i # 0
        <3>1. i - 1 \in 0 .. num - 1
            BY <2>2
        <3> QED
            BY <1>1, <1>2, <2>2, <3>1 DEF From
    <2> QED
        BY <2>1, <2>2
<1>5. \A i \in 0 .. num : E(i) \in Nat /\ B(i) <= E(i) /\ E(i) <= Len(t)
    <2> SUFFICES ASSUME NEW i \in 0 .. num PROVE E(i) \in Nat /\ B(i) <= E(i) /\ E(i) <= Len(t)
        OBVIOUS
    <2>1. CASE i = num
        BY <1>1, <1>4, <2>1 DEF To
    <2>2. CASE i # num
        <3>1. i \in 0 .. num - 1
            BY <2>2
        <3>2. E(i) = found[i]
            BY <1>3, <3>1
        <3>3. PICK f : f = found[i]
            OBVIOUS
        <3>4. f \in Nat /\ f + Len(sub) <= Len(t) /\ B(i) <= f
            BY <1>2, <3>1, <3>3
        <3>5. f <= Len(t)
            BY <1>1, <3>4
        <3> QED
            BY <3>2, <3>3, <3>4, <3>5
    <2> QED
        BY <2>1, <2>2
<1>6. \A i, j \in 0 .. num - 1 : i < j => found[i] + Len(sub) <= found[j]
    <2> DEFINE U == {j \in Nat : j <= num - 1 => \A i \in 0 .. num - 1 : i < j => found[i] + Len(sub) <= found[j]}
    <2>1. 0 \in U
        OBVIOUS
    <2>2. \A j \in Nat : j \in U => j + 1 \in U
        <3> SUFFICES ASSUME NEW j \in Nat, j \in U, j + 1 <= num - 1, NEW i \in 0 .. num - 1, i < j + 1
                     PROVE  found[i] + Len(sub) <= found[j + 1]
            OBVIOUS
        <3>1. j \in 0 .. num - 1 /\ j + 1 \in 0 .. num - 1
            OBVIOUS
        <3>2. found[j] + Len(sub) <= found[j + 1] /\ found[j] \in Nat /\ found[j + 1] \in Nat /\ found[i] \in Nat
            BY <1>2, <1>3, <3>1
        <3>3. CASE i = j
            BY <3>2, <3>3
        <3>4. CASE i # j
            <4>1. i < j
                BY <3>4
            <4>2. found[i] + Len(sub) <= found[j]
                BY <3>1, <4>1
            <4> QED
                BY <1>1, <3>2, <4>2
        <3> QED
            BY <3>3, <3>4
    <2> HIDE DEF U
    <2>3. \A j \in Nat : j \in U
        BY <2>1, <2>2, Inductive
    <2> QED
        BY <2>3 DEF U
<1> QED
    BY <1>2, <1>3, <1>4, <1>5, <1>6

\* The pieces of str_split.
LEMMA SplitIs ==
    ASSUME NEW s, NEW t, Holds(s, t), NEW sub \in Seq(Char), sub # <<>>
    PROVE  LET found == Finds(s, sub)
               num == str_count(s, sub)
               pieces == str_split(s, sub) IN
           /\ Len(pieces) = num + 1
           /\ \A i \in 0 .. num :
                 Holds(pieces[i + 1], SubSeq(t, From(sub, found, i) + 1, To(t, found, num, i)))
<1> DEFINE found == Finds(s, sub)
           num == str_count(s, sub)
           End(i) == IF found[i - 1] > s.capacity THEN s.length ELSE found[i - 1]
           Start(i) == IF i = 1 THEN 0 ELSE End(i - 1) + Len(sub)
           pieces == str_split(s, sub)
<1>1. pieces = [i \in 1 .. num + 1 |-> str_new__cstr2(s, Start(i), End(i) - Start(i))]
    BY DEF str_split
<1>2. /\ num \in Nat /\ Cuts(t, sub, found, num) /\ s.capacity \in Nat
      /\ found[num] = s.capacity + 1 /\ \A i \in 0 .. num - 1 : found[i] <= s.capacity
    <2>1. s.capacity \in Nat
        BY HoldsSays
    <2> QED
        BY <2>1, CountIs
<1>3. s.length = Len(t) /\ t \in Seq(Char) /\ Len(sub) \in Nat
    BY HoldsSays
<1> HIDE DEF found, num, pieces
<1>4. /\ \A i \in 0 .. num : /\ From(sub, found, i) \in Nat /\ To(t, found, num, i) \in Nat
                             /\ From(sub, found, i) <= To(t, found, num, i)
                             /\ To(t, found, num, i) <= Len(t)
      /\ \A i \in 0 .. num - 1 : found[i] + Len(sub) <= Len(t) /\ found[i] \in Nat
    <2>1. \A i \in 0 .. num - 1 : found[i] \in Nat
        BY <1>2 DEF Cuts
    <2> QED
        BY <1>2, <1>3, <2>1, CutsInOrder
<1>5. ASSUME NEW i \in 0 .. num
      PROVE  End(i + 1) = To(t, found, num, i) /\ Start(i + 1) = From(sub, found, i)
    <2>0. i \in Nat /\ (i + 1) - 1 = i
        BY <1>2
    <2>1. End(i + 1) = To(t, found, num, i)
        <3>1. CASE i = num
            <4>1. found[i] > s.capacity
                BY <1>2, <3>1
            <4> QED
                BY <1>3, <2>0, <3>1, <4>1 DEF To
        <3>2. CASE i # num
            <4>1. i \in 0 .. num - 1
                BY <1>2, <3>2
            <4>2. ~ (found[i] > s.capacity)
                BY <1>2, <1>4, <4>1
            <4> QED
                BY <2>0, <3>2, <4>2 DEF To
        <3> QED
            BY <3>1, <3>2
    <2>2. Start(i + 1) = From(sub, found, i)
        <3>1. CASE i = 0
            BY <3>1 DEF From
        <3>2. CASE i # 0
            <4>1. i - 1 \in 0 .. num - 1 /\ i + 1 # 1
                BY <1>2, <2>0, <3>2
            <4>2. ~ (found[i - 1] > s.capacity)
                BY <1>2, <1>4, <4>1
            <4> QED
                BY <2>0, <3>2, <4>1, <4>2 DEF From
        <3> QED
            BY <3>1, <3>2
    <2> QED
        BY <2>1, <2>2
<1>6. \A i \in 0 .. num : pieces[i + 1] = str_new__cstr2(s, Start(i + 1), End(i + 1) - Start(i + 1))
    <2>1. \A i \in 0 .. num : i + 1 \in 1 .. num + 1
        BY <1>2
    <2> HIDE DEF Start, End
    <2> QED
        BY <1>1, <2>1
<1> HIDE DEF Start, End
<1>7. ASSUME NEW i \in 0 .. num
      PROVE  Holds(pieces[i + 1], SubSeq(t, From(sub, found, i) + 1, To(t, found, num, i)))
    <2>1. PICK m \in Nat, e \in Nat : m = From(sub, found, i) /\ e = To(t, found, num, i) /\ m <= e /\ e <= Len(t)
        BY <1>4
    <2>2. e - m \in Nat /\ m + (e - m) = e
        BY <2>1
    <2>3. pieces[i + 1] = str_new__cstr2(s, m, e - m)
        BY <1>5, <1>6, <2>1, Zenon
    <2>4. m + (e - m) <= Len(t)
        BY <2>1, <2>2
    <2>5. Holds(str_new__cstr2(s, m, e - m), SubSeq(t, m + 1, m + (e - m)))
        BY <2>2, <2>4, PieceHolds, Zenon
    <2> QED
        BY <2>1, <2>2, <2>3, <2>5
<1>8. Len(pieces) = num + 1
    BY <1>1, <1>2
<1> QED
    BY <1>7, <1>8 DEF found, num, pieces

-----------------------------------------------------------------------------
(* Replacing. *)

\* P takes from the places in all each that no earlier one of P overlaps.
Greedy(all, P, len) ==
    P \in SUBSET all /\ \A p \in all : p \in P <=> \A r \in P : r < p => r + len <= p

\* There is one such choice only.
LEMMA GreedyIsOne ==
    ASSUME NEW all, all \subseteq Nat, NEW len \in Nat, NEW P, NEW Q, Greedy(all, P, len), Greedy(all, Q, len)
    PROVE  P = Q
<1> DEFINE D == {p \in all : ~ (p \in P <=> p \in Q)}
<1>1. P \subseteq all /\ Q \subseteq all
    BY DEF Greedy
<1> SUFFICES ASSUME D # {} PROVE FALSE
    BY <1>1
<1>2. PICK p \in D : \A j \in D : p <= j
    <2>1. D \subseteq Nat
        OBVIOUS
    <2> HIDE DEF D
    <2> QED
        BY <2>1, LeastElement
<1>3. p \in all /\ p \in Nat /\ ~ (p \in P <=> p \in Q)
    OBVIOUS
<1>4. \A r \in all : r < p => (r \in P <=> r \in Q)
    <2> SUFFICES ASSUME NEW r \in all, r < p, ~ (r \in P <=> r \in Q) PROVE FALSE
        BY Zenon
    <2>1. r \in D /\ ~ (p <= r)
        BY <1>3
    <2> QED
        BY <1>2, <2>1
<1>5. (\A r \in P : r < p => r + len <= p) <=> (\A r \in Q : r < p => r + len <= p)
    <2> HIDE DEF D
    <2> QED
        BY <1>1, <1>4, Zenon
<1>6. p \in P <=> p \in Q
    <2>1. p \in P <=> \A r \in P : r < p => r + len <= p
        BY <1>3, Zenon DEF Greedy
    <2>2. p \in Q <=> \A r \in Q : r < p => r + len <= p
        BY <1>3, Zenon DEF Greedy
    <2> QED
        BY <1>5, <2>1, <2>2, Zenon
<1> QED
    BY <1>3, <1>6

\* Where a text is cut is where Replaced replaces.
LEMMA PlacesAre ==
    ASSUME NEW t \in Seq(Char), NEW sub \in Seq(Char), sub # <<>>, NEW found, NEW num \in Nat,
           Cuts(t, sub, found, num)
    PROVE  Seqs!Places(t, sub) = {found[i] + 1 : i \in 0 .. num - 1}
<1> DEFINE all == {p \in 1 .. Len(t) : p + Len(sub) - 1 <= Len(t) /\ SubSeq(t, p, p + Len(sub) - 1) = sub}
           H == {found[i] + 1 : i \in 0 .. num - 1}
           B(i) == From(sub, found, i)
<1>1. Seqs!Places(t, sub) = CHOOSE P : Greedy(all, P, Len(sub))
    <2> HIDE DEF all
    <2>1. \A P : Greedy(all, P, Len(sub)) <=>
                 P \in SUBSET all /\ \A p \in all : p \in P <=> \A r \in P : r < p => r + Len(sub) <= p
        BY Zenon DEF Greedy
    <2>2. Seqs!Places(t, sub) =
            CHOOSE P : P \in SUBSET all /\ \A p \in all : p \in P <=> \A r \in P : r < p => r + Len(sub) <= p
        BY Zenon DEF Seqs!Places, all
    <2> QED
        BY <2>2, Zenon DEF Greedy
<1>2. Len(t) \in Nat /\ Len(sub) \in Nat /\ Len(sub) >= 1
    <2>1. Len(sub) # 0
        BY EmptySeq
    <2> QED
        BY <2>1
<1>3. \A k \in Nat : k + 1 \in all <=> Match(t, sub, k)
    <2> SUFFICES ASSUME NEW k \in Nat PROVE k + 1 \in all <=> Match(t, sub, k)
        OBVIOUS
    <2>1. (k + 1) + Len(sub) - 1 = k + Len(sub)
        BY <1>2
    <2>2. k + Len(sub) <= Len(t) => k + 1 \in 1 .. Len(t)
        BY <1>2
    <2> QED
        BY <2>1, <2>2 DEF Match
<1>4. /\ \A i \in 0 .. num : B(i) \in Nat
      /\ \A i \in 0 .. num - 1 : B(i + 1) = found[i] + Len(sub)
      /\ \A i, j \in 0 .. num - 1 : i < j => found[i] + Len(sub) <= found[j]
    BY CutsInOrder
<1>5. /\ \A i \in 0 .. num - 1 :
           /\ found[i] \in Nat /\ Match(t, sub, found[i]) /\ B(i) <= found[i]
           /\ \A k \in B(i) .. found[i] - 1 : ~ Match(t, sub, k)
      /\ \A k \in Nat : B(num) <= k => ~ Match(t, sub, k)
    BY DEF Cuts
<1>6. \A p \in all : p \in Nat /\ p - 1 \in Nat /\ (p - 1) + 1 = p
    BY <1>2
<1> HIDE DEF all
<1>7. H \in SUBSET all
    BY <1>3, <1>5
<1>8. B(0) = 0
    BY DEF From
<1> HIDE DEF B
\* Behind no piece is there a match that was not found, and none overlaps one that was.
<1>9. ASSUME NEW k \in Nat, Match(t, sub, k), k + 1 \notin H
      PROVE  \E r \in H : r < k + 1 /\ ~ (r + Len(sub) <= k + 1)
    <2>1. PICK i \in 0 .. num - 1 : B(i) <= k /\ k < B(i + 1)
        <3> SUFFICES ASSUME \A i \in 0 .. num - 1 : ~ (B(i) <= k /\ k < B(i + 1))
                     PROVE  FALSE
            OBVIOUS
        <3> DEFINE U == {i \in 0 .. num : B(i) <= k}
        <3>1. 0 \in U
            BY <1>8
        <3>2. \A i \in 0 .. num - 1 : i \in U => i + 1 \in U
            <4> SUFFICES ASSUME NEW i \in 0 .. num - 1, B(i) <= k PROVE i + 1 \in 0 .. num /\ B(i + 1) <= k
                OBVIOUS
            <4>1. i + 1 \in 0 .. num /\ B(i + 1) \in Nat /\ ~ (k < B(i + 1))
                BY <1>4
            <4> QED
                BY <4>1
        <3> HIDE DEF U
        <3>3. \A i \in 0 .. num : i \in U
            BY <3>1, <3>2, InductiveUpTo
        <3>4. B(num) <= k
            BY <3>3 DEF U
        <3> QED
            BY <1>5, <1>9, <3>4
    <2>2. found[i] \in Nat /\ i \in 0 .. num /\ B(i) \in Nat /\ k < found[i] + Len(sub)
        BY <1>4, <1>5, <2>1
    <2>3. ~ (k < found[i])
        <3> SUFFICES ASSUME k < found[i] PROVE FALSE
            OBVIOUS
        <3>1. k \in B(i) .. found[i] - 1
            BY <2>1, <2>2
        <3> QED
            BY <1>5, <1>9, <3>1
    <2>4. found[i] + 1 \in H
        OBVIOUS
    <2>5. found[i] # k
        BY <1>9, <2>4
    <2>6. found[i] + 1 < k + 1 /\ ~ ((found[i] + 1) + Len(sub) <= k + 1)
        BY <1>2, <2>2, <2>3, <2>5
    <2> QED
        BY <2>4, <2>6
<1>10. ASSUME NEW p \in H, NEW r \in H, r < p PROVE r + Len(sub) <= p
    <2>1. PICK i \in 0 .. num - 1, j \in 0 .. num - 1 : p = found[i] + 1 /\ r = found[j] + 1
        OBVIOUS
    <2>2. PICK x, y : x = found[i] /\ y = found[j]
        OBVIOUS
    <2> HIDE DEF H
    <2>3. x \in Nat /\ y \in Nat /\ p = x + 1 /\ r = y + 1
        BY <1>5, <2>1, <2>2
    <2>4. y < x
        BY <1>10, <2>3
    <2>5. i < j => x + Len(sub) <= y
        BY <1>4, <2>2
    <2>6. j < i => y + Len(sub) <= x
        BY <1>4, <2>2
    <2>7. i = j => x = y
        BY <2>2
    <2>8. i < j \/ i = j \/ j < i
        OBVIOUS
    <2> QED
        BY <1>2, <2>3, <2>4, <2>5, <2>6, <2>7, <2>8
<1>11. ASSUME NEW p \in all
       PROVE  p \in H <=> \A r \in H : r < p => r + Len(sub) <= p
    <2>1. p - 1 \in Nat /\ (p - 1) + 1 = p /\ Match(t, sub, p - 1)
        BY <1>3, <1>6
    <2>2. ASSUME p \notin H PROVE \E r \in H : r < p /\ ~ (r + Len(sub) <= p)
        <3> HIDE DEF H
        <3>1. \E r \in H : r < (p - 1) + 1 /\ ~ (r + Len(sub) <= (p - 1) + 1)
            BY <1>9, <2>1, <2>2
        <3> QED
            BY <2>1, <3>1
    <2> HIDE DEF H
    <2> QED
        BY <1>10, <2>2, Zenon
<1> HIDE DEF H
<1>12. Greedy(all, H, Len(sub))
    BY <1>7, <1>11, Zenon DEF Greedy
<1>13. \A P : Greedy(all, P, Len(sub)) => P = H
    <2>1. all \subseteq Nat
        BY <1>6
    <2> QED
        BY <1>2, <1>12, <2>1, GreedyIsOne
<1>14. Seqs!Places(t, sub) = H
    BY <1>1, <1>12, <1>13, Zenon
<1> QED
    BY <1>14 DEF H

\* What Replaced puts for the character p of t.
Put(t, sub, rep, found, num, p) ==
    LET here == {found[i] + 1 : i \in 0 .. num - 1}
        gone == UNION {x .. x + Len(sub) - 1 : x \in here}
    IN  IF p \in here THEN rep ELSE IF p \in gone THEN <<>> ELSE <<t[p]>>

\* Inside a piece the character itself; rep for the first of a place found, nothing for the others.
Puts(t, sub, rep, found, num) ==
    /\ \A i \in 0 .. num : \A x \in From(sub, found, i) + 1 .. To(t, found, num, i) :
          Put(t, sub, rep, found, num, x) = <<t[x]>>
    /\ \A i \in 0 .. num - 1 : Put(t, sub, rep, found, num, found[i] + 1) = rep
    /\ \A i \in 0 .. num - 1 : \A x \in found[i] + 2 .. found[i] + Len(sub) :
          Put(t, sub, rep, found, num, x) = <<>>

LEMMA PutIs ==
    ASSUME NEW t \in Seq(Char), NEW sub \in Seq(Char), sub # <<>>, NEW rep, NEW found, NEW num \in Nat,
           Cuts(t, sub, found, num)
    PROVE  Puts(t, sub, rep, found, num)
<1> DEFINE here == {found[i] + 1 : i \in 0 .. num - 1}
           gone == UNION {x .. x + Len(sub) - 1 : x \in here}
           B(i) == From(sub, found, i)
           E(i) == To(t, found, num, i)
<1>0. \A p : Put(t, sub, rep, found, num, p) = IF p \in here THEN rep ELSE IF p \in gone THEN <<>> ELSE <<t[p]>>
    BY Zenon DEF Put
<1>1. Len(t) \in Nat /\ Len(sub) \in Nat /\ Len(sub) >= 1
    <2>1. Len(sub) # 0
        BY EmptySeq
    <2> QED
        BY <2>1
<1>2. /\ \A i \in 0 .. num : B(i) \in Nat /\ E(i) \in Nat /\ B(i) <= E(i)
      /\ \A i \in 0 .. num - 1 : E(i) = found[i] /\ B(i + 1) = found[i] + Len(sub)
      /\ \A i, j \in 0 .. num - 1 : i < j => found[i] + Len(sub) <= found[j]
    BY CutsInOrder
<1>3. \A i \in 0 .. num - 1 : found[i] \in Nat /\ B(i) <= found[i]
    BY DEF Cuts
<1> HIDE DEF B, E
<1>4. \A x \in Nat : x \in here <=> \E i \in 0 .. num - 1 : x = found[i] + 1
    OBVIOUS
<1>5. \A x \in Nat : x \in gone <=> \E i \in 0 .. num - 1 : found[i] + 1 <= x /\ x <= found[i] + Len(sub)
    <2> SUFFICES ASSUME NEW x \in Nat
                 PROVE  x \in gone <=> \E i \in 0 .. num - 1 : found[i] + 1 <= x /\ x <= found[i] + Len(sub)
        OBVIOUS
    <2>1. x \in gone <=> \E i \in 0 .. num - 1 : x \in (found[i] + 1) .. (found[i] + 1) + Len(sub) - 1
        <3> HIDE DEF here
        <3>1. x \in gone <=> \E y \in here : x \in y .. y + Len(sub) - 1
            BY Zenon
        <3>2. (\E y \in here : x \in y .. y + Len(sub) - 1) <=>
              \E i \in 0 .. num - 1 : x \in (found[i] + 1) .. (found[i] + 1) + Len(sub) - 1
            BY Zenon DEF here
        <3> QED
            BY <3>1, <3>2, Zenon
    <2>2. \A i \in 0 .. num - 1 : x \in (found[i] + 1) .. (found[i] + 1) + Len(sub) - 1
                                  <=> found[i] + 1 <= x /\ x <= found[i] + Len(sub)
        <3> SUFFICES ASSUME NEW i \in 0 .. num - 1
                     PROVE  x \in (found[i] + 1) .. (found[i] + 1) + Len(sub) - 1
                            <=> found[i] + 1 <= x /\ x <= found[i] + Len(sub)
            BY Zenon
        <3>1. PICK f \in Nat : f = found[i]
            BY <1>3
        <3>2. x \in (f + 1) .. (f + 1) + Len(sub) - 1 <=> f + 1 <= x /\ x <= f + Len(sub)
            BY <1>1
        <3> QED
            BY <3>1, <3>2
    <2> HIDE DEF gone
    <2> QED
        BY <2>1, <2>2, Zenon
<1> HIDE DEF here, gone
<1>6. \A x \in Nat : x \in here => x \in gone
    <2> SUFFICES ASSUME NEW x \in Nat, NEW i \in 0 .. num - 1, x = found[i] + 1
                 PROVE  found[i] + 1 <= x /\ x <= found[i] + Len(sub)
        BY <1>4, <1>5
    <2>1. found[i] \in Nat
        BY <1>3
    <2> QED
        BY <1>1, <2>1
<1>7. \A i, j \in 0 .. num - 1 : i < j => B(i + 1) <= B(j)
    <2> SUFFICES ASSUME NEW i \in 0 .. num - 1, NEW j \in 0 .. num - 1, i < j PROVE B(i + 1) <= B(j)
        OBVIOUS
    <2>1. j - 1 \in 0 .. num - 1 /\ (j - 1) + 1 = j /\ (i < j - 1 \/ i = j - 1)
        OBVIOUS
    <2>2. B(j) = found[j - 1] + Len(sub) /\ found[j - 1] \in Nat
        BY <1>2, <1>3, <2>1
    <2>3. B(i + 1) = found[i] + Len(sub) /\ found[i] \in Nat
        BY <1>2, <1>3
    <2>4. CASE i = j - 1
        BY <1>1, <2>2, <2>3, <2>4
    <2>5. CASE i < j - 1
        <3>1. found[i] + Len(sub) <= found[j - 1]
            BY <1>2, <2>1, <2>5
        <3> QED
            BY <1>1, <2>2, <2>3, <3>1
    <2> QED
        BY <2>1, <2>4, <2>5
<1>8. ASSUME NEW i \in 0 .. num, NEW x \in B(i) + 1 .. E(i) PROVE Put(t, sub, rep, found, num, x) = <<t[x]>>
    <2>1. x \in Nat /\ B(i) < x /\ x <= E(i) /\ B(i) \in Nat /\ E(i) \in Nat
        BY <1>2
    <2>2. x \notin gone
        <3> SUFFICES ASSUME NEW j \in 0 .. num - 1, found[j] + 1 <= x, x <= found[j] + Len(sub) PROVE FALSE
            BY <1>5, <2>1
        <3>1. PICK f \in Nat : f = found[j]
            BY <1>3
        <3>2. f < x /\ x <= f + Len(sub)
            BY <2>1, <3>1
        <3>3. CASE j < i
            <4>1. B(j + 1) = f + Len(sub) /\ B(j + 1) <= B(i)
                <5>1. CASE j + 1 = i
                    BY <1>2, <2>1, <3>1, <5>1
                <5>2. CASE j + 1 # i /\ i # num
                    <6>1. i \in 0 .. num - 1
                        BY <5>2
                    <6> QED
                        BY <1>2, <1>7, <3>1, <3>3, <6>1
                <5>3. CASE j + 1 # i /\ i = num
                    <6>1. i - 1 \in 0 .. num - 1 /\ j < i - 1 /\ (i - 1) + 1 = i
                        BY <3>3, <5>3
                    <6>2. B(i) = found[i - 1] + Len(sub) /\ f + Len(sub) <= found[i - 1] /\ found[i - 1] \in Nat
                        BY <1>2, <1>3, <3>1, <6>1
                    <6>3. B(j + 1) = f + Len(sub)
                        BY <1>2, <3>1
                    <6> QED
                        BY <1>1, <6>2, <6>3
                <5> QED
                    BY <5>1, <5>2, <5>3
            <4> QED
                BY <1>1, <2>1, <3>2, <4>1
        <3>4. CASE ~ (j < i)
            <4>0. i \in 0 .. num - 1 /\ (i < j \/ i = j)
                BY <3>4
            <4>1. i \in 0 .. num - 1 /\ E(i) = found[i] /\ (i < j \/ i = j)
                BY <1>2, <4>0
            <4>2. CASE i = j
                BY <2>1, <3>1, <3>2, <4>1, <4>2
            <4>3. CASE i < j
                <5>1. found[i] + Len(sub) <= f /\ found[i] \in Nat
                    BY <1>2, <1>3, <3>1, <4>1, <4>3
                <5> QED
                    BY <1>1, <2>1, <3>2, <4>1, <5>1
            <4> QED
                BY <4>1, <4>2, <4>3
        <3> QED
            BY <3>3, <3>4
    <2>3. x \notin here
        BY <1>6, <2>1, <2>2
    <2> QED
        BY <1>0, <2>2, <2>3, Zenon
<1>9. ASSUME NEW i \in 0 .. num - 1 PROVE Put(t, sub, rep, found, num, found[i] + 1) = rep
    <2>1. found[i] + 1 \in here
        BY DEF here
    <2> QED
        BY <1>0, <2>1, Zenon
<1>10. ASSUME NEW i \in 0 .. num - 1, NEW x \in found[i] + 2 .. found[i] + Len(sub)
       PROVE  Put(t, sub, rep, found, num, x) = <<>>
    <2>1. PICK f \in Nat : f = found[i]
        BY <1>3
    <2>2. x \in Nat /\ f + 2 <= x /\ x <= f + Len(sub)
        BY <1>1, <2>1
    <2>3. x \in gone
        <3>1. found[i] + 1 <= x /\ x <= found[i] + Len(sub)
            BY <1>1, <2>1, <2>2
        <3> QED
            BY <1>5, <2>2, <3>1
    <2>4. x \notin here
        <3> SUFFICES ASSUME NEW j \in 0 .. num - 1, x = found[j] + 1 PROVE FALSE
            BY <1>4, <2>2
        <3>1. PICK g \in Nat : g = found[j]
            BY <1>3
        <3>2. i < j => f + Len(sub) <= g
            BY <1>2, <2>1, <3>1
        <3>3. j < i => g + Len(sub) <= f
            BY <1>2, <2>1, <3>1
        <3>4. i = j => f = g
            BY <2>1, <3>1
        <3>5. i < j \/ i = j \/ j < i
            OBVIOUS
        <3>6. x = g + 1
            BY <3>1
        <3> QED
            BY <1>1, <2>2, <3>2, <3>3, <3>4, <3>5, <3>6
    <2> QED
        BY <1>0, <2>3, <2>4, Zenon
<1> QED
    BY <1>8, <1>9, <1>10, Zenon DEF B, E, Puts

\* X[p] is the text of Replaced up to the character p.
Grown(t, sub, rep, found, num, X) ==
    /\ X \in [0 .. Len(t) -> Seq(Char)] /\ X[0] = <<>> /\ X[Len(t)] = Seqs!Replaced(t, sub, rep)
    /\ \A p \in 1 .. Len(t) : X[p] = X[p - 1] \o Put(t, sub, rep, found, num, p)

LEMMA ReplacedGrows ==
    ASSUME NEW t \in Seq(Char), NEW sub \in Seq(Char), sub # <<>>, NEW rep \in Seq(Char), NEW found,
           NEW num \in Nat, Cuts(t, sub, found, num)
    PROVE  \E X : Grown(t, sub, rep, found, num, X)
<1> DEFINE n == Len(t)
           here == {found[i] + 1 : i \in 0 .. num - 1}
           gone == UNION {x .. x + Len(sub) - 1 : x \in here}
           P(p) == IF p \in here THEN rep ELSE IF p \in gone THEN <<>> ELSE <<t[p]>>
           V == Seq(Char)
           Q(i) == IF i + 1 \in 1 .. n THEN P(i + 1) ELSE <<>>
           G == [i \in Nat |-> [v \in V |-> v \o Q(i)]]
           F(f) == [p \in 0 .. n |-> IF p = 0 THEN <<>> ELSE f[p - 1] \o P(p)]
<1>1. Seqs!Replaced(t, sub, rep) = (CHOOSE f : f = F(f))[n]
    <2>1. Seqs!Places(t, sub) = here
        BY PlacesAre
    <2> HIDE DEF here
    <2> QED
        BY <2>1, Zenon DEF Seqs!Replaced
<1>2. n \in Nat
    OBVIOUS
<1>3. \A p \in 1 .. n : P(p) \in V
    <2>1. \A p \in 1 .. n : t[p] \in Char
        OBVIOUS
    <2> HIDE DEF here, gone
    <2> QED
        BY <2>1
<1>4. \A p : Put(t, sub, rep, found, num, p) = P(p)
    BY Zenon DEF Put
<1> HIDE DEF P, n
<1>5. \A i \in Nat : Q(i) \in V
    BY <1>3
<1> HIDE DEF Q
<1>6. \A i \in Nat : \A v \in V : v \o Q(i) \in V
    BY <1>5
<1> HIDE DEF V
<1>7. G \in [Nat -> [V -> V]]
    BY <1>6
<1>8. <<>> \in V
    BY DEF V
<1>9. PICK f : Begun(f, n, V, <<>>, G)
    <2> HIDE DEF G
    <2> QED
        BY <1>2, <1>7, <1>8, Recursion
<1>10. f = F(f)
    <2>1. f \in [0 .. n -> V] /\ f[0] = <<>> /\ \A i \in 0 .. n - 1 : f[i + 1] = G[i][f[i]]
        BY <1>9, Zenon DEF Begun
    <2>2. \A p \in 0 .. n : f[p] = IF p = 0 THEN <<>> ELSE f[p - 1] \o P(p)
        <3> SUFFICES ASSUME NEW p \in 0 .. n, p # 0 PROVE f[p] = f[p - 1] \o P(p)
            BY <2>1
        <3>1. p - 1 \in 0 .. n - 1 /\ p - 1 \in 0 .. n /\ p - 1 \in Nat /\ (p - 1) + 1 = p /\ p \in 1 .. n
            BY <1>2
        <3>2. f[p] = G[p - 1][f[p - 1]] /\ f[p - 1] \in V
            BY <2>1, <3>1
        <3>3. G[p - 1][f[p - 1]] = f[p - 1] \o Q(p - 1)
            BY <3>1, <3>2
        <3>4. Q(p - 1) = P(p)
            BY <3>1 DEF Q
        <3> QED
            BY <3>2, <3>3, <3>4
    <2> HIDE DEF G
    <2> QED
        BY <2>1, <2>2
<1> DEFINE X == CHOOSE f_1 : f_1 = F(f_1)
<1>11. X = F(X)
    BY <1>10, Zenon
<1>12. Seqs!Replaced(t, sub, rep) = X[n]
    BY <1>1
<1> HIDE DEF X
<1>13. X[0] = <<>> /\ \A p \in 1 .. n : X[p] = X[p - 1] \o P(p)
    <2>1. \A p \in 0 .. n : X[p] = IF p = 0 THEN <<>> ELSE X[p - 1] \o P(p)
        <3> HIDE DEF here, gone, G
        <3> QED
            BY <1>11, Zenon
    <2>2. 0 \in 0 .. n
        BY <1>2
    <2>3. \A p \in 1 .. n : p \in 0 .. n /\ p # 0
        BY <1>2
    <2> QED
        BY <2>1, <2>2, <2>3, Zenon
<1>14. X \in [0 .. n -> V]
    <2> DEFINE U == {p \in Nat : X[p] \in V}
    <2>1. 0 \in U
        BY <1>8, <1>13
    <2>2. \A p \in 0 .. n - 1 : p \in U => p + 1 \in U
        <3> SUFFICES ASSUME NEW p \in 0 .. n - 1, X[p] \in V PROVE X[p + 1] \in V
            BY <1>2
        <3>1. p + 1 \in 1 .. n /\ (p + 1) - 1 = p
            BY <1>2
        <3>2. X[p + 1] = X[p] \o P(p + 1) /\ P(p + 1) \in V
            BY <1>3, <1>13, <3>1
        <3> QED
            BY <3>2 DEF V
    <2> HIDE DEF U
    <2>3. \A p \in 0 .. n : p \in U
        BY <1>2, <2>1, <2>2, InductiveUpTo
    <2>4. \A p \in 0 .. n : X[p] \in V
        BY <2>3 DEF U
    <2>5. X = [p \in 0 .. n |-> X[p]]
        BY <1>11
    <2> QED
        BY <2>4, <2>5
<1>15. \A p \in 1 .. n : X[p] = X[p - 1] \o Put(t, sub, rep, found, num, p)
    BY <1>4, <1>13
<1>16. Grown(t, sub, rep, found, num, X)
    BY <1>12, <1>13, <1>14, <1>15 DEF Grown, n, V
<1> QED
    BY <1>16, Zenon

\* The characters a + 1 .. b of t.
Slice(t, a, b) == SubSeq(t, a + 1, b)

LEMMA SliceIs ==
    ASSUME NEW t \in Seq(Char), NEW a \in Nat, NEW b \in Nat, a <= b, b <= Len(t)
    PROVE  /\ Slice(t, a, b) \in Seq(Char) /\ Len(Slice(t, a, b)) = b - a
           /\ \A k \in 1 .. b - a : Slice(t, a, b)[k] = t[a + k]
           /\ Slice(t, a, a) = <<>>
<1>1. \A k \in a + 1 .. b : t[k] \in Char
    OBVIOUS
<1>2. a + 1 \in Int /\ b \in Int /\ a \in Int /\ a < a + 1
    OBVIOUS
<1>3. /\ SubSeq(t, a + 1, b) \in Seq(Char)
      /\ Len(SubSeq(t, a + 1, b)) = IF a + 1 <= b THEN b - (a + 1) + 1 ELSE 0
      /\ \A k \in 1 .. b - (a + 1) + 1 : SubSeq(t, a + 1, b)[k] = t[(a + 1) + k - 1]
    BY <1>1, <1>2, SubSeqProperties
<1>4. SubSeq(t, a + 1, a) = <<>>
    BY <1>2, SubSeqEmpty
<1> QED
    BY <1>3, <1>4 DEF Slice

\* One character more.
LEMMA SliceNext ==
    ASSUME NEW t \in Seq(Char), NEW a \in Nat, NEW b \in Nat, a <= b, b < Len(t)
    PROVE  Slice(t, a, b + 1) = Slice(t, a, b) \o <<t[b + 1]>>
<1>1. a + 1 \in 1 .. Len(t) /\ b + 1 \in a + 1 .. Len(t) /\ (b + 1) - 1 = b
    OBVIOUS
<1>2. SubSeq(t, a + 1, b + 1) = SubSeq(t, a + 1, (b + 1) - 1) \o <<t[b + 1]>>
    BY <1>1, SubSeqRecursiveSecond
<1> QED
    BY <1>1, <1>2 DEF Slice

\* Two pieces that meet.
LEMMA SlicesMeet ==
    ASSUME NEW t \in Seq(Char), NEW a \in Nat, NEW b \in Nat, a <= b, b <= Len(t)
    PROVE  Slice(t, 0, a) \o Slice(t, a, b) = Slice(t, 0, b)
<1>1. 1 \in 1 .. Len(t) + 1 /\ a \in 1 - 1 .. Len(t) /\ b \in a .. Len(t) /\ 0 + 1 = 1
    OBVIOUS
<1>2. SubSeq(t, 1, a) \o SubSeq(t, a + 1, b) = SubSeq(t, 1, b)
    BY <1>1, ConcatAdjacentSubSeq
<1> QED
    BY <1>1, <1>2 DEF Slice

\* Replaced copies the pieces and puts rep between them.
Stepped(t, sub, rep, found, num, X) ==
    /\ \A i \in 0 .. num :
          X[To(t, found, num, i)] = X[From(sub, found, i)] \o Slice(t, From(sub, found, i), To(t, found, num, i))
    /\ \A i \in 0 .. num - 1 : X[From(sub, found, i + 1)] = X[To(t, found, num, i)] \o rep

LEMMA GrownSteps ==
    ASSUME NEW t \in Seq(Char), NEW sub \in Seq(Char), sub # <<>>, NEW rep \in Seq(Char), NEW found,
           NEW num \in Nat, Cuts(t, sub, found, num), NEW X, Grown(t, sub, rep, found, num, X)
    PROVE  Stepped(t, sub, rep, found, num, X)
<1>0. Puts(t, sub, rep, found, num)
    BY PutIs
<1> DEFINE n == Len(t)
           B(i) == From(sub, found, i)
           E(i) == To(t, found, num, i)
           P(p) == Put(t, sub, rep, found, num, p)
<1>1. n \in Nat /\ Len(sub) \in Nat /\ Len(sub) >= 1
    <2>1. Len(sub) # 0
        BY EmptySeq
    <2> QED
        BY <2>1
<1>2. /\ \A i \in 0 .. num : B(i) \in Nat /\ E(i) \in Nat /\ B(i) <= E(i) /\ E(i) <= n
      /\ \A i \in 0 .. num - 1 : E(i) = found[i] /\ B(i + 1) = found[i] + Len(sub) /\ found[i] + Len(sub) <= n
    BY CutsInOrder
<1>3. /\ \A i \in 0 .. num : \A x \in B(i) + 1 .. E(i) : P(x) = <<t[x]>>
      /\ \A i \in 0 .. num - 1 : P(found[i] + 1) = rep
      /\ \A i \in 0 .. num - 1 : \A x \in found[i] + 2 .. found[i] + Len(sub) : P(x) = <<>>
    BY <1>0, Zenon DEF Puts
<1>4. /\ \A p \in 0 .. n : X[p] \in Seq(Char)
      /\ \A p \in 1 .. n : X[p] = X[p - 1] \o P(p)
    BY DEF Grown
<1> HIDE DEF P, B, E
<1>5. \A p \in Nat : p < n => X[p] \in Seq(Char) /\ X[p + 1] = X[p] \o P(p + 1)
    <2> SUFFICES ASSUME NEW p \in Nat, p < n PROVE X[p] \in Seq(Char) /\ X[p + 1] = X[p] \o P(p + 1)
        OBVIOUS
    <2>1. p \in 0 .. n /\ p + 1 \in 1 .. n /\ (p + 1) - 1 = p
        BY <1>1
    <2> HIDE DEF n
    <2> QED
        BY <1>4, <2>1
<1>6. ASSUME NEW i \in 0 .. num PROVE X[E(i)] = X[B(i)] \o Slice(t, B(i), E(i))
    <2>1. PICK b \in Nat, e \in Nat : b = B(i) /\ e = E(i) /\ b <= e /\ e <= n
        BY <1>2
    <2>2. \A x \in b + 1 .. e : P(x) = <<t[x]>>
        BY <1>3, <2>1
    <2> DEFINE U == {q \in Nat : b + q <= e => X[b + q] = X[b] \o Slice(t, b, b + q)}
    <2>3. X[b] \in Seq(Char)
        <3>1. b \in 0 .. n
            BY <1>1, <2>1
        <3> QED
            BY <1>4, <3>1
    <2>4. 0 \in U
        <3>1. Slice(t, b, b) = <<>>
            BY <1>1, <2>1, SliceIs
        <3>2. b + 0 = b
            OBVIOUS
        <3>3. X[b] \o <<>> = X[b]
            BY <2>3, ConcatEmptySeq
        <3> QED
            BY <3>1, <3>2, <3>3
    <2>5. ASSUME NEW q \in Nat, q \in U, b + (q + 1) <= e
          PROVE  X[b + (q + 1)] = X[b] \o Slice(t, b, b + (q + 1))
        <3>1. PICK p \in Nat : p = b + q
            OBVIOUS
        <3>2. p + 1 = b + (q + 1) /\ p < n /\ p <= e /\ b <= p /\ p + 1 \in b + 1 .. e /\ p + 1 \in 1 .. n
            BY <1>1, <2>1, <2>5, <3>1
        <3>3. X[p] = X[b] \o Slice(t, b, p)
            BY <2>5, <3>1, <3>2
        <3> HIDE DEF U
        <3>4. X[p + 1] = X[p] \o <<t[p + 1]>>
            BY <1>5, <2>2, <3>2
        <3>5. Slice(t, b, p + 1) = Slice(t, b, p) \o <<t[p + 1]>>
            BY <3>2, SliceNext
        <3>6. Slice(t, b, p) \in Seq(Char)
            BY <1>1, <3>2, SliceIs
        <3>7. <<t[p + 1]>> \in Seq(Char)
            <4>1. t[p + 1] \in Char
                BY <3>2
            <4> QED
                BY <4>1
        <3>8. (X[b] \o Slice(t, b, p)) \o <<t[p + 1]>> = X[b] \o (Slice(t, b, p) \o <<t[p + 1]>>)
            <4>1. Associative(X[b], Slice(t, b, p), <<t[p + 1]>>)
                BY <2>3, <3>6, <3>7, Associates
            <4> QED
                BY <4>1 DEF Associative
        <3>9. X[p + 1] = X[b] \o Slice(t, b, p + 1)
            BY <3>3, <3>4, <3>5, <3>8
        <3> QED
            BY <3>2, <3>9
    <2>6. ASSUME NEW q \in Nat, q \in U PROVE q + 1 \in U
        <3>1. q + 1 \in Nat
            OBVIOUS
        <3> QED
            BY <2>5, <2>6, <3>1
    <2>7. e - b \in Nat /\ b + (e - b) = e
        BY <2>1
    <2> HIDE DEF U
    <2>8. \A q \in Nat : q \in U
        BY <2>4, <2>6, Inductive
    <2>9. X[b + (e - b)] = X[b] \o Slice(t, b, b + (e - b))
        <3>1. e - b \in U /\ b + (e - b) <= e
            BY <2>1, <2>7, <2>8
        <3> QED
            BY <3>1 DEF U
    <2> QED
        BY <2>1, <2>7, <2>9
<1>7. ASSUME NEW i \in 0 .. num - 1 PROVE X[B(i + 1)] = X[E(i)] \o rep
    <2>1. i \in 0 .. num
        OBVIOUS
    <2>2. PICK f \in Nat, l \in Nat : /\ f = found[i] /\ f = E(i) /\ l = Len(sub) /\ B(i + 1) = f + l /\ f + l <= n
                                      /\ l >= 1
        BY <1>1, <1>2, <2>1
    <2>3. P(f + 1) = rep /\ \A x \in f + 2 .. f + l : P(x) = <<>>
        BY <1>3, <2>2
    <2> DEFINE U == {q \in Nat : f + 1 + q <= f + l => X[f + 1 + q] = X[f] \o rep}
    <2>4. 0 \in U
        <3>1. f < n /\ f + 1 + 0 = f + 1
            BY <1>1, <2>2
        <3>2. X[f + 1] = X[f] \o rep
            BY <1>5, <2>3, <3>1
        <3> QED
            BY <3>1, <3>2
    <2>5. ASSUME NEW q \in Nat, q \in U, f + 1 + (q + 1) <= f + l
          PROVE  X[f + 1 + (q + 1)] = X[f] \o rep
        <3>1. PICK p \in Nat : p = f + 1 + q
            OBVIOUS
        <3>2. p + 1 = f + 1 + (q + 1) /\ p < n /\ p <= f + l /\ p + 1 \in f + 2 .. f + l
            <4>1. p + 1 = f + 1 + (q + 1) /\ p + 1 <= f + l /\ f + 2 <= p + 1
                BY <2>5, <3>1
            <4> HIDE DEF n, U
            <4>2. p < f + l /\ p + 1 \in f + 2 .. f + l
                BY <4>1
            <4>3. p < n
                BY <1>1, <2>2, <4>2
            <4> QED
                BY <4>1, <4>2, <4>3
        <3>3. X[p] = X[f] \o rep
            BY <2>5, <3>1, <3>2
        <3> HIDE DEF U
        <3>4. X[p + 1] = X[p] \o <<>> /\ X[p] \in Seq(Char)
            BY <1>5, <2>3, <3>2
        <3>5. X[p + 1] = X[p]
            BY <3>4, ConcatEmptySeq
        <3> QED
            BY <3>2, <3>3, <3>5
    <2>6. ASSUME NEW q \in Nat, q \in U PROVE q + 1 \in U
        <3>1. q + 1 \in Nat
            OBVIOUS
        <3> QED
            BY <2>5, <2>6, <3>1
    <2> HIDE DEF U
    <2>7. \A q \in Nat : q \in U
        BY <2>4, <2>6, Inductive
    <2>8. l - 1 \in Nat /\ f + 1 + (l - 1) = f + l
        BY <2>2
    <2>9. X[f + 1 + (l - 1)] = X[f] \o rep
        <3>1. l - 1 \in U /\ f + 1 + (l - 1) <= f + l
            BY <2>7, <2>8
        <3> QED
            BY <3>1 DEF U
    <2> QED
        BY <2>2, <2>8, <2>9
<1> QED
    BY <1>6, <1>7, Zenon DEF B, E, Stepped

\* Products of naturals.
LEMMA Times ==
    /\ \A i, l \in Nat : i * l \in Nat /\ (i + 1) * l = i * l + l /\ i * l = l * i
    /\ \A i, j, l \in Nat : i < j => i * l + l <= j * l
<1>1. \A i, l \in Nat : i * l \in Nat /\ (i + 1) * l = i * l + l /\ i * l = l * i
    OBVIOUS
<1>2. ASSUME NEW i \in Nat, NEW l \in Nat PROVE \A j \in Nat : i < j => i * l + l <= j * l
    <2> DEFINE U == {j \in Nat : i < j => i * l + l <= j * l}
    <2>1. 0 \in U
        OBVIOUS
    <2>2. ASSUME NEW j \in Nat, j \in U PROVE j + 1 \in U
        <3>1. PICK x \in Nat, y \in Nat : x = i * l /\ y = j * l
            BY <1>1
        <3>2. (j + 1) * l = y + l /\ j + 1 \in Nat
            BY <1>1, <3>1
        <3>3. i < j => x + l <= y
            BY <2>2, <3>1
        <3>4. i = j => x = y
            BY <3>1
        <3>5. i < j + 1 => x + l <= y + l
            BY <3>3, <3>4
        <3> QED
            BY <3>1, <3>2, <3>5
    <2> HIDE DEF U
    <2>3. \A j \in Nat : j \in U
        BY <2>1, <2>2, Inductive
    <2> QED
        BY <2>3 DEF U
<1> QED
    BY <1>1, <1>2, Zenon

\* How long the text of Replaced is at the ends of a piece, and that what is to come has room.
Measured(t, sub, rep, found, num, X) ==
    \A i \in 0 .. num :
        /\ X[From(sub, found, i)] \in Seq(Char) /\ X[To(t, found, num, i)] \in Seq(Char)
        /\ Len(X[To(t, found, num, i)]) + i * Len(sub) = To(t, found, num, i) + i * Len(rep)
        /\ To(t, found, num, i) + num * Len(sub) <= Len(t) + i * Len(sub)

LEMMA Lengths ==
    ASSUME NEW t \in Seq(Char), NEW sub \in Seq(Char), sub # <<>>, NEW rep \in Seq(Char), NEW found,
           NEW num \in Nat, Cuts(t, sub, found, num), NEW X, Grown(t, sub, rep, found, num, X)
    PROVE  Measured(t, sub, rep, found, num, X)
<1>0. /\ \A i \in 0 .. num : /\ From(sub, found, i) \in Nat /\ To(t, found, num, i) \in Nat
                             /\ From(sub, found, i) <= To(t, found, num, i)
                             /\ To(t, found, num, i) <= Len(t)
      /\ \A i \in 0 .. num - 1 : /\ To(t, found, num, i) = found[i] /\ From(sub, found, i + 1) = found[i] + Len(sub)
                                 /\ found[i] + Len(sub) <= Len(t)
    BY CutsInOrder
<1> DEFINE B(i) == From(sub, found, i)
           E(i) == To(t, found, num, i)
<1>1. PICK n \in Nat, l \in Nat, r \in Nat : n = Len(t) /\ l = Len(sub) /\ r = Len(rep)
    OBVIOUS
<1>2. /\ \A i \in 0 .. num : B(i) \in Nat /\ E(i) \in Nat /\ B(i) <= E(i) /\ E(i) <= n
      /\ \A i \in 0 .. num - 1 : E(i) = found[i] /\ B(i + 1) = found[i] + l
    <2>1. /\ \A i \in 0 .. num : B(i) \in Nat /\ E(i) \in Nat /\ B(i) <= E(i) /\ E(i) <= Len(t)
          /\ \A i \in 0 .. num - 1 : E(i) = found[i] /\ B(i + 1) = found[i] + Len(sub)
        BY <1>0
    <2> QED
        BY <1>1, <2>1
<1>3. /\ \A i \in 0 .. num : X[E(i)] = X[B(i)] \o Slice(t, B(i), E(i))
      /\ \A i \in 0 .. num - 1 : X[B(i + 1)] = X[E(i)] \o rep
    <2>1. Stepped(t, sub, rep, found, num, X)
        BY GrownSteps
    <2> QED
        BY <2>1, Zenon DEF Stepped
<1>4. B(0) = 0 /\ E(num) = n
    BY <1>1 DEF From, To
<1> HIDE DEF B, E
<1>5. X[0] = <<>> /\ \A p \in 0 .. n : X[p] \in Seq(Char)
    BY <1>1 DEF Grown
<1>6. \A i \in 0 .. num : X[B(i)] \in Seq(Char) /\ X[E(i)] \in Seq(Char)
    <2> SUFFICES ASSUME NEW i \in 0 .. num PROVE X[B(i)] \in Seq(Char) /\ X[E(i)] \in Seq(Char)
        OBVIOUS
    <2>1. B(i) \in 0 .. n /\ E(i) \in 0 .. n
        BY <1>2
    <2> QED
        BY <1>5, <2>1
<1>7. ASSUME NEW i \in 0 .. num PROVE Len(X[E(i)]) + B(i) = Len(X[B(i)]) + E(i)
    <2>1. PICK b \in Nat, e \in Nat : b = B(i) /\ e = E(i) /\ b <= e /\ e <= Len(t)
        BY <1>1, <1>2
    <2>2. Slice(t, b, e) \in Seq(Char) /\ Len(Slice(t, b, e)) = e - b
        BY <2>1, SliceIs
    <2>3. X[e] = X[b] \o Slice(t, b, e) /\ X[b] \in Seq(Char)
        BY <1>3, <1>6, <2>1
    <2>4. Len(X[e]) = Len(X[b]) + (e - b) /\ Len(X[b]) \in Nat
        <3>1. PICK y, z : y = X[b] /\ z = Slice(t, b, e)
            OBVIOUS
        <3>2. y \in Seq(Char) /\ z \in Seq(Char)
            BY <2>2, <2>3, <3>1
        <3>3. Len(y \o z) = Len(y) + Len(z) /\ Len(y) \in Nat
            BY <3>2
        <3> QED
            BY <2>2, <2>3, <3>1, <3>3
    <2> QED
        BY <2>1, <2>4
<1>8. \A i \in 0 .. num : Len(X[B(i)]) + i * l = B(i) + i * r
    <2> DEFINE U == {i \in Nat : Len(X[B(i)]) + i * l = B(i) + i * r}
    <2>1. 0 \in U
        <3>1. Len(X[B(0)]) = 0 /\ 0 * l = 0 /\ 0 * r = 0
            BY <1>4, <1>5
        <3> QED
            BY <1>4, <3>1
    <2>2. ASSUME NEW i \in 0 .. num - 1, i \in U PROVE i + 1 \in U
        <3>1. i \in 0 .. num /\ i + 1 \in 0 .. num /\ i \in Nat /\ i + 1 \in Nat
            OBVIOUS
        <3>2. PICK x \in Nat, y \in Nat : x = i * l /\ y = i * r /\ (i + 1) * l = x + l /\ (i + 1) * r = y + r
            BY <3>1, Times
        <3>3. PICK b \in Nat, e \in Nat : b = B(i) /\ e = E(i) /\ B(i + 1) = e + l
            BY <1>2, <3>1
        <3>4. PICK u \in Nat, v \in Nat : u = Len(X[B(i)]) /\ v = Len(X[E(i)])
            BY <1>6, <3>1, LenProperties
        <3>5. Len(X[B(i + 1)]) = v + r
            BY <1>1, <1>3, <1>6, <3>1, <3>4, ConcatProperties
        <3>6. u + x = b + y
            BY <2>2, <3>2, <3>3, <3>4
        <3>7. v + b = u + e
            BY <1>7, <3>1, <3>3, <3>4
        <3>8. (v + r) + (x + l) = (e + l) + (y + r)
            BY <3>6, <3>7
        <3> QED
            BY <3>1, <3>2, <3>3, <3>5, <3>8
    <2> HIDE DEF U
    <2>3. \A i \in 0 .. num : i \in U
        BY <2>1, <2>2, InductiveUpTo
    <2> QED
        BY <2>3 DEF U
<1>9. ASSUME NEW i \in 0 .. num PROVE Len(X[E(i)]) + i * l = E(i) + i * r
    <2>1. PICK x \in Nat, y \in Nat : x = i * l /\ y = i * r
        BY Times
    <2>2. PICK b \in Nat, e \in Nat : b = B(i) /\ e = E(i)
        BY <1>2
    <2>3. PICK u \in Nat, v \in Nat : u = Len(X[B(i)]) /\ v = Len(X[E(i)])
        BY <1>6, LenProperties
    <2>4. v + b = u + e /\ u + x = b + y
        BY <1>7, <1>8, <2>1, <2>2, <2>3
    <2>5. v + x = e + y
        BY <2>4
    <2> QED
        BY <2>1, <2>2, <2>3, <2>5
<1>10. ASSUME NEW i \in 0 .. num PROVE E(i) + num * l <= n + i * l
    <2>1. PICK x \in Nat, e \in Nat : x = i * l /\ e = E(i)
        <3>1. i \in Nat /\ E(i) \in Nat
            BY <1>2
        <3>2. i * l \in Nat
            BY <3>1, Times
        <3> QED
            BY <3>1, <3>2
    <2> DEFINE U == {j \in Nat : i <= j => e + j * l <= E(j) + x}
    <2>2. 0 \in U
        BY <2>1
    <2>3. ASSUME NEW j \in 0 .. num - 1, j \in U PROVE j + 1 \in U
        <3>1. j \in 0 .. num /\ j + 1 \in 0 .. num /\ j \in Nat /\ j + 1 \in Nat
            OBVIOUS
        <3>2. PICK y \in Nat : y = j * l /\ (j + 1) * l = y + l
            BY <3>1, Times
        <3>3. PICK f \in Nat, g \in Nat : f = E(j) /\ g = E(j + 1) /\ f + l <= g
            BY <1>2, <3>1
        <3>4. i <= j => e + y <= f + x
            BY <2>3, <3>2, <3>3
        <3>5. i = j + 1 => e = g /\ x = y + l
            BY <2>1, <3>2, <3>3
        <3>6. i <= j + 1 => e + (y + l) <= g + x
            <4>1. i <= j + 1 => i <= j \/ i = j + 1
                BY <3>1
            <4>2. e + y <= f + x => e + (y + l) <= g + x
                BY <3>3
            <4>3. e = g /\ x = y + l => e + (y + l) <= g + x
                OBVIOUS
            <4> QED
                BY <3>4, <3>5, <4>1, <4>2, <4>3, Zenon
        <3> QED
            BY <3>1, <3>2, <3>3, <3>6
    <2> HIDE DEF U
    <2>4. \A j \in 0 .. num : j \in U
        BY <2>2, <2>3, InductiveUpTo
    <2>5. num \in 0 .. num /\ i <= num
        OBVIOUS
    <2>6. e + num * l <= E(num) + x
        BY <2>4, <2>5 DEF U
    <2> QED
        BY <1>4, <2>1, <2>6
<1> QED
    BY <1>1, <1>6, <1>9, <1>10, Zenon DEF Measured, B, E

\* One step of Joined.
Join(piece, rep, size, u) ==
    LET t == u \o Bytes(piece, 0, piece.length) IN IF Len(t) < size THEN t \o rep ELSE t

\* Joined makes of the pieces what Replaced makes of the text.
LEMMA JoinIs ==
    ASSUME NEW s, NEW t, Holds(s, t), NEW sub \in Seq(Char), sub # <<>>, NEW rep \in Seq(Char)
    PROVE  LET num == str_count(s, sub)
               size == s.length + Len(rep) * num - Len(sub) * num
               text == Joined(str_split(s, sub), rep, size) IN
           /\ text = Seqs!Replaced(t, sub, rep)
           /\ text \in Seq(Char) /\ Len(text) = size /\ size \in Nat
<1> DEFINE found == Finds(s, sub)
           num == str_count(s, sub)
           size == s.length + Len(rep) * num - Len(sub) * num
           pieces == str_split(s, sub)
           B(i) == From(sub, found, i)
           E(i) == To(t, found, num, i)
           V == Seq(Char)
           m == num + 1
           F(f) == [i \in 0 .. m |-> IF i = 0 THEN <<>> ELSE Join(pieces[i], rep, size, f[i - 1])]
<1>1. /\ t \in Seq(Char) /\ s.length = Len(t) /\ num \in Nat /\ Cuts(t, sub, found, num)
    <2>1. s.capacity \in Nat
        BY HoldsSays
    <2> QED
        BY <2>1, HoldsSays, CountIs
<1>2. /\ Len(pieces) = m
      /\ \A i \in 0 .. num : Holds(pieces[i + 1], SubSeq(t, B(i) + 1, E(i)))
    BY SplitIs
<1>3. Joined(pieces, rep, size) = (CHOOSE f : f = F(f))[m]
    <2> HIDE DEF m, size, pieces
    <2> QED
        BY <1>2, Zenon DEF Joined, Join
<1> HIDE DEF found, num, pieces
<1>4. PICK X : Grown(t, sub, rep, found, num, X)
    BY <1>1, ReplacedGrows
<1>5. Measured(t, sub, rep, found, num, X)
    BY <1>1, <1>4, Lengths
<1>6. /\ \A i \in 0 .. num : X[E(i)] = X[B(i)] \o Slice(t, B(i), E(i))
      /\ \A i \in 0 .. num - 1 : X[B(i + 1)] = X[E(i)] \o rep
    <2>1. Stepped(t, sub, rep, found, num, X)
        BY <1>1, <1>4, GrownSteps
    <2> QED
        BY <2>1, Zenon DEF Stepped
<1>7. \A i \in 0 .. num : Bytes(pieces[i + 1], 0, pieces[i + 1].length) = Slice(t, B(i), E(i))
    BY <1>2, TextIs DEF Slice
<1>8. PICK n \in Nat, l \in Nat, r \in Nat : n = Len(t) /\ l = Len(sub) /\ r = Len(rep)
    BY <1>1
<1>9. B(0) = 0 /\ E(num) = n
    BY <1>8 DEF From, To
<1>10. PICK nl \in Nat, nr \in Nat : nl = num * l /\ nr = num * r /\ size = n + nr - nl
    <2>1. num * l \in Nat /\ num * r \in Nat /\ num * l = l * num /\ num * r = r * num
        BY <1>1, Times
    <2> QED
        BY <1>1, <1>8, <2>1
<1>11. \A i \in 0 .. num : /\ X[B(i)] \in V /\ X[E(i)] \in V
                           /\ E(i) \in Nat /\ Len(X[E(i)]) + i * l = E(i) + i * r
                           /\ E(i) + nl <= n + i * l
    <2>1. \A i \in 0 .. num : To(t, found, num, i) \in Nat
        BY <1>1, CutsInOrder
    <2> QED
        BY <1>5, <1>8, <1>10, <2>1 DEF Measured
<1> HIDE DEF B, E, size
<1>12. size \in Nat /\ X[n] \in V /\ Len(X[n]) = size
    <2>1. num \in 0 .. num
        BY <1>1
    <2>2. X[n] \in V /\ Len(X[n]) + nl = n + nr /\ n + nl <= n + nl /\ n \in Nat
        BY <1>9, <1>10, <1>11, <2>1
    <2>3. PICK k \in Nat : k = Len(X[n])
        BY <2>2
    <2>4. k = size
        <3>1. k + nl = n + nr
            BY <2>2, <2>3
        <3>2. k = n + nr - nl
            BY <3>1
        <3> QED
            BY <1>10, <3>2, Zenon
    <2> QED
        BY <2>2, <2>3, <2>4
\* What is joined of a piece is Replaced up to the next one.
<1>13. ASSUME NEW i \in 0 .. num - 1 PROVE Join(pieces[i + 1], rep, size, X[B(i)]) = X[B(i + 1)]
    <2>1. i \in 0 .. num /\ i \in Nat /\ i < num
        BY <1>1
    <2>2. X[B(i)] \o Bytes(pieces[i + 1], 0, pieces[i + 1].length) = X[E(i)]
        BY <1>6, <1>7, <2>1
    <2>3. PICK y \in V : y = X[E(i)]
        BY <1>11, <2>1
    <2>4. Join(pieces[i + 1], rep, size, X[B(i)]) = IF Len(y) < size THEN y \o rep ELSE y
        BY <2>2, <2>3 DEF Join
    <2>5. Len(y) + r <= size /\ Len(y) \in Nat
        <3>1. PICK x \in Nat, z \in Nat : x = i * l /\ z = i * r /\ z + r <= nr
            <4>1. i * l \in Nat /\ i * r \in Nat /\ i * r + r <= num * r
                BY <1>1, <2>1, Times
            <4> QED
                BY <1>10, <4>1
        <3>2. PICK e \in Nat : e = E(i) /\ e + nl <= n + x /\ Len(y) + x = e + z
            BY <1>11, <2>1, <2>3, <3>1
        <3>3. PICK k \in Nat : k = Len(y)
            OBVIOUS
        <3>4. k + x = e + z
            BY <3>2, <3>3
        <3>5. k + r <= n + nr - nl
            BY <3>1, <3>2, <3>4
        <3> QED
            BY <1>10, <3>3, <3>5
    <2>6. ~ (Len(y) < size) => rep = <<>>
        <3>1. ~ (Len(y) < size) => r = 0
            BY <1>12, <2>5
        <3> QED
            BY <1>8, <3>1, EmptySeq
    <2>7. y \o <<>> = y
        BY ConcatEmptySeq
    <2>8. X[B(i + 1)] = y \o rep
        BY <1>6, <2>3
    <2> QED
        BY <2>4, <2>6, <2>7, <2>8
<1>14. Join(pieces[m], rep, size, X[B(num)]) = X[n]
    <2>1. num \in 0 .. num
        BY <1>1
    <2>2. X[B(num)] \o Bytes(pieces[m], 0, pieces[m].length) = X[n]
        BY <1>6, <1>7, <1>9, <2>1
    <2>3. ~ (Len(X[n]) < size)
        BY <1>12
    <2> QED
        BY <2>2, <2>3 DEF Join
\* So the recursion of Joined has a solution.
<1> DEFINE f == [i \in 0 .. m |-> IF i = m THEN X[n] ELSE X[B(i)]]
<1>15. f = F(f)
    <2>1. m \in Nat /\ m # 0
        BY <1>1
    <2>2. ASSUME NEW i \in 0 .. m PROVE f[i] = IF i = 0 THEN <<>> ELSE Join(pieces[i], rep, size, f[i - 1])
        <3>1. CASE i = 0
            <4>1. X[0] = <<>>
                BY <1>4 DEF Grown
            <4> QED
                BY <1>9, <2>1, <3>1, <4>1
        <3>2. CASE i # 0
            <4>1. i - 1 \in 0 .. m /\ i - 1 # m /\ (i - 1) + 1 = i /\ i - 1 \in 0 .. num
                BY <1>1, <3>2
            <4>2. f[i - 1] = X[B(i - 1)]
                BY <4>1
            <4>3. CASE i = m
                <5>1. i - 1 = num
                    BY <1>1, <4>3
                <5> QED
                    BY <1>14, <3>2, <4>2, <4>3, <5>1
            <4>4. CASE i # m
                <5>1. i - 1 \in 0 .. num - 1
                    BY <1>1, <3>2, <4>4
                <5>2. Join(pieces[(i - 1) + 1], rep, size, X[B(i - 1)]) = X[B((i - 1) + 1)]
                    BY <1>13, <5>1
                <5>3. f[i] = X[B(i)]
                    BY <4>4
                <5> HIDE DEF f
                <5> QED
                    BY <3>2, <4>1, <4>2, <5>2, <5>3
            <4> QED
                BY <4>3, <4>4
        <3> QED
            BY <3>1, <3>2
    <2>3. f = [i \in 0 .. m |-> f[i]]
        OBVIOUS
    <2> HIDE DEF f, m
    <2> QED
        BY <2>2, <2>3
<1> DEFINE g == CHOOSE f_1 : f_1 = F(f_1)
<1>16. g = F(g)
    <2> HIDE DEF f
    <2> QED
        BY <1>15, Zenon
<1>17. Joined(pieces, rep, size) = g[m]
    BY <1>3
<1> HIDE DEF g, f
<1>18. /\ g[0] = <<>> /\ \A i \in 1 .. m : g[i] = Join(pieces[i], rep, size, g[i - 1])
    BY <1>1, <1>16
<1>19. \A i \in 0 .. num : g[i] = X[B(i)]
    <2> DEFINE U == {i \in Nat : g[i] = X[B(i)]}
    <2>1. 0 \in U
        <3>1. X[0] = <<>>
            BY <1>4 DEF Grown
        <3> QED
            BY <1>9, <1>18, <3>1
    <2>2. ASSUME NEW i \in 0 .. num - 1, i \in U PROVE i + 1 \in U
        <3>1. i + 1 \in 1 .. m /\ (i + 1) - 1 = i /\ i + 1 \in Nat
            BY <1>1
        <3>2. g[i + 1] = Join(pieces[i + 1], rep, size, g[i]) /\ g[i] = X[B(i)]
            BY <1>18, <2>2, <3>1
        <3> QED
            BY <1>13, <3>1, <3>2
    <2> HIDE DEF U
    <2>3. \A i \in 0 .. num : i \in U
        BY <1>1, <2>1, <2>2, InductiveUpTo
    <2> QED
        BY <2>3 DEF U
<1>20. g[m] = X[n]
    <2>1. m \in 1 .. m /\ m - 1 = num /\ num \in 0 .. num
        BY <1>1
    <2>2. g[m] = Join(pieces[m], rep, size, g[m - 1])
        BY <1>18, <2>1
    <2> HIDE DEF m
    <2> QED
        BY <1>14, <1>19, <2>1, <2>2
<1>21. X[n] = Seqs!Replaced(t, sub, rep)
    BY <1>4, <1>8 DEF Grown
<1> QED
    BY <1>12, <1>17, <1>20, <1>21 DEF num, size, pieces

\* Every sub replaced by itself.
LEMMA ReplacedByItself ==
    ASSUME NEW t \in Seq(Char), NEW sub \in Seq(Char), sub # <<>>, NEW found, NEW num \in Nat,
           Cuts(t, sub, found, num)
    PROVE  Seqs!Replaced(t, sub, sub) = t
<1>1. PICK X : Grown(t, sub, sub, found, num, X)
    BY ReplacedGrows
<1>0. Stepped(t, sub, sub, found, num, X)
    BY <1>1, GrownSteps
<1> DEFINE B(i) == From(sub, found, i)
           E(i) == To(t, found, num, i)
<1>2. /\ \A i \in 0 .. num : X[E(i)] = X[B(i)] \o Slice(t, B(i), E(i))
      /\ \A i \in 0 .. num - 1 : X[B(i + 1)] = X[E(i)] \o sub
    BY <1>0, Zenon DEF Stepped
<1>3. /\ \A i \in 0 .. num : B(i) \in Nat /\ E(i) \in Nat /\ B(i) <= E(i) /\ E(i) <= Len(t)
      /\ \A i \in 0 .. num - 1 : /\ E(i) = found[i] /\ B(i + 1) = found[i] + Len(sub)
                                 /\ found[i] + Len(sub) <= Len(t)
    BY CutsInOrder
<1>4. \A i \in 0 .. num - 1 : found[i] \in Nat /\ Slice(t, found[i], found[i] + Len(sub)) = sub
    BY DEF Cuts, Match, Slice
<1>5. B(0) = 0 /\ E(num) = Len(t) /\ X[0] = <<>> /\ Slice(t, 0, 0) = <<>>
    <2>1. Slice(t, 0, 0) = <<>>
        BY SubSeqEmpty DEF Slice
    <2> QED
        BY <1>1, <2>1 DEF From, To, Grown
<1> HIDE DEF B, E
<1>6. ASSUME NEW i \in 0 .. num, X[B(i)] = Slice(t, 0, B(i)) PROVE X[E(i)] = Slice(t, 0, E(i))
    <2>1. X[E(i)] = Slice(t, 0, B(i)) \o Slice(t, B(i), E(i))
        BY <1>2, <1>6
    <2>2. B(i) \in Nat /\ E(i) \in Nat /\ B(i) <= E(i) /\ E(i) <= Len(t)
        BY <1>3
    <2> QED
        BY <2>1, <2>2, SlicesMeet
<1>7. \A i \in 0 .. num : X[B(i)] = Slice(t, 0, B(i))
    <2> DEFINE U == {i \in Nat : X[B(i)] = Slice(t, 0, B(i))}
    <2>1. 0 \in U
        BY <1>5
    <2>2. ASSUME NEW i \in 0 .. num - 1, i \in U PROVE i + 1 \in U
        <3>1. i \in 0 .. num /\ i + 1 \in Nat
            OBVIOUS
        <3>2. X[E(i)] = Slice(t, 0, E(i))
            BY <1>6, <2>2, <3>1
        <3>3. PICK f \in Nat, b \in Nat : f = E(i) /\ b = f + Len(sub) /\ b = B(i + 1) /\ b <= Len(t) /\ f <= b
                                          /\ Slice(t, f, b) = sub
            <4>1. Len(sub) \in Nat /\ found[i] \in Nat
                BY <1>4
            <4>2. E(i) = found[i] /\ B(i + 1) = found[i] + Len(sub) /\ found[i] + Len(sub) <= Len(t)
                BY <1>3
            <4>3. Slice(t, found[i], found[i] + Len(sub)) = sub
                BY <1>4
            <4>4. PICK x \in Nat, y \in Nat : x = found[i] /\ y = found[i] + Len(sub)
                BY <4>1
            <4>5. x <= y
                BY <4>1, <4>4
            <4> QED
                BY <4>2, <4>3, <4>4, <4>5
        <3>4. Slice(t, 0, f) \o Slice(t, f, b) = Slice(t, 0, b)
            BY <3>3, SlicesMeet
        <3>5. X[B(i + 1)] = Slice(t, 0, B(i + 1))
            BY <1>2, <3>2, <3>3, <3>4
        <3> QED
            BY <3>1, <3>5
    <2> HIDE DEF U
    <2>3. \A i \in 0 .. num : i \in U
        BY <2>1, <2>2, InductiveUpTo
    <2> QED
        BY <2>3 DEF U
<1>8. X[Len(t)] = Slice(t, 0, Len(t))
    <2>1. num \in 0 .. num
        OBVIOUS
    <2> QED
        BY <1>5, <1>6, <1>7, <2>1
<1>9. Slice(t, 0, Len(t)) = t
    <2>1. 0 + 1 = 1
        OBVIOUS
    <2> QED
        BY <2>1, SubSeqFull DEF Slice
<1> QED
    BY <1>1, <1>8, <1>9 DEF Grown

-----------------------------------------------------------------------------
(* The invariant of strings, and what it gives. *)

StringInv == Sound => \E t \in Seq(Char) : Holds(str, t)

LEMMA ArgIs ==
    \A c \in Arg : c \in Seq(Char) /\ c \in Seqs!Text /\ Len(c) \in Nat
<1> SUFFICES ASSUME NEW m \in 0 .. MaxArg, NEW c \in [1 .. m -> Char]
             PROVE  c \in Seq(Char) /\ c \in Seqs!Text /\ Len(c) \in Nat
    BY Zenon DEF Arg, CStr
<1>1. m \in Nat
    BY BoundAssumption
<1>2. c \in Seq(Char) /\ Len(c) \in Nat
    BY <1>1
<1>3. c \in Seqs!Text
    BY Zenon DEF Seqs!Text
<1> QED
    BY <1>2, <1>3

LEMMA SoundHolds ==
    ASSUME StringInv, Sound
    PROVE  \E t \in Seq(Char) : Holds(str, t) /\ Contents = t
<1>1. PICK t \in Seq(Char) : Holds(str, t)
    BY DEF StringInv
<1>2. Contents = t
    BY <1>1, TextIs DEF Contents
<1> QED
    BY <1>1, <1>2

LEMMA SoundNext ==
    ASSUME NEW u, Holds(str', u)
    PROVE  Sound' /\ Contents' = u /\ StringInv'
<1>1. str' # Wild /\ u \in Seq(Char) /\ Bytes(str', 0, str'.length) = u
    BY HoldsSays, TextIs
<1>2. Sound' /\ Contents' = u
    BY <1>1 DEF Sound, Contents, Bytes, Wild
<1>3. StringInv'
    BY <1>1 DEF StringInv, Holds, Raw, Cell
<1> QED
    BY <1>2, <1>3

LEMMA StringInit ==
    StrInit => StringInv
<1> SUFFICES ASSUME StrInit PROVE StringInv
    OBVIOUS
<1>1. str = str_new__len(DEFAULT_STRING_LEN) /\ DEFAULT_STRING_LEN \in Nat
    BY BoundAssumption DEF StrInit
<1>2. Raw(str) /\ str.length = 0 /\ \A k \in 0 .. str.capacity : str.buf[k] = NUL
    BY <1>1, NewIs
<1>3. str.buf[0] = NUL
    BY <1>2 DEF Raw
<1>4. <<>> \in Seq(Char) /\ Len(<<>>) = 0
    BY EmptySeq
<1>5. Holds(str, <<>>)
    BY <1>2, <1>3, <1>4 DEF Holds
<1> QED
    BY <1>4, <1>5 DEF StringInv

\* Each operation keeps the invariant, and does to the text what its name says.
LEMMA StringStep ==
    ASSUME StringInv, StrNext
    PROVE  StringInv' /\ (Sound /\ ~ Overrun => Sound' /\ Seqs!Next)
<1>1. Sound
    BY DEF StrNext, str_copy, str_erase, resize, str_append, str_prepend, str_insert, str_trim, str_replace
<1>2. PICK t \in Seq(Char) : Holds(str, t) /\ Contents = t
    BY <1>1, SoundHolds
<1>3. str.length = Len(t) /\ Len(t) \in Nat /\ MaxLen \in Nat
    BY <1>2, HoldsSays, BoundAssumption
<1>4. SubSeq(t, 1, 0) = <<>> /\ SubSeq(t, 1, Len(t)) = t /\ SubSeq(t, Len(t) + 1, Len(t)) = <<>>
    BY <1>3, SubSeqEmpty, SubSeqFull
<1>5. ASSUME NEW u, Holds(str', u), Seqs!Next
      PROVE  StringInv' /\ (Sound /\ ~ Overrun => Sound' /\ Seqs!Next)
    BY <1>5, SoundNext
<1>6. CASE \E c \in Arg : str_copy(c)
    <2>1. PICK c \in Arg : str' = MemCpy(str_resize(str, Len(c)), 0, c)
        BY <1>6 DEF str_copy
    <2>2. Holds(str', c)
        BY <1>2, <2>1, ArgIs, CopyHolds
    <2>3. Seqs!Copy(c)
        BY <2>2, SoundNext DEF Seqs!Copy
    <2>4. Seqs!Next
        BY <2>3, ArgIs, Zenon DEF Seqs!Next
    <2> QED
        BY <1>5, <2>2, <2>4
<1>7. CASE str_erase
    <2>1. Holds(str', <<>>)
        BY <1>2, <1>7, EraseHolds DEF str_erase
    <2>2. Seqs!Shrink(0) /\ 0 \in 0 .. MaxLen
        <3>1. Contents' = <<>>
            BY <2>1, SoundNext
        <3> QED
            BY <1>2, <1>3, <1>4, <3>1 DEF Seqs!Shrink
    <2>3. Seqs!Next
        BY <2>2, Zenon DEF Seqs!Next
    <2> QED
        BY <1>5, <2>1, <2>3
<1>8. CASE \E n \in 0 .. MaxLen : resize(n)
    <2>1. PICK n \in 0 .. MaxLen : n <= str.length /\ str' = str_resize(str, n)
        BY <1>8 DEF resize
    <2>2. n \in Nat /\ n <= Len(t)
        BY <1>3, <2>1
    <2>3. Holds(str', SubSeq(t, 1, n))
        BY <1>2, <2>1, <2>2, ShrinkHolds
    <2>4. Contents' = SubSeq(t, 1, n)
        BY <2>3, SoundNext
    <2>5. Seqs!Shrink(n)
        BY <1>2, <2>2, <2>4, Zenon DEF Seqs!Shrink
    <2>6. Seqs!Next
        BY <2>5, Zenon DEF Seqs!Next
    <2> QED
        BY <1>5, <2>3, <2>6
<1>9. CASE \E c \in Arg : str_append(c)
    <2>1. PICK c \in Arg :
              /\ str.length + Len(c) <= MaxLen
              /\ str' = MemCpy(str_resize(str, str.length + Len(c)), str.length, Append(c, NUL))
        BY <1>9 DEF str_append
    <2>2. c \in Seq(Char) /\ c \in Seqs!Text /\ Len(c) \in Nat
        BY ArgIs
    <2>3. Holds(str', t \o c)
        BY <1>2, <2>1, <2>2, AppendHolds
    <2>4. Contents' = t \o c
        BY <2>3, SoundNext
    <2>5. t \o c = SubSeq(t, 1, Len(t)) \o c \o SubSeq(t, Len(t) + 1, Len(t))
        <3>1. t \o c \in Seq(Char)
            BY <2>2
        <3>2. (t \o c) \o <<>> = t \o c
            BY <3>1, ConcatEmptySeq
        <3> QED
            BY <1>4, <3>2
    <2>6. Seqs!Insert(Len(t), c) /\ Len(t) \in 0 .. MaxLen
        <3>1. Len(t) \in 0 .. MaxLen /\ Len(t) <= Len(t)
            BY <1>3, <2>1, <2>2
        <3> QED
            BY <1>2, <2>4, <2>5, <3>1 DEF Seqs!Insert
    <2>7. Seqs!Next
        BY <2>2, <2>6, Zenon DEF Seqs!Next
    <2> QED
        BY <1>5, <2>3, <2>7
<1>10. CASE \E c \in Arg : str_prepend(c)
    <2>1. PICK c \in Arg :
              LET new == str_new__len(str.length + Len(c)) IN
              str' = str_resize(MemCpy(MemCpy(new, 0, c), Len(c), Bytes(str, 0, str.length)), str.length + Len(c))
        BY <1>10 DEF str_prepend
    <2>2. c \in Seq(Char) /\ c \in Seqs!Text /\ Len(c) \in Nat
        BY ArgIs
    <2>3. Holds(str', c \o t)
        BY <1>2, <2>1, <2>2, PrependHolds
    <2>4. Contents' = c \o t
        BY <2>3, SoundNext
    <2>5. SubSeq(t, 0 + 1, Len(t)) = t /\ <<>> \o c = c
        <3>1. 0 + 1 = 1
            OBVIOUS
        <3> QED
            BY <1>4, <2>2, <3>1, ConcatEmptySeq
    <2>6. Seqs!Insert(0, c) /\ 0 \in 0 .. MaxLen
        <3>1. 0 \in 0 .. MaxLen /\ 0 <= Len(t)
            BY <1>3
        <3> QED
            BY <1>2, <1>4, <2>4, <2>5, <3>1 DEF Seqs!Insert
    <2>7. Seqs!Next
        BY <2>2, <2>6, Zenon DEF Seqs!Next
    <2> QED
        BY <1>5, <2>3, <2>7
<1>11. CASE \E i \in 0 .. MaxLen, c \in Arg : str_insert(i, c)
    <2>1. PICK i \in 0 .. MaxLen, c \in Arg :
              /\ i <= str.length
              /\ LET new == MemCpy(MemCpy(str_new__len(str.length + Len(c)), 0, Bytes(str, 0, i)), i, c)
                 IN  str' = str_resize(MemCpy(new, i + Len(c), Bytes(str, i, str.length)), str.length + Len(c))
        BY <1>11 DEF str_insert
    <2>2. c \in Seq(Char) /\ c \in Seqs!Text /\ i \in Nat /\ i <= Len(t)
        BY <1>3, <2>1, ArgIs
    <2>3. Holds(str', SubSeq(t, 1, i) \o c \o SubSeq(t, i + 1, Len(t)))
        BY <1>2, <2>1, <2>2, InsertHolds
    <2>4. Contents' = SubSeq(t, 1, i) \o c \o SubSeq(t, i + 1, Len(t))
        BY <2>3, SoundNext
    <2>5. Seqs!Insert(i, c)
        BY <1>2, <2>2, <2>4, Zenon DEF Seqs!Insert
    <2>6. Seqs!Next
        BY <2>2, <2>5, Zenon DEF Seqs!Next
    <2> QED
        BY <1>5, <2>3, <2>6
<1>12. CASE str_trim
    <2>1. str' = Trimmed(str)
        BY <1>12 DEF str_trim, Trimmed
    <2>2. StringInv'
        <3>1. str' = Wild \/ \E u \in Seq(Char) : Holds(str', u)
            BY <1>2, <2>1, TrimHolds
        <3>2. CASE str' = Wild
            BY <3>2 DEF StringInv, Sound, Wild
        <3>3. CASE \E u \in Seq(Char) : Holds(str', u)
            BY <3>3, SoundNext
        <3> QED
            BY <3>1, <3>2, <3>3
    <2>3. ASSUME ~ Overrun PROVE Sound' /\ Seqs!Next
        <3>1. \E k \in DOMAIN t : t[k] \notin Blank
            BY <1>2, <1>12, <2>3 DEF Overrun
        <3>2. Holds(str', Seqs!FirstWord(t))
            BY <1>2, <2>1, <3>1, TrimHolds
        <3>3. Sound' /\ Contents' = Seqs!FirstWord(t)
            BY <3>2, SoundNext
        <3>4. Seqs!Trim
            BY <1>2, <3>1, <3>3, Zenon DEF Seqs!Trim
        <3> QED
            BY <3>3, <3>4, Zenon DEF Seqs!Next
    <2> QED
        BY <2>2, <2>3
<1>13. CASE \E sub, rep \in Arg : sub # <<>> /\ str_replace(sub, rep)
    <2>1. PICK sub \in Arg, rep \in Arg : sub # <<>> /\ str_replace(sub, rep)
        BY <1>13
    <2> DEFINE num == str_count(str, sub)
               size == str.length + Len(rep) * num - Len(sub) * num
               text == Joined(str_split(str, sub), rep, size)
               new == str_resize(str, size)
    <2>2. str' = IF Len(text) > new.capacity + 1 THEN Wild ELSE MemCpy(new, 0, text)
        BY <2>1 DEF str_replace
    <2>3. sub \in Seq(Char) /\ rep \in Seq(Char) /\ sub \in Seqs!Text /\ rep \in Seqs!Text
        BY ArgIs
    <2>4. text = Seqs!Replaced(t, sub, rep) /\ text \in Seq(Char) /\ Len(text) = size /\ size \in Nat
        BY <1>2, <2>1, <2>3, JoinIs
    <2> HIDE DEF text, size
    <2>5. new.capacity \in Nat /\ size <= new.capacity
        <3>1. Raw(str)
            BY <1>2 DEF Holds
        <3>2. Raw(new) /\ new.length = size
            BY <2>4, <3>1, ResizeIs
        <3> HIDE DEF new
        <3> QED
            BY <2>4, <3>2 DEF Raw
    <2>6. str' = MemCpy(str_resize(str, Len(text)), 0, text)
        <3>1. ~ (Len(text) > new.capacity + 1)
            <4> HIDE DEF new
            <4> QED
                BY <2>4, <2>5
        <3> QED
            BY <2>2, <2>4, <3>1, Zenon
    <2>7. Holds(str', text)
        BY <1>2, <2>4, <2>6, CopyHolds
    <2>8. Contents' = Seqs!Replaced(t, sub, rep)
        BY <2>4, <2>7, SoundNext
    <2>9. Seqs!Replace(sub, rep)
        BY <1>2, <2>1, <2>8, Zenon DEF Seqs!Replace
    <2>10. Seqs!Next
        BY <2>3, <2>9, Zenon DEF Seqs!Next
    <2> QED
        BY <1>5, <2>7, <2>10
<1> QED
    BY <1>6, <1>7, <1>8, <1>9, <1>10, <1>11, <1>12, <1>13 DEF StrNext

LEMMA StringInductive ==
    ASSUME StringInv, [StrNext]_str
    PROVE  StringInv'
<1>1. CASE StrNext
    BY <1>1, StringStep
<1>2. CASE UNCHANGED str
    BY <1>2 DEF StringInv, Sound, Wild, Holds, Raw, Cell
<1> QED
    BY <1>1, <1>2

LEMMA StringWellFormed ==
    StringInv => WellFormed
<1> SUFFICES ASSUME StringInv, Sound PROVE InBuffer /\ StrLen(str, 0) = str.length
    BY DEF WellFormed, InBuffer
<1>1. PICK t \in Seq(Char) : Holds(str, t)
    BY SoundHolds
<1>2. Len(t) \in Nat /\ str.length = Len(t) /\ Raw(str)
    BY <1>1, HoldsSays DEF Holds
<1>3. InBuffer
    BY <1>2 DEF Raw, Cell, InBuffer
<1>4. PICK z \in Nat : z = 0
    OBVIOUS
<1>5. StrLen(str, z) = Len(t) - z
    BY <1>1, <1>2, <1>4, LengthIs
<1> QED
    BY <1>2, <1>3, <1>4, <1>5

LEMMA StringSplitJoins ==
    StringInv => SplitJoins
<1> SUFFICES ASSUME StringInv, Sound, NEW sep \in Arg \ {<<>>}
             PROVE  Joined(str_split(str, sep), sep, str.length) = Bytes(str, 0, str.length)
    BY DEF SplitJoins
<1>1. PICK t \in Seq(Char) : Holds(str, t)
    BY SoundHolds
<1>2. sep \in Seq(Char) /\ sep # <<>> /\ Len(sep) \in Nat
    BY ArgIs
<1> DEFINE num == str_count(str, sep)
<1>3. num \in Nat /\ Cuts(t, sep, Finds(str, sep), num)
    <2>1. str.capacity \in Nat
        BY <1>1, HoldsSays
    <2> QED
        BY <1>1, <1>2, <2>1, CountIs
<1>4. Seqs!Replaced(t, sep, sep) = t
    BY <1>2, <1>3, ReplacedByItself
<1>5. Joined(str_split(str, sep), sep, str.length + Len(sep) * num - Len(sep) * num) = t
    BY <1>1, <1>2, <1>4, JoinIs
<1>6. str.length + Len(sep) * num - Len(sep) * num = str.length
    <2>1. str.length \in Nat
        BY <1>1, HoldsSays
    <2> HIDE DEF num
    <2>2. PICK x \in Nat : x = Len(sep) * num
        BY <1>2, <1>3, Times
    <2> QED
        BY <2>1, <2>2
<1> QED
    BY <1>1, <1>5, <1>6, TextIs

-----------------------------------------------------------------------------
(* Each of the string operations that loader.conf is taken apart with, and all the others,  *)
(* stays inside its buffer and keeps the length in step with the '\0' (str.c:93-350).       *)
THEOREM StringsWellFormed == StrSpec => []WellFormed
<1>1. StrInit => StringInv
    BY StringInit
<1>2. StringInv /\ [StrNext]_str => StringInv'
    BY StringInductive
<1>3. StringInv => WellFormed
    BY StringWellFormed
<1> QED
    BY <1>1, <1>2, <1>3, PTL DEF StrSpec

(* A string taken apart at any separator and put together again is the same string          *)
(* (str.c:158-198).                                                                         *)
THEOREM StringsSplitJoin == StrSpec => []SplitJoins
<1>1. StrInit => StringInv
    BY StringInit
<1>2. StringInv /\ [StrNext]_str => StringInv'
    BY StringInductive
<1>3. StringInv => SplitJoins
    BY StringSplitJoins
<1> QED
    BY <1>1, <1>2, <1>3, PTL DEF StrSpec

(* A string object implements a sequence of characters: every operation does to the text    *)
(* what its name says, unless a string of blanks is trimmed (str.c:93-350).                 *)
THEOREM StringsAreSequences == StrSpec => ValueSpec
<1>1. StrInit => StringInv
    BY StringInit
<1>2. StringInv /\ [StrNext]_str => StringInv'
    BY StringInductive
<1>3. StringInv /\ [StrNext]_str => [Sound /\ ~ Overrun => Sound' /\ Seqs!Next]_str
    BY StringStep
<1> QED
    BY <1>1, <1>2, <1>3, PTL DEF StrSpec, ValueSpec
=============================================================================
