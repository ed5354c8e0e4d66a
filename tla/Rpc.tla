-------------------------------- MODULE Rpc ---------------------------------
(***************************************************************************)
(* Remote method calls between the processes of the gateway                *)
(* (framework/common/module.c).  Every process registers its modules,      *)
(* starts one listener thread that takes the process's name on the bus and *)
(* dispatches what arrives there, and calls other processes from its main  *)
(* thread over a second connection.  The bus is external: it routes a call *)
(* to the owner of a name, keeps the order of the calls to one connection, *)
(* answers for an owner that is absent or dies, and matches a reply to the *)
(* call by its serial.                                                     *)
(***************************************************************************)
EXTENDS Integers, Sequences

CONSTANTS
    Proc,        \* the processes
    Module,      \* the modules
    Name,        \* the names on the bus (rpc_name)
    NameOf,      \* the name each process asks for
    Load,        \* the modules each process registers, in order
    Provider,    \* the name each module is reached under (info->rpc_name)
    Caller,      \* the processes whose main thread calls
    MaxCalls,    \* bound: calls per caller
    MayTimeout,  \* whether the bus may be slower than the reply timeout
    MayCrash,    \* whether a process may be killed
    None

ASSUME ProcAssumption == None \notin Proc /\ Caller \subseteq Proc
ASSUME NoneAssumption == None \notin Proc \X (1 .. MaxCalls)
ASSUME NameAssumption == NameOf \in [Proc -> Name] /\ Provider \in [Module -> Name]
ASSUME LoadAssumption == Load \in [Proc -> Seq(Module)]
ASSUME BoundAssumption == MaxCalls \in Nat
ASSUME SwitchAssumption == MayTimeout \in BOOLEAN /\ MayCrash \in BOOLEAN

VARIABLES
    main,        \* the main thread: boot, reg, run, wait (blocked in a call), dead
    lst,         \* the listener thread: off, connect, serve, reply
    mods,        \* g_rpc_mgr->modules
    owner,       \* the bus: the primary owner of each name
    inbox,       \* calls queued on srv_conn
    cur,         \* the call whose reply the listener is about to send
    answers,     \* replies queued on cli_conn
    calls,       \* calls made so far, the serial of the last one
    result,      \* what the caller knows of each call
    log          \* history: the calls whose handler ran, in order


vars == <<main, lst, mods, owner, inbox, cur, answers, calls, result, log>>

Serial == 1 .. MaxCalls
Id == Proc \X Serial
Request == [id : Id, mod : Module]
Answer == [serial : Serial, kind : {"ok", "error"}]

TypeOK ==
    /\ main \in [Proc -> {"boot", "reg", "run", "wait", "dead"}]
    /\ lst \in [Proc -> {"off", "connect", "serve", "reply"}]
    /\ mods \in [Proc -> Seq(Module)]
    /\ owner \in [Name -> Proc \cup {None}]
    /\ inbox \in [Proc -> Seq(Request)]
    /\ cur \in [Proc -> Id \cup {None}]
    /\ answers \in [Proc -> SUBSET Answer]
    /\ calls \in [Proc -> 0 .. MaxCalls]
    /\ result \in [Id -> {"none", "pending", "sent", "ok", "fail"}]
    /\ log \in [Proc -> Seq(Id)]
    /\ \A p \in Proc : lst[p] = "reply" => cur[p] \in Id

Init ==
    /\ main = [p \in Proc |-> "boot"]
    /\ lst = [p \in Proc |-> "off"]
    /\ mods = [p \in Proc |-> <<>>]
    /\ owner = [n \in Name |-> None]
    /\ inbox = [p \in Proc |-> <<>>]
    /\ cur = [p \in Proc |-> None]
    /\ answers = [p \in Proc |-> {}]
    /\ calls = [p \in Proc |-> 0]
    /\ result = [id \in Id |-> "none"]
    /\ log = [p \in Proc |-> <<>>]

-----------------------------------------------------------------------------
(***************************************************************************)
(* The end of a process.                                                   *)
(***************************************************************************)

\* The calls p has received and not answered.
Unanswered(p) ==
    {inbox[p][i].id : i \in 1 .. Len(inbox[p])} \cup ({cur[p]} \ {None})

\* The errors the bus sends q for them.
Undeliverable(p, q) ==
    {a \in Answer : a.kind = "error" /\ <<q, a.serial>> \in Unanswered(p)}

\* The connections of p close: the bus frees its name and answers the calls p
\* leaves behind with an error; what p had not read is lost.
Die(p) ==
    /\ main' = [main EXCEPT ![p] = "dead"]
    /\ lst' = [lst EXCEPT ![p] = "off"]
    /\ owner' = [n \in Name |-> IF owner[n] = p THEN None ELSE owner[n]]
    /\ answers' = [q \in Proc |->
                     IF q = p \/ main[q] = "dead" THEN {}
                     ELSE answers[q] \cup Undeliverable(p, q)]
    /\ inbox' = [inbox EXCEPT ![p] = <<>>]
    /\ cur' = [cur EXCEPT ![p] = None]
    /\ UNCHANGED <<mods, calls, result, log>>

Crash(p) ==
    /\ MayCrash
    /\ main[p] # "dead"
    /\ Die(p)

(***************************************************************************)
(* Start-up: rpc_init, rpc_reg for each module, rpc_listen, and the name   *)
(* the listener thread asks for.                                           *)
(***************************************************************************)
rpc_init(p) ==
    /\ main[p] = "boot"
    /\ main' = [main EXCEPT ![p] = "reg"]
    /\ mods' = [mods EXCEPT ![p] = <<>>]
    /\ UNCHANGED <<lst, owner, inbox, cur, answers, calls, result, log>>

rpc_reg(p) ==
    /\ main[p] = "reg"
    /\ Len(mods[p]) < Len(Load[p])
    /\ mods' = [mods EXCEPT ![p] = Append(@, Load[p][Len(@) + 1])]
    /\ UNCHANGED <<main, lst, owner, inbox, cur, answers, calls, result, log>>

\* Mutant: the listener is started before the modules are registered.
rpc_listen_early(p) ==
    /\ main[p] = "reg"
    /\ main' = [main EXCEPT ![p] = "run"]
    /\ lst' = [lst EXCEPT ![p] = "connect"]
    /\ UNCHANGED <<mods, owner, inbox, cur, answers, calls, result, log>>

rpc_listen(p) ==
    /\ main[p] = "reg"
    /\ Len(mods[p]) = Len(Load[p])
    /\ main' = [main EXCEPT ![p] = "run"]
    /\ lst' = [lst EXCEPT ![p] = "connect"]
    /\ UNCHANGED <<mods, owner, inbox, cur, answers, calls, result, log>>

\* Mutant: the reply of the bus is not looked at.
request_name_unchecked(p) ==
    /\ lst[p] = "connect"
    /\ owner' = [owner EXCEPT ![NameOf[p]] = IF @ = None THEN p ELSE @]
    /\ lst' = [lst EXCEPT ![p] = "serve"]
    /\ UNCHANGED <<main, mods, inbox, cur, answers, calls, result, log>>

\* Mutant: a process that is not primary owner lives on without a listener.
request_name_give_up(p) ==
    /\ lst[p] = "connect"
    /\ owner' = [owner EXCEPT ![NameOf[p]] = IF @ = None THEN p ELSE @]
    /\ lst' = [lst EXCEPT ![p] = IF owner[NameOf[p]] = None THEN "serve" ELSE "off"]
    /\ UNCHANGED <<main, mods, inbox, cur, answers, calls, result, log>>

\* REPLACE_EXISTING replaces an owner that allows it, and none does: a name
\* that is taken makes the caller "not primary owner", which exits.
request_name(p) ==
    /\ lst[p] = "connect"
    /\ IF owner[NameOf[p]] = None
         THEN /\ owner' = [owner EXCEPT ![NameOf[p]] = p]
              /\ lst' = [lst EXCEPT ![p] = "serve"]
              /\ UNCHANGED <<main, mods, inbox, cur, answers, calls, result, log>>
         ELSE Die(p)

(***************************************************************************)
(* The listener: rpc_method_filter and the reply.                          *)
(***************************************************************************)

\* How often the filter runs the handler of a call to module m: it goes round
\* once per registered module, and every time compares the last one.
Runs(p, m) ==
    LET size == Len(mods[p]) IN
    IF size > 0 /\ mods[p][size] = m THEN size ELSE 0

\* The first filter takes every message; without a handler there is no reply.
rpc_method_filter(p) ==
    /\ lst[p] = "serve"
    /\ inbox[p] # <<>>
    /\ LET req == Head(inbox[p])
           n == Runs(p, req.mod)
       IN /\ inbox' = [inbox EXCEPT ![p] = Tail(@)]
          /\ log' = [log EXCEPT ![p] = @ \o [i \in 1 .. n |-> req.id]]
          /\ IF n > 0
               THEN cur' = [cur EXCEPT ![p] = req.id] /\ lst' = [lst EXCEPT ![p] = "reply"]
               ELSE UNCHANGED <<cur, lst>>
    /\ UNCHANGED <<main, mods, owner, answers, calls, result>>

\* Mutant: the reply is dropped.
send_reply_never(p) ==
    /\ lst[p] = "reply"
    /\ cur' = [cur EXCEPT ![p] = None]
    /\ lst' = [lst EXCEPT ![p] = "serve"]
    /\ UNCHANGED <<main, mods, owner, inbox, answers, calls, result, log>>

send_reply(p) ==
    /\ lst[p] = "reply"
    /\ LET c == cur[p][1] IN
       answers' = [answers EXCEPT ![c] =
                     IF main[c] = "dead" THEN @
                     ELSE @ \cup {[serial |-> cur[p][2], kind |-> "ok"]}]
    /\ cur' = [cur EXCEPT ![p] = None]
    /\ lst' = [lst EXCEPT ![p] = "serve"]
    /\ UNCHANGED <<main, mods, owner, inbox, calls, result, log>>

(***************************************************************************)
(* The caller: msg_method_call.                                            *)
(***************************************************************************)

\* Mutant: a call overtakes the ones that are queued.
RouteFirst(p, n, m) ==
    LET o == owner[Provider[m]] IN
    IF o = None
      THEN /\ answers' = [answers EXCEPT ![p] = @ \cup {[serial |-> n, kind |-> "error"]}]
           /\ UNCHANGED inbox
      ELSE /\ inbox' = [inbox EXCEPT ![o] = <<[id |-> <<p, n>>, mod |-> m]>> \o @]
           /\ UNCHANGED answers

\* The bus takes call n of p to module m: to the owner of the module's name,
\* or back as an error when nobody owns it.
Route(p, n, m) ==
    LET o == owner[Provider[m]] IN
    IF o = None
      THEN /\ answers' = [answers EXCEPT ![p] = @ \cup {[serial |-> n, kind |-> "error"]}]
           /\ UNCHANGED inbox
      ELSE /\ inbox' = [inbox EXCEPT ![o] = Append(@, [id |-> <<p, n>>, mod |-> m])]
           /\ UNCHANGED answers

\* The request of call n + 1 goes out; r is what the caller knows of it.
Issue(p, m, r) ==
    /\ main[p] = "run"
    /\ calls[p] < MaxCalls
    /\ LET n == calls[p] + 1 IN
       /\ calls' = [calls EXCEPT ![p] = n]
       /\ result' = [result EXCEPT ![<<p, n>>] = r]
       /\ Route(p, n, m)
    /\ UNCHANGED <<lst, mods, owner, cur, log>>

\* WAIT_REPLY: the main thread blocks until an answer or the timeout.
call_block(p, m) ==
    /\ Issue(p, m, "pending")
    /\ main' = [main EXCEPT ![p] = "wait"]

\* NO_REPLY: the call is sent and the caller goes on; it is answered all the
\* same, to a connection nobody dispatches.
call_unblock(p, m) ==
    /\ Issue(p, m, "sent")
    /\ UNCHANGED main

\* Mutant: any answer ends the wait.
call_return_any(p) ==
    /\ main[p] = "wait"
    /\ \E a \in answers[p] :
         /\ result' = [result EXCEPT ![<<p, calls[p]>>] = IF a.kind = "ok" THEN "ok" ELSE "fail"]
         /\ answers' = [answers EXCEPT ![p] = @ \ {a}]
    /\ main' = [main EXCEPT ![p] = "run"]
    /\ UNCHANGED <<lst, mods, owner, inbox, cur, calls, log>>

\* The answer that carries the serial of the last call ends the wait.
call_return(p) ==
    /\ main[p] = "wait"
    /\ \E a \in answers[p] :
         /\ a.serial = calls[p]
         /\ result' = [result EXCEPT ![<<p, calls[p]>>] = IF a.kind = "ok" THEN "ok" ELSE "fail"]
         /\ answers' = [answers EXCEPT ![p] = @ \ {a}]
    /\ main' = [main EXCEPT ![p] = "run"]
    /\ UNCHANGED <<lst, mods, owner, inbox, cur, calls, log>>

\* Mutant: the call is sent again when no answer comes.
call_timeout_resend(p) ==
    /\ MayTimeout
    /\ main[p] = "wait"
    /\ \E m \in Module : Route(p, calls[p], m)
    /\ UNCHANGED <<main, lst, mods, owner, cur, calls, result, log>>

\* Mutant: a missing reply is no FAILURE.
call_timeout_success(p) ==
    /\ MayTimeout
    /\ main[p] = "wait"
    /\ result' = [result EXCEPT ![<<p, calls[p]>>] = "ok"]
    /\ main' = [main EXCEPT ![p] = "run"]
    /\ UNCHANGED <<lst, mods, owner, inbox, cur, answers, calls, log>>

\* No answer within the default timeout: FAILURE.
call_timeout(p) ==
    /\ MayTimeout
    /\ main[p] = "wait"
    /\ result' = [result EXCEPT ![<<p, calls[p]>>] = "fail"]
    /\ main' = [main EXCEPT ![p] = "run"]
    /\ UNCHANGED <<lst, mods, owner, inbox, cur, answers, calls, log>>

-----------------------------------------------------------------------------
Next ==
    \/ \E p \in Proc : rpc_init(p)
    \/ \E p \in Proc : rpc_reg(p)
    \/ \E p \in Proc : rpc_listen(p)
    \/ \E p \in Proc : request_name(p)
    \/ \E p \in Proc : rpc_method_filter(p)
    \/ \E p \in Proc : send_reply(p)
    \/ \E p \in Caller, m \in Module : call_block(p, m)
    \/ \E p \in Caller, m \in Module : call_unblock(p, m)
    \/ \E p \in Caller : call_return(p)
    \/ \E p \in Caller : call_timeout(p)
    \/ \E p \in Proc : Crash(p)

Spec == Init /\ [][Next]_vars

\* Both threads of a live process keep running, and a blocked caller takes the
\* answer when it is there.  The timeout is not relied on: it may never come.
Fairness ==
    /\ \A p \in Proc : WF_vars(rpc_init(p) \/ rpc_reg(p) \/ rpc_listen(p))
    /\ \A p \in Proc : WF_vars(request_name(p) \/ rpc_method_filter(p) \/ send_reply(p))
    /\ \A p \in Caller : WF_vars(call_return(p))

FairSpec == Spec /\ Fairness

-----------------------------------------------------------------------------
(***************************************************************************)
(* Properties.                                                             *)
(***************************************************************************)

\* The calls whose handler ran.
Ran == {id \in Id : \E p \in Proc : \E i \in 1 .. Len(log[p]) : log[p][i] = id}

\* A call returns success to its caller only after the handler ran: a late
\* answer to an earlier call that timed out is never taken for this one's.
OkMeansRun == \A id \in Id : result[id] = "ok" => id \in Ran

\* Two live processes never serve the same name: a second instance of a
\* service gives up before it dispatches anything, also when the first is just
\* starting, and can take over only after the first died.
LoneServer ==
    \A p, q \in Proc :
        lst[p] \in {"serve", "reply"} /\ lst[q] \in {"serve", "reply"} /\ NameOf[p] = NameOf[q]
            => p = q

\* The handler of one call runs at most once, whatever was retried, answered
\* late or lost.
RunsAtMostOnce ==
    \A p, q \in Proc : \A i \in 1 .. Len(log[p]), j \in 1 .. Len(log[q]) :
        log[p][i] = log[q][j] => p = q /\ i = j

\* The calls of one caller run in the order it made them, also when it gave up
\* on one of them and went on to the next.
RunsInOrder ==
    \A p \in Proc : \A i, j \in 1 .. Len(log[p]) :
        i < j /\ log[p][i][1] = log[p][j][1] => log[p][i][2] <= log[p][j][2]

\* A caller that is blocked is owed an answer that somebody still holds: its
\* call is queued, in hand, or answered.
NoForgottenCaller ==
    \A p \in Caller : main[p] = "wait" =>
        \/ \E q \in Proc : <<p, calls[p]>> \in Unanswered(q)
        \/ \E a \in answers[p] : a.serial = calls[p]

Call == INSTANCE RpcCall WITH ran <- Ran

\* The calls behave as RpcCall says, whatever crashes and times out.
CallSpec == Call!Spec

\* A blocked caller goes on, also without the timeout: every call is answered,
\* by the handler or by the bus for a process that is absent or dies.
Answered == \A p \in Caller : main[p] = "wait" ~> main[p] # "wait"

\* Two instances of a service settle who serves it: in the end one of them
\* holds the name and serves for good, or they are all dead.
ServiceSettles ==
    \A p \in Proc :
        <>[](\/ \E q \in Proc : NameOf[q] = NameOf[p] /\ owner[NameOf[p]] = q /\ lst[q] # "off"
             \/ \A q \in Proc : NameOf[q] = NameOf[p] => main[q] = "dead")
=============================================================================
