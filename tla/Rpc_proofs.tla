----------------------------- MODULE Rpc_proofs -----------------------------
(***************************************************************************)
(* Proofs about Rpc, for every set of processes, modules and names, every  *)
(* assignment of modules to processes and every number of calls, with and  *)
(* without crashes and timeouts.                                           *)
(***************************************************************************)
EXTENDS Rpc, TLAPS

-----------------------------------------------------------------------------
(* Types. *)

LEMMA DieType == ASSUME NEW q \in Proc, TypeOK, Die(q) PROVE TypeOK'
<1>1. answers' \in [Proc -> SUBSET Answer]
    BY DEF Die, TypeOK, Undeliverable
<1>2. inbox' \in [Proc -> Seq(Request)] /\ cur' \in [Proc -> Id \cup {None}]
    BY DEF Die, TypeOK
<1>3. owner' \in [Name -> Proc \cup {None}]
    BY DEF Die, TypeOK
<1> QED
    BY <1>1, <1>2, <1>3 DEF Die, TypeOK

LEMMA RouteType ==
    ASSUME NEW p \in Proc, NEW n \in Serial, NEW m \in Module, TypeOK, Route(p, n, m)
    PROVE  inbox' \in [Proc -> Seq(Request)] /\ answers' \in [Proc -> SUBSET Answer]
<1> DEFINE o == owner[Provider[m]]
           err == [serial |-> n, kind |-> "error"]
           req == [id |-> <<p, n>>, mod |-> m]
<1>1. o \in Proc \cup {None}
    BY NameAssumption DEF TypeOK
<1>2. err \in Answer /\ req \in Request
    BY DEF Answer, Request, Id
<1>3. CASE o = None
    <2>1. answers' = [answers EXCEPT ![p] = @ \cup {err}] /\ inbox' = inbox
        BY <1>3 DEF Route
    <2> HIDE DEF err
    <2> QED
        BY <1>2, <2>1 DEF TypeOK
<1>4. CASE o # None
    <2>1. inbox' = [inbox EXCEPT ![o] = Append(@, req)] /\ answers' = answers
        BY <1>4 DEF Route
    <2> HIDE DEF req, o
    <2> QED
        BY <1>1, <1>2, <1>4, <2>1 DEF TypeOK
<1> QED
    BY <1>3, <1>4

\* The listener's step: the inbox loses its head, the log gains its runs.
LEMMA FilterType ==
    ASSUME NEW p \in Proc, TypeOK, rpc_method_filter(p)
    PROVE  TypeOK'
<1> DEFINE req == Head(inbox[p])
           n == Runs(p, req.mod)
           runs == [i \in 1 .. n |-> req.id]
<1>1. inbox[p] \in Seq(Request) /\ inbox[p] # <<>> /\ log[p] \in Seq(Id)
    BY DEF rpc_method_filter, TypeOK
<1>2. req \in Request /\ Tail(inbox[p]) \in Seq(Request)
    BY <1>1
<1>3. req.id \in Id
    BY <1>2 DEF Request
<1>4. n \in Nat
    BY DEF Runs, TypeOK
<1>5. /\ inbox' = [inbox EXCEPT ![p] = Tail(@)]
      /\ log' = [log EXCEPT ![p] = @ \o runs]
      /\ \/ cur' = cur /\ lst' = lst
         \/ cur' = [cur EXCEPT ![p] = req.id] /\ lst' = [lst EXCEPT ![p] = "reply"]
      /\ UNCHANGED <<main, mods, owner, answers, calls, result>>
    BY DEF rpc_method_filter
<1> HIDE DEF req, n
<1>6. runs \in Seq(Id)
    BY <1>3, <1>4
<1> HIDE DEF runs
<1>7. log' \in [Proc -> Seq(Id)] /\ inbox' \in [Proc -> Seq(Request)]
    BY <1>1, <1>2, <1>5, <1>6 DEF TypeOK
<1>8. CASE cur' = cur /\ lst' = lst
    BY <1>5, <1>7, <1>8 DEF TypeOK
<1>9. CASE cur' = [cur EXCEPT ![p] = req.id] /\ lst' = [lst EXCEPT ![p] = "reply"]
    BY <1>3, <1>5, <1>7, <1>9 DEF TypeOK
<1> QED
    BY <1>5, <1>8, <1>9

LEMMA IssueType ==
    ASSUME NEW p \in Caller, NEW m \in Module, NEW r \in {"pending", "sent"},
           TypeOK, Issue(p, m, r), main' \in {main, [main EXCEPT ![p] = "wait"]}
    PROVE  TypeOK'
<1> DEFINE n == calls[p] + 1
<1>1. p \in Proc /\ n \in Serial /\ <<p, n>> \in Id
    BY ProcAssumption, BoundAssumption DEF Issue, TypeOK, Serial, Id
<1>2. /\ calls' = [calls EXCEPT ![p] = n]
      /\ result' = [result EXCEPT ![<<p, n>>] = r]
      /\ Route(p, n, m)
      /\ UNCHANGED <<lst, mods, owner, cur, log>>
    BY DEF Issue
<1> HIDE DEF n
<1>3. inbox' \in [Proc -> Seq(Request)] /\ answers' \in [Proc -> SUBSET Answer]
    BY <1>1, <1>2, RouteType
<1>4. calls' \in [Proc -> 0 .. MaxCalls]
    BY <1>1, <1>2, BoundAssumption DEF TypeOK, Serial
<1>5. result' \in [Id -> {"none", "pending", "sent", "ok", "fail"}]
    BY <1>1, <1>2 DEF TypeOK
<1>6. main' \in [Proc -> {"boot", "reg", "run", "wait", "dead"}]
    BY <1>1 DEF TypeOK
<1> QED
    BY <1>2, <1>3, <1>4, <1>5, <1>6 DEF TypeOK

LEMMA InitType == Init => TypeOK
BY BoundAssumption DEF Init, TypeOK

LEMMA NextType == TypeOK /\ [Next]_vars => TypeOK'
<1> SUFFICES ASSUME TypeOK, [Next]_vars PROVE TypeOK'
    OBVIOUS
<1>1. ASSUME NEW p \in Proc, rpc_init(p) PROVE TypeOK'
    BY <1>1 DEF rpc_init, TypeOK
<1>2. ASSUME NEW p \in Proc, rpc_reg(p) PROVE TypeOK'
    <2>1. Load[p] \in Seq(Module) /\ mods[p] \in Seq(Module)
        BY LoadAssumption DEF TypeOK
    <2>2. Load[p][Len(mods[p]) + 1] \in Module
        BY <1>2, <2>1 DEF rpc_reg
    <2>3. mods' \in [Proc -> Seq(Module)]
        BY <1>2, <2>1, <2>2 DEF rpc_reg, TypeOK
    <2> QED
        BY <1>2, <2>3 DEF rpc_reg, TypeOK
<1>3. ASSUME NEW p \in Proc, rpc_listen(p) PROVE TypeOK'
    BY <1>3 DEF rpc_listen, TypeOK
<1>4. ASSUME NEW p \in Proc, request_name(p) PROVE TypeOK'
    <2>1. CASE owner[NameOf[p]] = None
        <3>1. /\ lst[p] = "connect"
              /\ owner' = [owner EXCEPT ![NameOf[p]] = p]
              /\ lst' = [lst EXCEPT ![p] = "serve"]
              /\ UNCHANGED <<main, mods, inbox, cur, answers, calls, result, log>>
            BY <1>4, <2>1 DEF request_name
        <3>2. owner' \in [Name -> Proc \cup {None}]
            BY <3>1 DEF TypeOK
        <3>3. lst' \in [Proc -> {"off", "connect", "serve", "reply"}]
            BY <3>1 DEF TypeOK
        <3>4. \A q \in Proc : lst'[q] = "reply" => cur'[q] \in Id
            BY <3>1 DEF TypeOK
        <3> QED
            BY <3>1, <3>2, <3>3, <3>4 DEF TypeOK
    <2>2. CASE owner[NameOf[p]] # None
        BY <1>4, <2>2, DieType DEF request_name
    <2> QED
        BY <2>1, <2>2
<1>5. ASSUME NEW p \in Proc, rpc_method_filter(p) PROVE TypeOK'
    BY <1>5, FilterType
<1>6. ASSUME NEW p \in Proc, send_reply(p) PROVE TypeOK'
    <2> DEFINE ok == [serial |-> cur[p][2], kind |-> "ok"]
               c == cur[p][1]
    <2>1. cur[p] \in Id /\ c \in Proc /\ ok \in Answer
        BY <1>6 DEF send_reply, TypeOK, Id, Answer
    <2>2. \/ answers' = answers
          \/ answers' = [answers EXCEPT ![c] = @ \cup {ok}]
        BY <1>6, <2>1 DEF send_reply, TypeOK
    <2>3. cur' = [cur EXCEPT ![p] = None] /\ lst' = [lst EXCEPT ![p] = "serve"]
        BY <1>6 DEF send_reply
    <2> HIDE DEF ok, c
    <2>4. answers' \in [Proc -> SUBSET Answer]
        <3>1. CASE answers' = answers
            BY <3>1 DEF TypeOK
        <3>2. CASE answers' = [answers EXCEPT ![c] = @ \cup {ok}]
            BY <2>1, <3>2 DEF TypeOK
        <3> QED
            BY <2>2, <3>1, <3>2
    <2>5. \A q \in Proc : lst'[q] = "reply" => cur'[q] \in Id
        BY <2>3 DEF TypeOK
    <2> QED
        BY <1>6, <2>3, <2>4, <2>5 DEF send_reply, TypeOK
<1>7. ASSUME NEW p \in Caller, NEW m \in Module, call_block(p, m) PROVE TypeOK'
    BY <1>7, IssueType DEF call_block
<1>8. ASSUME NEW p \in Caller, NEW m \in Module, call_unblock(p, m) PROVE TypeOK'
    BY <1>8, IssueType DEF call_unblock
<1>9. ASSUME NEW p \in Caller, call_return(p) PROVE TypeOK'
    <2>1. PICK a \in answers[p] :
              /\ result' = [result EXCEPT ![<<p, calls[p]>>] = IF a.kind = "ok" THEN "ok" ELSE "fail"]
              /\ answers' = [answers EXCEPT ![p] = @ \ {a}]
        BY <1>9 DEF call_return
    <2>2. answers' \in [Proc -> SUBSET Answer]
        BY <2>1, ProcAssumption DEF TypeOK
    <2>3. result' \in [Id -> {"none", "pending", "sent", "ok", "fail"}]
        BY <2>1 DEF TypeOK
    <2> QED
        BY <1>9, <2>2, <2>3 DEF call_return, TypeOK
<1>10. ASSUME NEW p \in Caller, call_timeout(p) PROVE TypeOK'
    BY <1>10, ProcAssumption DEF call_timeout, TypeOK
<1>11. ASSUME NEW p \in Proc, Crash(p) PROVE TypeOK'
    BY <1>11, DieType DEF Crash
<1>12. CASE UNCHANGED vars
    BY <1>12 DEF vars, TypeOK
<1> QED
    BY <1>1, <1>2, <1>3, <1>4, <1>5, <1>6, <1>7, <1>8, <1>9, <1>10, <1>11, <1>12 DEF Next

\* The tables of every process, the bus and the listeners keep their types.
THEOREM TypeCorrect == Spec => []TypeOK
BY InitType, NextType, PTL DEF Spec

-----------------------------------------------------------------------------
(* One live process serves a name. *)

\* The bus knows the listener that serves a name as its owner.
ServerOwns == \A p \in Proc : lst[p] \in {"serve", "reply"} => owner[NameOf[p]] = p

LEMMA InitOwns == Init => ServerOwns
BY DEF Init, ServerOwns

LEMMA DieOwns ==
    ASSUME NEW p \in Proc, TypeOK, ServerOwns, Die(p) PROVE ServerOwns'
<1> SUFFICES ASSUME NEW q \in Proc, lst'[q] \in {"serve", "reply"}
             PROVE  owner'[NameOf[q]] = q
    BY DEF ServerOwns
<1>1. q # p /\ lst[q] \in {"serve", "reply"}
    BY DEF Die, TypeOK
<1>2. owner[NameOf[q]] = q
    BY <1>1 DEF ServerOwns
<1> QED
    BY <1>1, <1>2, NameAssumption DEF Die

LEMMA NextOwns == TypeOK /\ ServerOwns /\ [Next]_vars => ServerOwns'
<1> SUFFICES ASSUME TypeOK, ServerOwns, [Next]_vars PROVE ServerOwns'
    OBVIOUS
<1>1. CASE UNCHANGED <<lst, owner>>
    BY <1>1 DEF ServerOwns
<1>2. ASSUME NEW p \in Proc, rpc_listen(p) PROVE ServerOwns'
    BY <1>2 DEF rpc_listen, TypeOK, ServerOwns
<1>3. ASSUME NEW p \in Proc, request_name(p) PROVE ServerOwns'
    <2>1. CASE owner[NameOf[p]] = None
        <3>1. /\ owner' = [owner EXCEPT ![NameOf[p]] = p]
              /\ lst' = [lst EXCEPT ![p] = "serve"]
            BY <1>3, <2>1 DEF request_name
        <3> SUFFICES ASSUME NEW q \in Proc, lst'[q] \in {"serve", "reply"}
                     PROVE  owner'[NameOf[q]] = q
            BY DEF ServerOwns
        <3>2. CASE q = p
            BY <3>1, <3>2, NameAssumption DEF TypeOK
        <3>3. CASE q # p
            <4>1. owner[NameOf[q]] = q
                BY <3>1, <3>3 DEF TypeOK, ServerOwns
            <4>2. NameOf[q] # NameOf[p]
                BY <2>1, <4>1, ProcAssumption
            <4> QED
                BY <3>1, <4>1, <4>2, NameAssumption DEF TypeOK
        <3> QED
            BY <3>2, <3>3
    <2>2. CASE owner[NameOf[p]] # None
        BY <1>3, <2>2, DieOwns DEF request_name
    <2> QED
        BY <2>1, <2>2
<1>4. ASSUME NEW p \in Proc, rpc_method_filter(p) PROVE ServerOwns'
    <2>1. /\ lst[p] = "serve" /\ owner' = owner
          /\ lst' = lst \/ lst' = [lst EXCEPT ![p] = "reply"]
        BY <1>4 DEF rpc_method_filter
    <2> QED
        BY <2>1 DEF TypeOK, ServerOwns
<1>5. ASSUME NEW p \in Proc, send_reply(p) PROVE ServerOwns'
    BY <1>5 DEF send_reply, TypeOK, ServerOwns
<1>6. ASSUME NEW p \in Proc, Crash(p) PROVE ServerOwns'
    BY <1>6, DieOwns DEF Crash
<1> QED
    BY <1>1, <1>2, <1>3, <1>4, <1>5, <1>6 DEF Next, vars, rpc_init, rpc_reg, call_block,
       call_unblock, Issue, call_return, call_timeout

\* Two live processes never serve the same name.
THEOREM OneServer == Spec => []LoneServer
<1>1. ServerOwns => LoneServer
    BY DEF ServerOwns, LoneServer
<1> QED
    BY InitType, NextType, InitOwns, NextOwns, <1>1, PTL DEF Spec

-----------------------------------------------------------------------------
(* Success means that the handler ran. *)

\* The reply in hand and the replies on their way are those of calls that ran.
RepliesRan ==
    /\ \A p \in Proc : lst[p] = "reply" => cur[p] \in Ran
    /\ \A p \in Proc : \A a \in answers[p] : a.kind = "ok" => <<p, a.serial>> \in Ran

RanInv == RepliesRan /\ OkMeansRun

LEMMA InitRan == Init => RanInv
BY DEF Init, RanInv, RepliesRan, OkMeansRun

\* What is known of a call only grows true: nothing un-runs.
LEMMA SameLog == ASSUME UNCHANGED log PROVE Ran' = Ran
BY DEF Ran

LEMMA DieRan ==
    ASSUME NEW p \in Proc, TypeOK, RanInv, Die(p) PROVE RanInv'
<1>1. Ran' = Ran /\ result' = result
    BY SameLog DEF Die
<1>2. \A q \in Proc : lst'[q] = "reply" => lst[q] = "reply" /\ cur'[q] = cur[q]
    BY DEF Die, TypeOK
<1>3. \A q \in Proc : \A a \in answers'[q] : a \in answers[q] \/ a.kind = "error"
    BY DEF Die, TypeOK, Undeliverable
<1> QED
    BY <1>1, <1>2, <1>3 DEF RanInv, RepliesRan, OkMeansRun

LEMMA FilterRan ==
    ASSUME NEW p \in Proc, TypeOK, RanInv, rpc_method_filter(p) PROVE RanInv'
<1> DEFINE req == Head(inbox[p])
           n == Runs(p, req.mod)
           runs == [i \in 1 .. n |-> req.id]
<1>1. inbox[p] \in Seq(Request) /\ inbox[p] # <<>> /\ log \in [Proc -> Seq(Id)]
    BY DEF rpc_method_filter, TypeOK
<1>2. req.id \in Id
    <2>1. req \in Request
        BY <1>1
    <2> QED
        BY <2>1 DEF Request
<1>3. n \in Nat
    BY DEF Runs, TypeOK
<1>4. /\ log' = [log EXCEPT ![p] = @ \o runs]
      /\ \/ cur' = cur /\ lst' = lst
         \/ n > 0 /\ cur' = [cur EXCEPT ![p] = req.id] /\ lst' = [lst EXCEPT ![p] = "reply"]
      /\ UNCHANGED <<answers, result>>
    BY DEF rpc_method_filter
<1> HIDE DEF req, n
<1>5. runs \in Seq(Id) /\ Len(runs) = n
    BY <1>2, <1>3
<1>6. log'[p] = log[p] \o runs /\ \A q \in Proc \ {p} : log'[q] = log[q]
    BY <1>1, <1>4
<1>7. ASSUME NEW q \in Proc, NEW i \in 1 .. Len(log[q])
      PROVE  i \in 1 .. Len(log'[q]) /\ log'[q][i] = log[q][i]
    <2> HIDE DEF runs
    <2>1. log[q] \in Seq(Id)
        BY <1>1
    <2>2. CASE q = p
        BY <2>1, <2>2, <1>5, <1>6
    <2>3. CASE q # p
        BY <2>3, <1>6
    <2> QED
        BY <2>2, <2>3
<1>8. Ran \subseteq Ran'
    BY <1>7 DEF Ran
<1>9. n > 0 => req.id \in Ran'
    <2> SUFFICES ASSUME n > 0 PROVE req.id \in Ran'
        OBVIOUS
    <2>1. runs[n] = req.id
        BY <1>3
    <2> HIDE DEF runs
    <2>2. log[p] \in Seq(Id)
        BY <1>1
    <2>3. Len(log[p]) + n \in 1 .. Len(log'[p]) /\ log'[p][Len(log[p]) + n] = runs[n]
        BY <2>2, <1>3, <1>5, <1>6
    <2> QED
        BY <1>2, <2>1, <2>3 DEF Ran
<1>10. \A q \in Proc : lst'[q] = "reply" => cur'[q] \in Ran'
    <2>1. CASE cur' = cur /\ lst' = lst
        BY <1>8, <2>1 DEF RanInv, RepliesRan
    <2>2. CASE n > 0 /\ cur' = [cur EXCEPT ![p] = req.id] /\ lst' = [lst EXCEPT ![p] = "reply"]
        BY <1>8, <1>9, <2>2 DEF RanInv, RepliesRan, TypeOK
    <2> QED
        BY <1>4, <2>1, <2>2
<1> QED
    BY <1>4, <1>8, <1>10 DEF RanInv, RepliesRan, OkMeansRun

LEMMA NextRan == TypeOK /\ RanInv /\ [Next]_vars => RanInv'
<1> SUFFICES ASSUME TypeOK, RanInv, [Next]_vars PROVE RanInv'
    OBVIOUS
<1>1. CASE UNCHANGED <<lst, cur, answers, result, log>>
    BY <1>1, SameLog DEF RanInv, RepliesRan, OkMeansRun
<1>2. ASSUME NEW p \in Proc, rpc_listen(p) PROVE RanInv'
    BY <1>2, SameLog DEF rpc_listen, TypeOK, RanInv, RepliesRan, OkMeansRun
<1>3. ASSUME NEW p \in Proc, request_name(p) PROVE RanInv'
    <2>1. CASE owner[NameOf[p]] = None
        BY <1>3, <2>1, SameLog DEF request_name, TypeOK, RanInv, RepliesRan, OkMeansRun
    <2> QED
        BY <1>3, <2>1, DieRan DEF request_name
<1>4. ASSUME NEW p \in Proc, rpc_method_filter(p) PROVE RanInv'
    BY <1>4, FilterRan
<1>5. ASSUME NEW p \in Proc, send_reply(p) PROVE RanInv'
    <2>1. Ran' = Ran /\ result' = result /\ lst[p] = "reply" /\ cur[p] \in Id /\ cur[p] \in Ran
        BY <1>5, SameLog DEF send_reply, TypeOK, RanInv, RepliesRan
    <2>2. \A q \in Proc : lst'[q] = "reply" => lst[q] = "reply" /\ cur'[q] = cur[q]
        BY <1>5 DEF send_reply, TypeOK
    <2>3. cur[p] = <<cur[p][1], cur[p][2]>>
        BY <2>1 DEF Id
    <2>4. \A q \in Proc : \A a \in answers'[q] :
             a \in answers[q] \/ (q = cur[p][1] /\ a.serial = cur[p][2])
        BY <1>5 DEF send_reply, TypeOK
    <2> QED
        BY <2>1, <2>2, <2>3, <2>4 DEF RanInv, RepliesRan, OkMeansRun
<1>6. ASSUME NEW p \in Caller, NEW m \in Module, NEW r \in {"pending", "sent"}, Issue(p, m, r)
      PROVE  RanInv'
    <2>1. Ran' = Ran /\ UNCHANGED <<lst, cur>>
        BY <1>6, SameLog DEF Issue
    <2>2. \A q \in Proc : \A a \in answers'[q] : a \in answers[q] \/ a.kind = "error"
        <3> DEFINE err == [serial |-> calls[p] + 1, kind |-> "error"]
        <3>1. answers' = answers \/ answers' = [answers EXCEPT ![p] = @ \cup {err}]
            BY <1>6 DEF Issue, Route
        <3>2. err.kind = "error"
            OBVIOUS
        <3> HIDE DEF err
        <3>3. CASE answers' = answers
            BY <3>3
        <3>4. CASE answers' = [answers EXCEPT ![p] = @ \cup {err}]
            <4>1. \A q \in Proc : \A a \in answers'[q] : a \in answers[q] \/ a = err
                BY <3>4 DEF TypeOK
            <4> QED
                BY <3>2, <4>1
        <3> QED
            BY <3>1, <3>3, <3>4
    <2>3. \A id \in Id : result'[id] = "ok" => result[id] = "ok"
        BY <1>6 DEF Issue, TypeOK
    <2> QED
        BY <2>1, <2>2, <2>3 DEF RanInv, RepliesRan, OkMeansRun
<1>7. ASSUME NEW p \in Caller, call_return(p) PROVE RanInv'
    <2>1. Ran' = Ran /\ UNCHANGED <<lst, cur>>
        BY <1>7, SameLog DEF call_return
    <2>2. PICK a \in answers[p] :
              /\ a.serial = calls[p]
              /\ result' = [result EXCEPT ![<<p, calls[p]>>] = IF a.kind = "ok" THEN "ok" ELSE "fail"]
              /\ answers' = [answers EXCEPT ![p] = @ \ {a}]
        BY <1>7 DEF call_return
    <2>3. p \in Proc /\ (a.kind = "ok" => <<p, calls[p]>> \in Ran)
        BY <2>2, ProcAssumption DEF RanInv, RepliesRan
    <2>4. \A q \in Proc : answers'[q] \subseteq answers[q]
        BY <2>2 DEF TypeOK
    <2>5. \A id \in Id : result'[id] = "ok" => id \in Ran
        BY <2>2, <2>3 DEF TypeOK, RanInv, OkMeansRun
    <2> QED
        BY <2>1, <2>4, <2>5 DEF RanInv, RepliesRan, OkMeansRun
<1>8. ASSUME NEW p \in Caller, call_timeout(p) PROVE RanInv'
    <2>1. Ran' = Ran /\ UNCHANGED <<lst, cur, answers>>
        BY <1>8, SameLog DEF call_timeout
    <2>2. \A id \in Id : result'[id] = "ok" => result[id] = "ok"
        BY <1>8 DEF call_timeout, TypeOK
    <2> QED
        BY <2>1, <2>2 DEF RanInv, RepliesRan, OkMeansRun
<1>9. ASSUME NEW p \in Proc, Crash(p) PROVE RanInv'
    BY <1>9, DieRan DEF Crash
<1> QED
    BY <1>1, <1>2, <1>3, <1>4, <1>5, <1>6, <1>7, <1>8, <1>9
    DEF Next, vars, rpc_init, rpc_reg, call_block, call_unblock

\* A call returns success to its caller only after the handler ran.
THEOREM SuccessMeansRun == Spec => []OkMeansRun
<1>1. RanInv => OkMeansRun
    BY DEF RanInv
<1> QED
    BY InitType, NextType, InitRan, NextRan, <1>1, PTL DEF Spec

-----------------------------------------------------------------------------
(* The order of the calls, and how often they run. *)

\* What is known of the calls that were made, and of the one waited for.
Issued ==
    /\ \A id \in Id : result[id] # "none" <=> id[2] <= calls[id[1]]
    /\ \A p \in Proc : main[p] = "wait" =>
          <<p, calls[p]>> \in Id /\ result[<<p, calls[p]>>] = "pending"

\* What is queued or has run was called.
Called ==
    /\ \A p \in Proc : \A i \in 1 .. Len(inbox[p]) :
          inbox[p][i].id[2] <= calls[inbox[p][i].id[1]]
    /\ \A p \in Proc : \A i \in 1 .. Len(log[p]) : log[p][i][2] <= calls[log[p][i][1]]

\* A call is queued in one place only.
QueuedOnce ==
    \A p, q \in Proc : \A i \in 1 .. Len(inbox[p]), j \in 1 .. Len(inbox[q]) :
        inbox[p][i].id = inbox[q][j].id => p = q /\ i = j

\* What is queued has not run.
QueuedToRun ==
    \A p, q \in Proc : \A i \in 1 .. Len(inbox[p]), j \in 1 .. Len(log[q]) :
        inbox[p][i].id # log[q][j]

\* What is queued is in the order it was called, and behind what has run.
QueuedInOrder ==
    \A p \in Proc : \A i \in 1 .. Len(inbox[p]) :
        /\ \A j \in 1 .. Len(inbox[p]) :
              i < j /\ inbox[p][i].id[1] = inbox[p][j].id[1] => inbox[p][i].id[2] < inbox[p][j].id[2]
        /\ \A j \in 1 .. Len(log[p]) :
              log[p][j][1] = inbox[p][i].id[1] => log[p][j][2] < inbox[p][i].id[2]

QueueInv == Called /\ QueuedOnce /\ QueuedToRun /\ QueuedInOrder /\ RunsInOrder

\* The listener's step: the head of the inbox leaves, and enters the log as
\* often as it runs.
Takes(p, id, n) ==
    /\ inbox[p] # <<>> /\ id = inbox[p][1].id /\ n = Runs(p, inbox[p][1].mod)
    /\ Len(inbox'[p]) = Len(inbox[p]) - 1
    /\ \A i \in 1 .. Len(inbox'[p]) : inbox'[p][i] = inbox[p][i + 1]
    /\ Len(log'[p]) = Len(log[p]) + n
    /\ \A i \in 1 .. Len(log'[p]) : log'[p][i] = IF i <= Len(log[p]) THEN log[p][i] ELSE id
    /\ \A q \in Proc : q # p => inbox'[q] = inbox[q] /\ log'[q] = log[q]

LEMMA TailOf ==
    ASSUME NEW S, NEW s \in Seq(S), s # <<>>
    PROVE  /\ Head(s) = s[1] /\ s[1] \in S /\ Len(s) \in Nat \ {0}
           /\ Len(Tail(s)) = Len(s) - 1
           /\ \A i \in 1 .. Len(Tail(s)) : Tail(s)[i] = s[i + 1]
OBVIOUS

LEMMA FollowedBy ==
    ASSUME NEW S, NEW s \in Seq(S), NEW e \in S, NEW n \in Nat
    PROVE  LET t == s \o [i \in 1 .. n |-> e] IN
           /\ Len(t) = Len(s) + n
           /\ \A i \in 1 .. Len(t) : t[i] = IF i <= Len(s) THEN s[i] ELSE e
<1> DEFINE r == [i \in 1 .. n |-> e]
<1>1. r \in Seq(S) /\ Len(r) = n /\ \A i \in 1 .. n : r[i] = e
    OBVIOUS
<1> HIDE DEF r
<1> QED
    BY <1>1

LEMMA FilterTakes ==
    ASSUME NEW p \in Proc, TypeOK, rpc_method_filter(p)
    PROVE  \E id \in Id, n \in Nat :
              /\ Takes(p, id, n)
              /\ IF n > 0 THEN cur' = [cur EXCEPT ![p] = id] /\ lst' = [lst EXCEPT ![p] = "reply"]
                          ELSE UNCHANGED <<cur, lst>>
<1> DEFINE req == inbox[p][1]
           n == Runs(p, req.mod)
<1>1. inbox[p] \in Seq(Request) /\ inbox[p] # <<>> /\ log[p] \in Seq(Id)
    BY DEF rpc_method_filter, TypeOK
<1>2. Head(inbox[p]) = req /\ req \in Request
    BY <1>1, TailOf
<1>3. req.id \in Id
    BY <1>2 DEF Request
<1>4. n \in Nat
    BY DEF Runs, TypeOK
<1>5. /\ inbox' = [inbox EXCEPT ![p] = Tail(@)]
      /\ log' = [log EXCEPT ![p] = @ \o [i \in 1 .. n |-> req.id]]
      /\ IF n > 0 THEN cur' = [cur EXCEPT ![p] = req.id] /\ lst' = [lst EXCEPT ![p] = "reply"]
                  ELSE UNCHANGED <<cur, lst>>
    BY <1>2 DEF rpc_method_filter
<1>6. /\ inbox'[p] = Tail(inbox[p]) /\ log'[p] = log[p] \o [i \in 1 .. n |-> req.id]
      /\ \A q \in Proc : q # p => inbox'[q] = inbox[q] /\ log'[q] = log[q]
    BY <1>5 DEF TypeOK
<1>7. Takes(p, req.id, n)
    <2>1. /\ Len(inbox'[p]) = Len(inbox[p]) - 1
          /\ \A i \in 1 .. Len(inbox'[p]) : inbox'[p][i] = inbox[p][i + 1]
        BY <1>1, <1>6, TailOf
    <2>2. /\ Len(log'[p]) = Len(log[p]) + n
          /\ \A i \in 1 .. Len(log'[p]) : log'[p][i] = IF i <= Len(log[p]) THEN log[p][i] ELSE req.id
        <3> HIDE DEF n
        <3> QED
            BY <1>1, <1>3, <1>4, <1>6, FollowedBy
    <2> QED
        BY <1>1, <1>6, <2>1, <2>2 DEF Takes
<1> QED
    BY <1>3, <1>4, <1>5, <1>7

LEMMA TakesQueue ==
    ASSUME NEW p \in Proc, NEW id \in Id, NEW n \in Nat, TypeOK, TypeOK', QueueInv,
           Takes(p, id, n), calls' = calls
    PROVE  QueueInv'
<1>1. \A q \in Proc : /\ inbox[q] \in Seq(Request) /\ log[q] \in Seq(Id)
                      /\ inbox'[q] \in Seq(Request) /\ log'[q] \in Seq(Id)
    BY DEF TypeOK
<1>2. Len(inbox[p]) >= 1
    BY <1>1, TailOf DEF Takes
<1>3. ASSUME NEW q \in Proc, NEW i \in 1 .. Len(inbox'[q])
      PROVE  \E k \in 1 .. Len(inbox[q]) :
                inbox'[q][i] = inbox[q][k] /\ k = IF q = p THEN i + 1 ELSE i
    <2>0. Len(inbox[q]) \in Nat /\ Len(inbox'[q]) \in Nat
        BY <1>1
    <2>1. CASE q = p
        <3>1. i + 1 \in 1 .. Len(inbox[q]) /\ inbox'[q][i] = inbox[q][i + 1]
            BY <2>0, <2>1 DEF Takes
        <3> QED
            BY <2>1, <3>1
    <2>2. CASE q # p
        BY <2>2 DEF Takes
    <2> QED
        BY <2>1, <2>2
<1>4. ASSUME NEW q \in Proc, NEW i \in 1 .. Len(log'[q])
      PROVE  \/ i \in 1 .. Len(log[q]) /\ log'[q][i] = log[q][i]
             \/ q = p /\ i > Len(log[p]) /\ log'[q][i] = id /\ id = inbox[p][1].id
    BY <1>1 DEF Takes
<1>5. Called'
    <2>1. ASSUME NEW q \in Proc, NEW i \in 1 .. Len(inbox'[q])
          PROVE  inbox'[q][i].id[2] <= calls'[inbox'[q][i].id[1]]
        BY <1>3 DEF QueueInv, Called
    <2>2. ASSUME NEW q \in Proc, NEW i \in 1 .. Len(log'[q])
          PROVE  log'[q][i][2] <= calls'[log'[q][i][1]]
        <3>1. 1 \in 1 .. Len(inbox[p])
            BY <1>1, <1>2
        <3>2. inbox[p][1].id[2] <= calls[inbox[p][1].id[1]]
            BY <3>1 DEF QueueInv, Called
        <3>3. CASE i \in 1 .. Len(log[q]) /\ log'[q][i] = log[q][i]
            BY <3>3 DEF QueueInv, Called
        <3>4. CASE log'[q][i] = inbox[p][1].id
            BY <3>2, <3>4
        <3> QED
            BY <1>4, <3>3, <3>4
    <2> QED
        BY <2>1, <2>2 DEF Called
<1>6. QueuedOnce'
    <2> SUFFICES ASSUME NEW q \in Proc, NEW r \in Proc, NEW i \in 1 .. Len(inbox'[q]),
                        NEW j \in 1 .. Len(inbox'[r]), inbox'[q][i].id = inbox'[r][j].id
                 PROVE  q = r /\ i = j
        BY DEF QueuedOnce
    <2> PICK k \in 1 .. Len(inbox[q]) :
                inbox'[q][i] = inbox[q][k] /\ k = IF q = p THEN i + 1 ELSE i
        BY <1>3
    <2> PICK l \in 1 .. Len(inbox[r]) :
                inbox'[r][j] = inbox[r][l] /\ l = IF r = p THEN j + 1 ELSE j
        BY <1>3
    <2>1. q = r /\ k = l
        BY DEF QueueInv, QueuedOnce
    <2> QED
        BY <2>1
<1>7. QueuedToRun'
    <2> SUFFICES ASSUME NEW q \in Proc, NEW r \in Proc, NEW i \in 1 .. Len(inbox'[q]),
                        NEW j \in 1 .. Len(log'[r])
                 PROVE  inbox'[q][i].id # log'[r][j]
        BY DEF QueuedToRun
    <2> PICK k \in 1 .. Len(inbox[q]) :
                inbox'[q][i] = inbox[q][k] /\ k = IF q = p THEN i + 1 ELSE i
        BY <1>3
    <2>1. CASE j \in 1 .. Len(log[r]) /\ log'[r][j] = log[r][j]
        BY <2>1 DEF QueueInv, QueuedToRun
    <2>2. CASE log'[r][j] = inbox[p][1].id
        <3>1. 1 \in 1 .. Len(inbox[p]) /\ (q = p => k # 1)
            BY <1>1, <1>2
        <3> QED
            BY <2>2, <3>1 DEF QueueInv, QueuedOnce
    <2> QED
        BY <1>4, <2>1, <2>2
<1>8. QueuedInOrder'
    <2> SUFFICES ASSUME NEW q \in Proc, NEW i \in 1 .. Len(inbox'[q])
                 PROVE /\ \A j \in 1 .. Len(inbox'[q]) :
                             i < j /\ inbox'[q][i].id[1] = inbox'[q][j].id[1]
                                => inbox'[q][i].id[2] < inbox'[q][j].id[2]
                       /\ \A j \in 1 .. Len(log'[q]) :
                             log'[q][j][1] = inbox'[q][i].id[1] => log'[q][j][2] < inbox'[q][i].id[2]
        BY DEF QueuedInOrder
    <2>1. ASSUME NEW j \in 1 .. Len(inbox'[q]), i < j, inbox'[q][i].id[1] = inbox'[q][j].id[1]
          PROVE  inbox'[q][i].id[2] < inbox'[q][j].id[2]
        <3> PICK k \in 1 .. Len(inbox[q]) :
                    inbox'[q][i] = inbox[q][k] /\ k = IF q = p THEN i + 1 ELSE i
            BY <1>3
        <3> PICK l \in 1 .. Len(inbox[q]) :
                    inbox'[q][j] = inbox[q][l] /\ l = IF q = p THEN j + 1 ELSE j
            BY <1>3
        <3>1. k < l
            BY <2>1
        <3> QED
            BY <2>1, <3>1 DEF QueueInv, QueuedInOrder
    <2>2. ASSUME NEW j \in 1 .. Len(log'[q]), log'[q][j][1] = inbox'[q][i].id[1]
          PROVE  log'[q][j][2] < inbox'[q][i].id[2]
        <3> PICK k \in 1 .. Len(inbox[q]) :
                    inbox'[q][i] = inbox[q][k] /\ k = IF q = p THEN i + 1 ELSE i
            BY <1>3
        <3>1. CASE j \in 1 .. Len(log[q]) /\ log'[q][j] = log[q][j]
            BY <2>2, <3>1 DEF QueueInv, QueuedInOrder
        <3>2. CASE q = p /\ log'[q][j] = inbox[p][1].id
            <4>1. 1 \in 1 .. Len(inbox[p]) /\ 1 < k
                BY <1>1, <1>2, <3>2
            <4> QED
                BY <2>2, <3>2, <4>1 DEF QueueInv, QueuedInOrder
        <3> QED
            BY <1>4, <3>1, <3>2
    <2> QED
        BY <2>1, <2>2
<1>9. RunsInOrder'
    <2> SUFFICES ASSUME NEW q \in Proc, NEW i \in 1 .. Len(log'[q]), NEW j \in 1 .. Len(log'[q]),
                        i < j, log'[q][i][1] = log'[q][j][1]
                 PROVE  log'[q][i][2] <= log'[q][j][2]
        BY DEF RunsInOrder
    <2>0. Len(log[q]) \in Nat
        BY <1>1
    <2>1. CASE j \in 1 .. Len(log[q]) /\ log'[q][j] = log[q][j]
        <3>1. i \in 1 .. Len(log[q]) /\ log'[q][i] = log[q][i]
            BY <2>0, <2>1, <1>4
        <3> QED
            BY <2>1, <3>1 DEF QueueInv, RunsInOrder
    <2>2. CASE q = p /\ log'[q][j] = inbox[p][1].id /\ i \in 1 .. Len(log[q]) /\ log'[q][i] = log[q][i]
        <3>1. 1 \in 1 .. Len(inbox[p])
            BY <1>1, <1>2
        <3>2. log[p][i][2] < inbox[p][1].id[2]
            BY <2>2, <3>1 DEF QueueInv, QueuedInOrder
        <3>3. inbox[p][1].id \in Id /\ log[p][i] \in Id
            BY <1>1, <2>2, <3>1 DEF Request
        <3> QED
            BY <2>2, <3>2, <3>3 DEF Id, Serial
    <2>3. CASE log'[q][j] = id /\ log'[q][i] = id
        BY <2>3 DEF Id, Serial
    <2> QED
        BY <1>4, <2>1, <2>2, <2>3
<1> QED
    BY <1>5, <1>6, <1>7, <1>8, <1>9 DEF QueueInv

\* A call joins at most one inbox, behind everything.
LEMMA IssueQueue ==
    ASSUME NEW p \in Caller, NEW m \in Module, NEW r \in {"pending", "sent"},
           TypeOK, TypeOK', QueueInv, Issue(p, m, r)
    PROVE  QueueInv'
<1> DEFINE n == calls[p] + 1
           o == owner[Provider[m]]
           req == [id |-> <<p, n>>, mod |-> m]
<1>1. p \in Proc /\ calls[p] \in Nat /\ n = calls[p] + 1 /\ o \in Proc \cup {None}
    BY ProcAssumption, NameAssumption, BoundAssumption DEF TypeOK
<1>2. /\ calls' = [calls EXCEPT ![p] = n] /\ log' = log
      /\ \/ inbox' = inbox
         \/ o # None /\ inbox' = [inbox EXCEPT ![o] = Append(@, req)]
    BY DEF Issue, Route
<1>3. req.id = <<p, n>>
    OBVIOUS
<1> HIDE DEF n, o, req
<1>4. \A q \in Proc : /\ inbox[q] \in Seq(Request) /\ log[q] \in Seq(Id)
                      /\ inbox'[q] \in Seq(Request)
    BY DEF TypeOK
<1>5. \A q \in Proc : calls[q] <= calls'[q] /\ calls[q] \in Nat /\ calls'[q] \in Nat
    <2>1. calls \in [Proc -> Nat]
        BY BoundAssumption DEF TypeOK
    <2>2. calls'[p] = n /\ \A q \in Proc : q # p => calls'[q] = calls[q]
        BY <1>1, <1>2, <2>1
    <2> QED
        BY <1>1, <2>1, <2>2
<1>6. ASSUME NEW q \in Proc, NEW i \in 1 .. Len(inbox'[q])
      PROVE  \/ i \in 1 .. Len(inbox[q]) /\ inbox'[q][i] = inbox[q][i]
             \/ q = o /\ i = Len(inbox[q]) + 1 /\ inbox'[q][i].id = <<p, n>>
    <2>1. CASE inbox'[q] = inbox[q]
        BY <2>1
    <2>2. CASE q = o /\ inbox'[q] = Append(inbox[q], req)
        BY <2>2, <1>3, <1>4
    <2>3. inbox \in [Proc -> Seq(Request)]
        BY DEF TypeOK
    <2>4. inbox'[q] = inbox[q] \/ (q = o /\ inbox'[q] = Append(inbox[q], req))
        BY <1>2, <2>3
    <2> QED
        BY <2>1, <2>2, <2>4
<1>7. ASSUME NEW q \in Proc, NEW i \in 1 .. Len(inbox[q])
      PROVE  /\ inbox[q][i].id \in Id
             /\ inbox[q][i].id[1] = p => inbox[q][i].id[2] < n
             /\ inbox[q][i].id # <<p, n>>
    <2>0. inbox[q][i] \in Request
        BY <1>4
    <2>1. inbox[q][i].id \in Id
        BY <2>0 DEF Request
    <2>2. inbox[q][i].id[2] <= calls[inbox[q][i].id[1]]
        BY DEF QueueInv, Called
    <2> QED
        BY <1>1, <2>1, <2>2 DEF Id, Serial
<1>8. ASSUME NEW q \in Proc, NEW i \in 1 .. Len(log[q])
      PROVE  /\ log[q][i] \in Id
             /\ log[q][i][1] = p => log[q][i][2] < n
             /\ log[q][i] # <<p, n>>
    <2>1. log[q][i] \in Id
        BY <1>4
    <2>2. log[q][i][2] <= calls[log[q][i][1]]
        BY DEF QueueInv, Called
    <2> QED
        BY <1>1, <2>1, <2>2 DEF Id, Serial
<1>9. Called'
    <2>1. ASSUME NEW q \in Proc, NEW i \in 1 .. Len(inbox'[q])
          PROVE  inbox'[q][i].id[2] <= calls'[inbox'[q][i].id[1]]
        <3>1. CASE i \in 1 .. Len(inbox[q]) /\ inbox'[q][i] = inbox[q][i]
            <4>1. inbox[q][i].id \in Id /\ inbox[q][i].id[2] <= calls[inbox[q][i].id[1]]
                BY <1>7, <3>1 DEF QueueInv, Called
            <4> QED
                BY <3>1, <4>1, <1>5 DEF Id, Serial
        <3>2. CASE inbox'[q][i].id = <<p, n>>
            BY <3>2, <1>1, <1>2 DEF TypeOK
        <3> QED
            BY <1>6, <3>1, <3>2
    <2>2. ASSUME NEW q \in Proc, NEW i \in 1 .. Len(log'[q])
          PROVE  log'[q][i][2] <= calls'[log'[q][i][1]]
        <3>1. log[q][i] \in Id /\ log[q][i][2] <= calls[log[q][i][1]] /\ log'[q][i] = log[q][i]
            BY <1>2, <1>8 DEF QueueInv, Called
        <3> QED
            BY <3>1, <1>5 DEF Id, Serial
    <2> QED
        BY <2>1, <2>2 DEF Called
<1>10. QueuedOnce'
    <2> SUFFICES ASSUME NEW q \in Proc, NEW s \in Proc, NEW i \in 1 .. Len(inbox'[q]),
                        NEW j \in 1 .. Len(inbox'[s]), inbox'[q][i].id = inbox'[s][j].id
                 PROVE  q = s /\ i = j
        BY DEF QueuedOnce
    <2>1. CASE inbox'[q][i].id = <<p, n>>
        <3>1. inbox'[s][j].id = <<p, n>>
            BY <2>1
        <3>2. q = o /\ i = Len(inbox[q]) + 1
            BY <1>6, <1>7, <2>1
        <3>3. s = o /\ j = Len(inbox[s]) + 1
            BY <1>6, <1>7, <3>1
        <3> QED
            BY <3>2, <3>3
    <2>2. CASE inbox'[q][i].id # <<p, n>>
        <3>1. /\ i \in 1 .. Len(inbox[q]) /\ inbox'[q][i] = inbox[q][i]
              /\ j \in 1 .. Len(inbox[s]) /\ inbox'[s][j] = inbox[s][j]
            <4>1. inbox'[s][j].id # <<p, n>>
                BY <2>2
            <4>2. \A t \in Proc : \A l \in 1 .. Len(inbox'[t]) : inbox'[t][l].id # <<p, n>> =>
                     l \in 1 .. Len(inbox[t]) /\ inbox'[t][l] = inbox[t][l]
                <5> HIDE DEF QueueInv
                <5> QED
                    BY <1>6
            <4> QED
                BY <2>2, <4>1, <4>2
        <3> QED
            BY <3>1 DEF QueueInv, QueuedOnce
    <2> QED
        BY <2>1, <2>2
<1>11. QueuedToRun'
    <2> SUFFICES ASSUME NEW q \in Proc, NEW s \in Proc, NEW i \in 1 .. Len(inbox'[q]),
                        NEW j \in 1 .. Len(log[s])
                 PROVE  inbox'[q][i].id # log[s][j]
        BY <1>2 DEF QueuedToRun
    <2>1. CASE i \in 1 .. Len(inbox[q]) /\ inbox'[q][i] = inbox[q][i]
        BY <2>1 DEF QueueInv, QueuedToRun
    <2>2. CASE inbox'[q][i].id = <<p, n>>
        BY <2>2, <1>8
    <2> QED
        BY <1>6, <2>1, <2>2
<1>12. QueuedInOrder'
    <2> SUFFICES ASSUME NEW q \in Proc, NEW i \in 1 .. Len(inbox'[q])
                 PROVE /\ \A j \in 1 .. Len(inbox'[q]) :
                             i < j /\ inbox'[q][i].id[1] = inbox'[q][j].id[1]
                                => inbox'[q][i].id[2] < inbox'[q][j].id[2]
                       /\ \A j \in 1 .. Len(log[q]) :
                             log[q][j][1] = inbox'[q][i].id[1] => log[q][j][2] < inbox'[q][i].id[2]
        BY <1>2 DEF QueuedInOrder
    <2>0. Len(inbox[q]) \in Nat
        BY <1>4
    <2>1. ASSUME NEW j \in 1 .. Len(inbox'[q]), i < j, inbox'[q][i].id[1] = inbox'[q][j].id[1]
          PROVE  inbox'[q][i].id[2] < inbox'[q][j].id[2]
        <3>1. i \in 1 .. Len(inbox[q]) /\ inbox'[q][i] = inbox[q][i]
            <4>1. i # Len(inbox[q]) + 1
                BY <1>6, <2>0, <2>1
            <4> QED
                BY <1>6, <4>1
        <3>2. CASE j \in 1 .. Len(inbox[q]) /\ inbox'[q][j] = inbox[q][j]
            BY <2>1, <3>1, <3>2 DEF QueueInv, QueuedInOrder
        <3>3. CASE inbox'[q][j].id = <<p, n>>
            BY <2>1, <3>1, <3>3, <1>7
        <3> QED
            BY <1>6, <3>2, <3>3
    <2>2. ASSUME NEW j \in 1 .. Len(log[q]), log[q][j][1] = inbox'[q][i].id[1]
          PROVE  log[q][j][2] < inbox'[q][i].id[2]
        <3>1. CASE i \in 1 .. Len(inbox[q]) /\ inbox'[q][i] = inbox[q][i]
            BY <2>2, <3>1 DEF QueueInv, QueuedInOrder
        <3>2. CASE inbox'[q][i].id = <<p, n>>
            BY <2>2, <3>2, <1>8
        <3> QED
            BY <1>6, <3>1, <3>2
    <2> QED
        BY <2>1, <2>2
<1>13. RunsInOrder'
    BY <1>2 DEF QueueInv, RunsInOrder
<1> QED
    BY <1>9, <1>10, <1>11, <1>12, <1>13 DEF QueueInv

\* An inbox that is emptied takes nothing with it.
LEMMA EmptyQueue ==
    ASSUME QueueInv, UNCHANGED <<calls, log>>,
           \A q \in Proc : inbox'[q] = inbox[q] \/ inbox'[q] = <<>>
    PROVE  QueueInv'
<1>1. \A q \in Proc : \A i \in 1 .. Len(inbox'[q]) : i \in 1 .. Len(inbox[q]) /\ inbox'[q] = inbox[q]
    OBVIOUS
<1>2. Called' /\ RunsInOrder'
    BY <1>1 DEF QueueInv, Called, RunsInOrder
<1>3. QueuedOnce' /\ QueuedToRun'
    BY <1>1 DEF QueueInv, QueuedOnce, QueuedToRun
<1>4. QueuedInOrder'
    BY <1>1 DEF QueueInv, QueuedInOrder
<1> QED
    BY <1>2, <1>3, <1>4 DEF QueueInv

LEMMA DieQueue == ASSUME NEW p \in Proc, TypeOK, QueueInv, Die(p) PROVE QueueInv'
<1>1. \A q \in Proc : inbox'[q] = inbox[q] \/ inbox'[q] = <<>>
    BY DEF Die, TypeOK
<1> QED
    BY <1>1, EmptyQueue DEF Die

LEMMA InitQueue == Init => QueueInv
<1> SUFFICES ASSUME Init PROVE QueueInv
    OBVIOUS
<1>1. \A q \in Proc : 1 .. Len(inbox[q]) = {} /\ 1 .. Len(log[q]) = {}
    BY DEF Init
<1> QED
    BY <1>1 DEF QueueInv, Called, QueuedOnce, QueuedToRun, QueuedInOrder, RunsInOrder

LEMMA NextQueue == TypeOK /\ QueueInv /\ [Next]_vars => QueueInv'
<1> SUFFICES ASSUME TypeOK, QueueInv, [Next]_vars PROVE QueueInv'
    OBVIOUS
<1>1. TypeOK'
    BY NextType
<1>2. CASE UNCHANGED <<inbox, calls, log>>
    BY <1>2, EmptyQueue
<1>3. ASSUME NEW p \in Proc, request_name(p) PROVE QueueInv'
    BY <1>2, <1>3, DieQueue DEF request_name
<1>4. ASSUME NEW p \in Proc, rpc_method_filter(p) PROVE QueueInv'
    <2>1. calls' = calls
        BY <1>4 DEF rpc_method_filter
    <2> QED
        BY <1>1, <1>4, <2>1, FilterTakes, TakesQueue
<1>5. ASSUME NEW p \in Caller, NEW m \in Module, NEW r \in {"pending", "sent"}, Issue(p, m, r)
      PROVE  QueueInv'
    BY <1>1, <1>5, IssueQueue
<1>6. ASSUME NEW p \in Proc, Crash(p) PROVE QueueInv'
    BY <1>6, DieQueue DEF Crash
<1> QED
    BY <1>2, <1>3, <1>4, <1>5, <1>6 DEF Next, vars, rpc_init, rpc_reg, rpc_listen, send_reply,
       call_block, call_unblock, call_return, call_timeout

\* The calls of one caller run in the order it made them.
THEOREM KeepsOrder == Spec => []RunsInOrder
<1>1. QueueInv => RunsInOrder
    BY DEF QueueInv
<1> QED
    BY InitType, NextType, InitQueue, NextQueue, <1>1, PTL DEF Spec

-----------------------------------------------------------------------------
(* What has been registered when the listener runs. *)

\* The modules of a process are the first of its list, and all of them before
\* the listener starts.
Registered ==
    \A p \in Proc :
        /\ Len(mods[p]) <= Len(Load[p])
        /\ \A i \in 1 .. Len(mods[p]) : mods[p][i] = Load[p][i]
        /\ main[p] \in {"boot", "reg"} => lst[p] = "off"
        /\ lst[p] # "off" => Len(mods[p]) = Len(Load[p])

LEMMA InitRegistered == Init => Registered
<1> SUFFICES ASSUME Init, NEW p \in Proc
             PROVE /\ Len(mods[p]) <= Len(Load[p])
                   /\ \A i \in 1 .. Len(mods[p]) : mods[p][i] = Load[p][i]
                   /\ lst[p] = "off"
    BY DEF Registered
<1>1. Load[p] \in Seq(Module) /\ Len(mods[p]) = 0
    BY LoadAssumption DEF Init
<1> QED
    BY <1>1 DEF Init

LEMMA DieRegistered == ASSUME NEW p \in Proc, TypeOK, Registered, Die(p) PROVE Registered'
BY DEF Die, TypeOK, Registered

LEMMA NextRegistered == TypeOK /\ Registered /\ [Next]_vars => Registered'
<1> SUFFICES ASSUME TypeOK, Registered, [Next]_vars PROVE Registered'
    OBVIOUS
<1>0. \A p \in Proc : Load[p] \in Seq(Module) /\ mods[p] \in Seq(Module)
    BY LoadAssumption DEF TypeOK
<1>1. CASE UNCHANGED <<main, lst, mods>>
    BY <1>1 DEF Registered
<1>2. ASSUME NEW p \in Proc, rpc_init(p) PROVE Registered'
    <2>1. \A q \in Proc : mods'[q] = mods[q] \/ (mods'[q] = <<>> /\ lst[q] = "off")
        BY <1>2 DEF rpc_init, TypeOK, Registered
    <2>2. \A q \in Proc : main'[q] \in {"boot", "reg"} => lst'[q] = "off"
        BY <1>2 DEF rpc_init, TypeOK, Registered
    <2>3. lst' = lst
        BY <1>2 DEF rpc_init
    <2>4. ASSUME NEW q \in Proc
          PROVE  Len(mods'[q]) <= Len(Load[q]) /\ \A i \in 1 .. Len(mods'[q]) : mods'[q][i] = Load[q][i]
        BY <1>0, <2>1 DEF Registered
    <2> QED
        BY <2>1, <2>2, <2>3, <2>4 DEF Registered
<1>3. ASSUME NEW p \in Proc, rpc_reg(p) PROVE Registered'
    <2> DEFINE k == Len(mods[p])
    <2>1. /\ k < Len(Load[p]) /\ lst[p] = "off" /\ UNCHANGED <<main, lst>>
          /\ mods' = [mods EXCEPT ![p] = Append(@, Load[p][k + 1])]
        BY <1>3 DEF rpc_reg, Registered
    <2>2. /\ mods'[p] = Append(mods[p], Load[p][k + 1])
          /\ \A q \in Proc : q # p => mods'[q] = mods[q]
        BY <2>1 DEF TypeOK
    <2>3. /\ Len(mods'[p]) = k + 1 /\ mods'[p][k + 1] = Load[p][k + 1]
          /\ \A i \in 1 .. k : mods'[p][i] = mods[p][i]
        BY <1>0, <2>2
    <2>4. k \in Nat /\ Len(Load[p]) \in Nat
        BY <1>0
    <2>5. Len(mods'[p]) <= Len(Load[p]) /\ \A i \in 1 .. Len(mods'[p]) : mods'[p][i] = Load[p][i]
        <3> HIDE DEF k
        <3>1. \A i \in 1 .. k : mods[p][i] = Load[p][i]
            BY DEF Registered, k
        <3> QED
            BY <2>1, <2>3, <2>4, <3>1
    <2> QED
        BY <2>1, <2>2, <2>5 DEF Registered
<1>4. ASSUME NEW p \in Proc, rpc_listen(p) PROVE Registered'
    BY <1>4 DEF rpc_listen, TypeOK, Registered
<1>5. ASSUME NEW p \in Proc, request_name(p) PROVE Registered'
    <2>1. CASE owner[NameOf[p]] = None
        BY <1>5, <2>1 DEF request_name, TypeOK, Registered
    <2> QED
        BY <1>5, <2>1, DieRegistered DEF request_name
<1>6. ASSUME NEW p \in Proc, rpc_method_filter(p) PROVE Registered'
    <2>1. lst[p] = "serve" /\ UNCHANGED <<main, mods>>
        BY <1>6 DEF rpc_method_filter
    <2>2. lst' = lst \/ lst' = [lst EXCEPT ![p] = "reply"]
        BY <1>6 DEF rpc_method_filter
    <2> QED
        BY <2>1, <2>2 DEF TypeOK, Registered
<1>7. ASSUME NEW p \in Proc, send_reply(p) PROVE Registered'
    BY <1>7 DEF send_reply, TypeOK, Registered
<1>8. ASSUME NEW p \in Caller, main[p] \in {"run", "wait"}, UNCHANGED <<lst, mods>>,
             main' \in {main, [main EXCEPT ![p] = "wait"], [main EXCEPT ![p] = "run"]}
      PROVE  Registered'
    BY <1>8 DEF TypeOK, Registered
<1>9. ASSUME NEW p \in Proc, Crash(p) PROVE Registered'
    BY <1>9, DieRegistered DEF Crash
<1> QED
    BY <1>1, <1>2, <1>3, <1>4, <1>5, <1>6, <1>7, <1>8, <1>9 DEF Next, vars, call_block,
       call_unblock, Issue, call_return, call_timeout

-----------------------------------------------------------------------------
(* The handler of a call runs at most once, where a process has one module. *)

\* Every process registers at most one module, as those of services and apps do.
OneModuleEach == \A p \in Proc : Len(Load[p]) <= 1

LEMMA TakesOnce ==
    ASSUME NEW p \in Proc, NEW id \in Id, NEW n \in Nat, TypeOK, TypeOK', QueueInv,
           Registered, OneModuleEach, RunsAtMostOnce, Takes(p, id, n)
    PROVE  RunsAtMostOnce'
<1>1. \A q \in Proc : Len(inbox[q]) \in Nat /\ Len(log[q]) \in Nat /\ Len(log'[q]) \in Nat
    BY DEF TypeOK
<1>2. n <= 1
    <2>1. n \in {0, Len(mods[p])}
        BY DEF Takes, Runs
    <2>2. Load[p] \in Seq(Module) /\ mods[p] \in Seq(Module)
        BY LoadAssumption DEF TypeOK
    <2> QED
        BY <2>1, <2>2 DEF Registered, OneModuleEach
<1>3. 1 \in 1 .. Len(inbox[p])
    <2>1. inbox[p] \in Seq(Request)
        BY DEF TypeOK
    <2> QED
        BY <2>1, TailOf DEF Takes
<1>4. \A q \in Proc : \A j \in 1 .. Len(log[q]) : log[q][j] # id
    BY <1>3 DEF QueueInv, QueuedToRun, Takes
<1>5. ASSUME NEW q \in Proc, NEW i \in 1 .. Len(log'[q])
      PROVE  \/ i \in 1 .. Len(log[q]) /\ log'[q][i] = log[q][i]
             \/ q = p /\ i = Len(log[p]) + 1 /\ log'[q][i] = id
    <2>1. CASE q = p
        BY <1>1, <1>2, <2>1 DEF Takes
    <2>2. CASE q # p
        BY <2>2 DEF Takes
    <2> QED
        BY <2>1, <2>2
<1> SUFFICES ASSUME NEW q \in Proc, NEW r \in Proc, NEW i \in 1 .. Len(log'[q]),
                    NEW j \in 1 .. Len(log'[r]), log'[q][i] = log'[r][j]
             PROVE  q = r /\ i = j
    BY DEF RunsAtMostOnce
<1>6. CASE log'[q][i] = id
    <2>1. q = p /\ i = Len(log[p]) + 1
        BY <1>4, <1>5, <1>6
    <2>2. r = p /\ j = Len(log[p]) + 1
        BY <1>4, <1>5, <1>6
    <2> QED
        BY <2>1, <2>2
<1>7. CASE log'[q][i] # id
    <2>1. log'[r][j] # id
        BY <1>7
    <2>2. PICK k \in 1 .. Len(log[q]) : k = i /\ log'[q][i] = log[q][k]
        BY <1>5, <1>7
    <2>3. PICK l \in 1 .. Len(log[r]) : l = j /\ log'[r][j] = log[r][l]
        BY <1>5, <2>1
    <2>4. log[q][k] = log[r][l]
        BY <2>2, <2>3
    <2>5. q = r /\ k = l
        BY <2>4 DEF RunsAtMostOnce
    <2> QED
        BY <2>2, <2>3, <2>5
<1> QED
    BY <1>6, <1>7

LEMMA SameLogOnce == ASSUME UNCHANGED log, RunsAtMostOnce PROVE RunsAtMostOnce'
BY DEF RunsAtMostOnce

LEMMA NextOnce ==
    TypeOK /\ QueueInv /\ Registered /\ OneModuleEach /\ RunsAtMostOnce /\ [Next]_vars
        => RunsAtMostOnce'
<1> SUFFICES ASSUME TypeOK, QueueInv, Registered, OneModuleEach, RunsAtMostOnce, [Next]_vars
             PROVE  RunsAtMostOnce'
    OBVIOUS
<1>1. TypeOK'
    BY NextType
<1>2. CASE UNCHANGED log
    BY <1>2, SameLogOnce
<1>3. ASSUME NEW p \in Proc, rpc_method_filter(p) PROVE RunsAtMostOnce'
    BY <1>1, <1>3, FilterTakes, TakesOnce
<1> QED
    BY <1>2, <1>3 DEF Next, vars, rpc_init, rpc_reg, rpc_listen, request_name, send_reply,
       call_block, call_unblock, Issue, call_return, call_timeout, Crash, Die

LEMMA InitOnce == Init => RunsAtMostOnce
<1> SUFFICES ASSUME Init PROVE RunsAtMostOnce
    OBVIOUS
<1>1. \A q \in Proc : 1 .. Len(log[q]) = {}
    BY DEF Init
<1> QED
    BY <1>1 DEF RunsAtMostOnce

\* Where no process registers two modules, the handler of a call runs at most
\* once, whatever crashes, times out or is answered late.
THEOREM RunsOnce == ASSUME OneModuleEach PROVE Spec => []RunsAtMostOnce
<1>1. TypeOK /\ QueueInv /\ Registered /\ RunsAtMostOnce /\ [Next]_vars => RunsAtMostOnce'
    BY NextOnce
<1> QED
    BY InitType, NextType, InitQueue, NextQueue, InitRegistered, NextRegistered, InitOnce, <1>1,
       PTL DEF Spec

-----------------------------------------------------------------------------
(* What the callers know. *)

LEMMA InitIssued == Init => Issued
<1> SUFFICES ASSUME Init PROVE Issued
    OBVIOUS
<1>1. ASSUME NEW id \in Id PROVE result[id] = "none" /\ ~(id[2] <= calls[id[1]])
    <2>1. id[1] \in Proc /\ id[2] \in Serial
        BY DEF Id
    <2> QED
        BY <2>1, BoundAssumption DEF Init, Serial
<1> QED
    BY <1>1 DEF Init, Issued

LEMMA DieIssued == ASSUME NEW p \in Proc, TypeOK, Issued, Die(p) PROVE Issued'
<1>1. \A q \in Proc : main'[q] = "wait" => main[q] = "wait"
    BY DEF Die, TypeOK
<1> QED
    BY <1>1 DEF Die, Issued

\* The next call of p: its serial, what is known of it before and after.
LEMMA IssueNext ==
    ASSUME NEW p \in Caller, NEW m \in Module, NEW r \in {"pending", "sent"}, TypeOK, Issued,
           Issue(p, m, r)
    PROVE  LET n == calls[p] + 1 IN
           /\ p \in Proc /\ n \in Serial /\ <<p, n>> \in Id
           /\ calls'[p] = n /\ \A q \in Proc : q # p => calls'[q] = calls[q]
           /\ result[<<p, n>>] = "none" /\ result' = [result EXCEPT ![<<p, n>>] = r]
<1>1. p \in Proc /\ calls[p] \in 0 .. MaxCalls /\ calls[p] < MaxCalls
    BY ProcAssumption DEF Issue, TypeOK
<1>2. calls[p] + 1 \in Serial /\ <<p, calls[p] + 1>> \in Id
    BY <1>1, BoundAssumption DEF Serial, Id
<1>3. ~(calls[p] + 1 <= calls[p])
    BY <1>1
<1>4. result[<<p, calls[p] + 1>>] = "none"
    BY <1>2, <1>3 DEF Issued
<1> QED
    BY <1>1, <1>2, <1>4 DEF Issue, TypeOK

LEMMA IssueIssued ==
    ASSUME NEW p \in Caller, NEW m \in Module, NEW r \in {"pending", "sent"}, TypeOK, Issued,
           Issue(p, m, r),
           \/ main' = main
           \/ r = "pending" /\ main' = [main EXCEPT ![p] = "wait"]
    PROVE  Issued'
<1> DEFINE n == calls[p] + 1
           call == <<p, n>>
<1>1. /\ p \in Proc /\ n \in Serial /\ call \in Id /\ calls[p] \in Nat /\ n = calls[p] + 1
      /\ calls'[p] = n /\ \A q \in Proc : q # p => calls'[q] = calls[q]
      /\ result[call] = "none" /\ result' = [result EXCEPT ![call] = r]
      /\ call[1] = p /\ call[2] = n /\ main[p] = "run"
    <2>1. /\ p \in Proc /\ n \in Serial /\ call \in Id /\ n = calls[p] + 1
          /\ calls'[p] = n /\ \A q \in Proc : q # p => calls'[q] = calls[q]
          /\ result[call] = "none" /\ result' = [result EXCEPT ![call] = r]
        BY IssueNext
    <2> QED
        BY <2>1, BoundAssumption DEF TypeOK, Issue
<1>2. \A id \in Id : id[1] \in Proc /\ id[2] \in Nat /\ id = <<id[1], id[2]>>
    BY DEF Id, Serial
<1>3. call = <<p, n>>
    OBVIOUS
<1> HIDE DEF n, call
<1>4. result'[call] = r /\ \A id \in Id : id # call => result'[id] = result[id]
    BY <1>1 DEF TypeOK
<1>5. ASSUME NEW id \in Id PROVE result'[id] # "none" <=> id[2] <= calls'[id[1]]
    <2>1. CASE id = call
        BY <1>1, <1>2, <1>4, <2>1
    <2>2. CASE id # call /\ id[1] # p
        BY <1>1, <1>2, <1>4, <2>2 DEF Issued
    <2>3. CASE id # call /\ id[1] = p
        <3>1. id[2] # n
            BY <1>2, <1>3, <2>3
        <3>2. id[2] <= calls[p] <=> id[2] <= n
            BY <1>1, <1>2, <3>1
        <3> QED
            BY <1>1, <1>4, <2>3, <3>2 DEF Issued
    <2> QED
        BY <2>1, <2>2, <2>3
<1>6. ASSUME NEW q \in Proc, main'[q] = "wait"
      PROVE  <<q, calls'[q]>> \in Id /\ result'[<<q, calls'[q]>>] = "pending"
    <2>1. CASE q = p
        <3>1. r = "pending"
            BY <1>1, <1>6, <2>1 DEF TypeOK
        <3> QED
            BY <1>1, <1>3, <1>4, <2>1, <3>1
    <2>2. CASE q # p
        <3>1. main[q] = "wait"
            BY <1>1, <1>6, <2>2 DEF TypeOK
        <3>2. calls'[q] = calls[q] /\ <<q, calls[q]>> # call
            BY <1>1, <1>3, <2>2
        <3> QED
            BY <1>4, <3>1, <3>2 DEF Issued
    <2> QED
        BY <2>1, <2>2
<1> QED
    BY <1>5, <1>6 DEF Issued

\* The end of a wait: the call waited for gets its result.
LEMMA EndIssued ==
    ASSUME NEW p \in Caller, NEW r \in {"ok", "fail"}, TypeOK, Issued, main[p] = "wait",
           result' = [result EXCEPT ![<<p, calls[p]>>] = r],
           main' = [main EXCEPT ![p] = "run"], calls' = calls
    PROVE  Issued'
<1> DEFINE call == <<p, calls[p]>>
<1>1. p \in Proc /\ call \in Id /\ result[call] = "pending"
    BY ProcAssumption DEF Issued
<1>2. call[1] = p
    OBVIOUS
<1>3. result' = [result EXCEPT ![call] = r]
    OBVIOUS
<1>4. \A q \in Proc : q # p => <<q, calls[q]>> # call
    OBVIOUS
<1> HIDE DEF call
<1>5. result'[call] = r /\ \A id \in Id : id # call => result'[id] = result[id]
    BY <1>1, <1>3 DEF TypeOK
<1>6. \A id \in Id : result'[id] # "none" <=> result[id] # "none"
    BY <1>1, <1>5
<1>7. \A q \in Proc : main'[q] = "wait" => q # p /\ main[q] = "wait"
    BY <1>1 DEF TypeOK
<1> QED
    BY <1>4, <1>5, <1>6, <1>7 DEF Issued

LEMMA NextIssued == TypeOK /\ Issued /\ [Next]_vars => Issued'
<1> SUFFICES ASSUME TypeOK, Issued, [Next]_vars PROVE Issued'
    OBVIOUS
<1>1. CASE UNCHANGED <<main, calls, result>>
    BY <1>1 DEF Issued
<1>2. ASSUME NEW p \in Proc, UNCHANGED <<calls, result>>,
             main' \in {[main EXCEPT ![p] = "reg"], [main EXCEPT ![p] = "run"]}
      PROVE  Issued'
    <2>1. \A q \in Proc : main'[q] = "wait" => main[q] = "wait"
        BY <1>2 DEF TypeOK
    <2> QED
        BY <1>2, <2>1 DEF Issued
<1>3. ASSUME NEW p \in Proc, request_name(p) PROVE Issued'
    BY <1>1, <1>3, DieIssued DEF request_name
<1>4. ASSUME NEW p \in Caller, NEW m \in Module, call_block(p, m) PROVE Issued'
    BY <1>4, IssueIssued DEF call_block
<1>5. ASSUME NEW p \in Caller, NEW m \in Module, call_unblock(p, m) PROVE Issued'
    BY <1>5, IssueIssued DEF call_unblock
<1>6. ASSUME NEW p \in Caller, call_return(p) PROVE Issued'
    BY <1>6, EndIssued DEF call_return
<1>7. ASSUME NEW p \in Caller, call_timeout(p) PROVE Issued'
    BY <1>7, EndIssued DEF call_timeout
<1>8. ASSUME NEW p \in Proc, Crash(p) PROVE Issued'
    BY <1>8, DieIssued DEF Crash
<1> QED
    BY <1>1, <1>2, <1>3, <1>4, <1>5, <1>6, <1>7, <1>8 DEF Next, vars, rpc_init, rpc_reg,
       rpc_listen, rpc_method_filter, send_reply

-----------------------------------------------------------------------------
(* The calls implement RpcCall. *)

LEMMA InitCall == Init => Call!Init
<1> SUFFICES ASSUME Init PROVE Call!Init
    OBVIOUS
<1>1. \A p \in Proc : 1 .. Len(log[p]) = {}
    <2>1. \A p \in Proc : Len(log[p]) = 0
        BY DEF Init
    <2>2. 1 .. 0 = {}
        OBVIOUS
    <2> QED
        BY <2>1, <2>2
<1>2. Ran = {}
    BY <1>1 DEF Ran
<1> QED
    BY <1>2 DEF Init, Call!Init

\* A step of the listener runs the call it takes, or nothing.
LEMMA FilterCall ==
    ASSUME NEW p \in Proc, TypeOK, TypeOK', QueueInv, Issued, rpc_method_filter(p)
    PROVE  [Call!Next]_Call!vars
<1>1. PICK id \in Id, n \in Nat : Takes(p, id, n)
    BY FilterTakes
<1>2. \A q \in Proc : log[q] \in Seq(Id) /\ log'[q] \in Seq(Id)
    BY DEF TypeOK
<1>3. inbox[p] \in Seq(Request) /\ 1 \in 1 .. Len(inbox[p])
    <2>1. inbox[p] \in Seq(Request)
        BY DEF TypeOK
    <2> QED
        BY <1>1, <2>1, TailOf DEF Takes
<1>4. id \notin Ran
    BY <1>1, <1>3 DEF Ran, QueueInv, QueuedToRun, Takes
<1>5. result[id] # "none" /\ result' = result
    <2>1. id[2] <= calls[id[1]]
        BY <1>1, <1>3 DEF QueueInv, Called, Takes
    <2> QED
        BY <2>1 DEF Issued, rpc_method_filter
<1>6. ASSUME NEW q \in Proc, NEW i \in 1 .. Len(log[q])
      PROVE  i \in 1 .. Len(log'[q]) /\ log'[q][i] = log[q][i]
    <2>1. CASE q = p
        <3>1. Len(log[p]) \in Nat /\ Len(log'[p]) = Len(log[p]) + n
            BY <1>1, <1>2 DEF Takes
        <3>2. i \in 1 .. Len(log'[p]) /\ i <= Len(log[p])
            BY <2>1, <3>1
        <3> QED
            BY <1>1, <2>1, <3>2 DEF Takes
    <2>2. CASE q # p
        BY <1>1, <2>2 DEF Takes
    <2> QED
        BY <2>1, <2>2
<1>7. ASSUME NEW q \in Proc, NEW i \in 1 .. Len(log'[q])
      PROVE  \/ i \in 1 .. Len(log[q]) /\ log'[q][i] = log[q][i]
             \/ n > 0 /\ log'[q][i] = id
    <2>1. CASE q = p
        BY <1>1, <1>2, <2>1 DEF Takes
    <2>2. CASE q # p
        BY <1>1, <2>2 DEF Takes
    <2> QED
        BY <2>1, <2>2
<1>8. Ran \subseteq Ran' /\ Ran' \subseteq Ran \cup {id}
    BY <1>6, <1>7 DEF Ran
<1>9. CASE n = 0
    <2>1. Ran' \subseteq Ran
        BY <1>7, <1>9 DEF Ran
    <2> QED
        BY <1>5, <1>8, <2>1 DEF Call!vars
<1>10. CASE n > 0
    <2>1. Len(log[p]) + 1 \in 1 .. Len(log'[p]) /\ log'[p][Len(log[p]) + 1] = id
        BY <1>1, <1>2, <1>10 DEF Takes
    <2>2. id \in Ran'
        BY <2>1 DEF Ran
    <2>3. Ran' = Ran \cup {id}
        BY <1>8, <2>2
    <2> QED
        BY <1>4, <1>5, <2>3 DEF Call!Next, Call!Run
<1> QED
    BY <1>9, <1>10

LEMMA IssueCall ==
    ASSUME NEW p \in Caller, NEW m \in Module, NEW r \in {"pending", "sent"}, TypeOK, Issued,
           Issue(p, m, r)
    PROVE  Call!Next
<1>1. Ran' = Ran
    BY SameLog DEF Issue
<1> DEFINE call == <<p, calls[p] + 1>>
<1>2. call \in Id /\ result[call] = "none" /\ result' = [result EXCEPT ![call] = r]
    BY IssueNext
<1> HIDE DEF call
<1> QED
    BY <1>1, <1>2 DEF Call!Next, Call!Request, Call!Post

LEMMA NextCall == TypeOK /\ QueueInv /\ Issued /\ RanInv /\ [Next]_vars => [Call!Next]_Call!vars
<1> SUFFICES ASSUME TypeOK, QueueInv, Issued, RanInv, [Next]_vars PROVE [Call!Next]_Call!vars
    OBVIOUS
<1>1. CASE UNCHANGED <<result, log>>
    BY <1>1, SameLog DEF Call!vars
<1>2. ASSUME NEW p \in Proc, rpc_method_filter(p) PROVE [Call!Next]_Call!vars
    BY <1>2, NextType, FilterCall
<1>3. ASSUME NEW p \in Caller, NEW m \in Module, NEW r \in {"pending", "sent"}, Issue(p, m, r)
      PROVE  Call!Next
    BY <1>3, IssueCall
<1>4. ASSUME NEW p \in Caller, call_return(p) PROVE Call!Next
    <2> DEFINE call == <<p, calls[p]>>
    <2>1. PICK a \in answers[p] :
              /\ a.serial = calls[p]
              /\ result' = [result EXCEPT ![call] = IF a.kind = "ok" THEN "ok" ELSE "fail"]
        BY <1>4 DEF call_return
    <2>2. p \in Proc /\ Ran' = Ran
        BY <1>4, ProcAssumption, SameLog DEF call_return
    <2>3. call \in Id /\ result[call] = "pending"
        BY <1>4, <2>2 DEF Issued, call_return
    <2>4. a.kind = "ok" => call \in Ran
        BY <2>1, <2>2 DEF RanInv, RepliesRan
    <2> HIDE DEF call
    <2> QED
        BY <2>1, <2>2, <2>3, <2>4 DEF Call!Next, Call!Succeed, Call!Fail
<1>5. ASSUME NEW p \in Caller, call_timeout(p) PROVE Call!Next
    <2> DEFINE call == <<p, calls[p]>>
    <2>1. Ran' = Ran /\ result' = [result EXCEPT ![call] = "fail"]
        BY <1>5, SameLog DEF call_timeout
    <2>2. call \in Id /\ result[call] = "pending"
        BY <1>5, ProcAssumption DEF Issued, call_timeout
    <2> HIDE DEF call
    <2> QED
        BY <2>1, <2>2 DEF Call!Next, Call!Fail
<1> QED
    BY <1>1, <1>2, <1>3, <1>4, <1>5 DEF Next, vars, rpc_init, rpc_reg, rpc_listen,
       request_name, send_reply, call_block, call_unblock, Crash, Die

\* The calls behave as RpcCall says, whatever crashes and times out: a handler
\* runs only after its call was made, and a call succeeds only if it was waited
\* for and its handler ran.
THEOREM ImplementsCall == Spec => CallSpec
<1>1. TypeOK /\ QueueInv /\ Issued /\ RanInv /\ [Next]_vars => [Call!Next]_Call!vars
    BY NextCall
<1> QED
    BY InitType, NextType, InitQueue, NextQueue, InitIssued, NextIssued, InitRan, NextRan,
       InitCall, <1>1, PTL DEF Spec, CallSpec, Call!Spec

-----------------------------------------------------------------------------
(* Nobody waits for an answer that nobody owes. *)

\* Every module is the last, and so the only one whose calls are dispatched, of
\* the processes that are called for it.
LastIsCalled ==
    \A p \in Proc, m \in Module : NameOf[p] = Provider[m] =>
        Load[p] # <<>> /\ Load[p][Len(Load[p])] = m

\* A name is owned by a process that asks for it, a call is queued where its
\* module is provided, and the listener holds a call only to answer it.
Delivered ==
    /\ \A n \in Name : owner[n] # None => NameOf[owner[n]] = n
    /\ \A p \in Proc : \A i \in 1 .. Len(inbox[p]) : NameOf[p] = Provider[inbox[p][i].mod]
    /\ \A p \in Proc : lst[p] # "reply" => cur[p] = None

LEMMA InitDelivered == Init => Delivered
<1> SUFFICES ASSUME Init PROVE Delivered
    OBVIOUS
<1>1. \A p \in Proc : 1 .. Len(inbox[p]) = {}
    <2>1. \A p \in Proc : Len(inbox[p]) = 0
        BY DEF Init
    <2>2. 1 .. 0 = {}
        OBVIOUS
    <2> QED
        BY <2>1, <2>2
<1> QED
    BY <1>1 DEF Init, Delivered

LEMMA DieDelivered == ASSUME NEW p \in Proc, TypeOK, Delivered, Die(p) PROVE Delivered'
<1>1. \A n \in Name : owner'[n] # None => owner'[n] = owner[n]
    BY DEF Die
<1>2. \A q \in Proc : \A i \in 1 .. Len(inbox'[q]) : i \in 1 .. Len(inbox[q]) /\ inbox'[q] = inbox[q]
    BY DEF Die, TypeOK
<1>3. \A q \in Proc : lst'[q] # "reply" => cur'[q] = None
    BY DEF Die, TypeOK, Delivered
<1> QED
    BY <1>1, <1>2, <1>3 DEF Delivered

LEMMA IssueDelivered ==
    ASSUME NEW p \in Caller, NEW m \in Module, NEW r \in {"pending", "sent"}, TypeOK, Delivered,
           Issue(p, m, r)
    PROVE  Delivered'
<1> DEFINE o == owner[Provider[m]]
           req == [id |-> <<p, calls[p] + 1>>, mod |-> m]
<1>1. /\ UNCHANGED <<owner, lst, cur>>
      /\ inbox' = inbox \/ (o # None /\ inbox' = [inbox EXCEPT ![o] = Append(@, req)])
    BY DEF Issue, Route
<1>2. req.mod = m /\ inbox \in [Proc -> Seq(Request)]
    BY DEF TypeOK
<1>3. o # None => NameOf[o] = Provider[m]
    BY NameAssumption DEF Delivered
<1> HIDE DEF req, o
<1>4. ASSUME NEW q \in Proc, NEW i \in 1 .. Len(inbox'[q])
      PROVE  NameOf[q] = Provider[inbox'[q][i].mod]
    <2>1. CASE inbox'[q] = inbox[q]
        BY <2>1 DEF Delivered
    <2>2. CASE q = o /\ o # None /\ inbox'[q] = Append(inbox[q], req)
        <3>1. inbox[q] \in Seq(Request)
            BY <1>2
        <3>2. \/ i \in 1 .. Len(inbox[q]) /\ inbox'[q][i] = inbox[q][i]
              \/ inbox'[q][i] = req
            BY <2>2, <3>1
        <3> QED
            BY <1>2, <1>3, <2>2, <3>2 DEF Delivered
    <2> QED
        BY <1>1, <1>2, <2>1, <2>2
<1> QED
    BY <1>1, <1>4 DEF Delivered

LEMMA NextDelivered == TypeOK /\ Registered /\ Delivered /\ [Next]_vars => Delivered'
<1> SUFFICES ASSUME TypeOK, Registered, Delivered, [Next]_vars PROVE Delivered'
    OBVIOUS
<1>1. CASE UNCHANGED <<owner, inbox, lst, cur>>
    BY <1>1 DEF Delivered
<1>2. ASSUME NEW p \in Proc, rpc_listen(p) PROVE Delivered'
    <2>1. /\ lst[p] = "off" /\ lst' = [lst EXCEPT ![p] = "connect"]
          /\ UNCHANGED <<owner, inbox, cur>>
        BY <1>2 DEF rpc_listen, Registered
    <2> QED
        BY <2>1 DEF TypeOK, Delivered
<1>3. ASSUME NEW p \in Proc, request_name(p) PROVE Delivered'
    <2>1. CASE owner[NameOf[p]] = None
        <3>1. /\ lst[p] = "connect" /\ UNCHANGED <<inbox, cur>>
              /\ owner' = [owner EXCEPT ![NameOf[p]] = p]
              /\ lst' = [lst EXCEPT ![p] = "serve"]
            BY <1>3, <2>1 DEF request_name
        <3>2. \A n \in Name : owner'[n] = owner[n] \/ (owner'[n] = p /\ n = NameOf[p])
            BY <3>1 DEF TypeOK
        <3>3. \A q \in Proc : lst'[q] # "reply" => lst[q] # "reply"
            BY <3>1 DEF TypeOK
        <3> QED
            BY <3>1, <3>2, <3>3 DEF Delivered
    <2> QED
        BY <1>3, <2>1, DieDelivered DEF request_name
<1>4. ASSUME NEW p \in Proc, rpc_method_filter(p) PROVE Delivered'
    <2>1. PICK id \in Id, n \in Nat :
              /\ Takes(p, id, n)
              /\ IF n > 0 THEN cur' = [cur EXCEPT ![p] = id] /\ lst' = [lst EXCEPT ![p] = "reply"]
                          ELSE UNCHANGED <<cur, lst>>
        BY <1>4, FilterTakes
    <2>2. ASSUME NEW q \in Proc, NEW i \in 1 .. Len(inbox'[q])
          PROVE  \E k \in 1 .. Len(inbox[q]) : inbox'[q][i] = inbox[q][k]
        <3>1. CASE q = p
            <4>1. inbox[p] \in Seq(Request) /\ Len(inbox'[p]) = Len(inbox[p]) - 1
                BY <2>1 DEF TypeOK, Takes
            <4>2. i + 1 \in 1 .. Len(inbox[p])
                BY <3>1, <4>1
            <4> QED
                BY <2>1, <3>1, <4>2 DEF Takes
        <3> QED
            BY <2>1, <3>1 DEF Takes
    <2>3. \A q \in Proc : lst'[q] # "reply" => cur'[q] = None
        BY <2>1 DEF TypeOK, Delivered
    <2>4. owner' = owner
        BY <1>4 DEF rpc_method_filter
    <2> QED
        BY <2>2, <2>3, <2>4 DEF Delivered
<1>5. ASSUME NEW p \in Proc, send_reply(p) PROVE Delivered'
    BY <1>5 DEF send_reply, TypeOK, Delivered
<1>6. ASSUME NEW p \in Caller, NEW m \in Module, NEW r \in {"pending", "sent"}, Issue(p, m, r)
      PROVE  Delivered'
    BY <1>6, IssueDelivered
<1>7. ASSUME NEW p \in Proc, Crash(p) PROVE Delivered'
    BY <1>7, DieDelivered DEF Crash
<1> QED
    BY <1>1, <1>2, <1>3, <1>4, <1>5, <1>6, <1>7 DEF Next, vars, rpc_init, rpc_reg,
       call_block, call_unblock, call_return, call_timeout

-----------------------------------------------------------------------------

\* A step that takes no call from those who hold it leaves the waiting callers
\* as they were.
LEMMA KeepsHeld ==
    ASSUME NoForgottenCaller,
           \A q \in Proc : Unanswered(q) \subseteq Unanswered(q)',
           \A p \in Caller : main'[p] = "wait" =>
              main[p] = "wait" /\ calls'[p] = calls[p] /\ answers[p] \subseteq answers'[p]
    PROVE  NoForgottenCaller'
BY DEF NoForgottenCaller

LEMMA DieHeld ==
    ASSUME NEW p \in Proc, TypeOK, Issued, NoForgottenCaller, Die(p) PROVE NoForgottenCaller'
<1> SUFFICES ASSUME NEW c \in Caller, main'[c] = "wait"
             PROVE  \/ \E q \in Proc : <<c, calls'[c]>> \in Unanswered(q)'
                    \/ \E a \in answers'[c] : a.serial = calls'[c]
    BY DEF NoForgottenCaller
<1>1. c \in Proc /\ c # p /\ main[c] = "wait" /\ calls' = calls
    BY ProcAssumption DEF Die, TypeOK
<1>2. answers'[c] = answers[c] \cup Undeliverable(p, c)
    BY <1>1 DEF Die
<1>3. CASE \E a \in answers[c] : a.serial = calls[c]
    BY <1>1, <1>2, <1>3
<1>4. CASE <<c, calls[c]>> \in Unanswered(p)
    <2> DEFINE a == [serial |-> calls[c], kind |-> "error"]
    <2>1. calls[c] \in Serial
        BY <1>1 DEF Issued, Id
    <2>2. a \in Undeliverable(p, c)
        BY <1>4, <2>1 DEF Undeliverable, Answer
    <2> QED
        BY <1>1, <1>2, <2>2
<1>5. CASE \E q \in Proc : q # p /\ <<c, calls[c]>> \in Unanswered(q)
    <2>1. PICK q \in Proc : q # p /\ <<c, calls[c]>> \in Unanswered(q)
        BY <1>5
    <2>2. inbox'[q] = inbox[q] /\ cur'[q] = cur[q]
        BY <2>1 DEF Die, TypeOK
    <2>3. Unanswered(q)' = Unanswered(q)
        BY <2>2 DEF Unanswered
    <2> QED
        BY <1>1, <2>1, <2>3
<1> QED
    BY <1>1, <1>3, <1>4, <1>5 DEF NoForgottenCaller

\* The filter keeps the call it takes in hand: there is a handler for it.
LEMMA FilterHeld ==
    ASSUME NEW p \in Proc, TypeOK, Registered, Delivered, LastIsCalled, NoForgottenCaller,
           rpc_method_filter(p)
    PROVE  NoForgottenCaller'
<1>1. PICK id \in Id, n \in Nat :
          /\ Takes(p, id, n)
          /\ IF n > 0 THEN cur' = [cur EXCEPT ![p] = id] /\ lst' = [lst EXCEPT ![p] = "reply"]
                      ELSE UNCHANGED <<cur, lst>>
    BY FilterTakes
<1>2. lst[p] = "serve" /\ cur[p] = None /\ UNCHANGED <<main, answers, calls>>
    BY DEF rpc_method_filter, Delivered
<1>3. inbox[p] \in Seq(Request) /\ Len(inbox[p]) \in Nat \ {0} /\ inbox[p][1] \in Request
    <2>1. inbox[p] \in Seq(Request) /\ inbox[p] # <<>>
        BY <1>1 DEF TypeOK, Takes
    <2> QED
        BY <2>1, TailOf
<1>4. n > 0
    <2> DEFINE m == inbox[p][1].mod
               size == Len(mods[p])
    <2>1. m \in Module /\ NameOf[p] = Provider[m]
        BY <1>3 DEF Request, Delivered
    <2>2. size = Len(Load[p]) /\ Load[p] # <<>> /\ Load[p][Len(Load[p])] = m
        BY <1>2, <2>1 DEF Registered, LastIsCalled
    <2>3. size \in Nat \ {0} /\ size \in 1 .. Len(mods[p])
        BY <2>2, LoadAssumption
    <2>4. mods[p][size] = m
        BY <2>2, <2>3 DEF Registered
    <2>5. n = Runs(p, m)
        BY <1>1 DEF Takes
    <2> HIDE DEF m
    <2> QED
        BY <2>3, <2>4, <2>5 DEF Runs
<1>5. cur'[p] = id /\ \A q \in Proc : q # p => cur'[q] = cur[q]
    BY <1>1, <1>4 DEF TypeOK
<1>6. id # None
    BY NoneAssumption DEF Id, Serial
<1>7. ASSUME NEW q \in Proc, NEW c \in Unanswered(q) PROVE c \in Unanswered(q)'
    <2>1. CASE q # p
        <3>1. inbox'[q] = inbox[q] /\ cur'[q] = cur[q]
            BY <1>1, <1>5, <2>1 DEF Takes
        <3> QED
            BY <3>1 DEF Unanswered
    <2>2. CASE q = p
        <3>1. PICK i \in 1 .. Len(inbox[p]) : c = inbox[p][i].id
            BY <1>2, <2>2 DEF Unanswered
        <3>2. CASE i = 1
            <4>1. c = id
                BY <1>1, <3>1, <3>2 DEF Takes
            <4> QED
                BY <1>5, <1>6, <2>2, <4>1 DEF Unanswered
        <3>3. CASE i # 1
            <4>1. i - 1 \in 1 .. Len(inbox[p]) - 1 /\ (i - 1) + 1 = i
                BY <1>3, <3>3
            <4>2. i - 1 \in 1 .. Len(inbox'[p]) /\ inbox'[p][i - 1] = inbox[p][i]
                BY <1>1, <4>1 DEF Takes
            <4> QED
                BY <2>2, <3>1, <4>2 DEF Unanswered
        <3> QED
            BY <3>2, <3>3
    <2> QED
        BY <2>1, <2>2
<1> QED
    BY <1>2, <1>7, KeepsHeld

LEMMA ReplyHeld ==
    ASSUME NEW p \in Proc, TypeOK, NoForgottenCaller, send_reply(p) PROVE NoForgottenCaller'
<1> SUFFICES ASSUME NEW c \in Caller, main'[c] = "wait"
             PROVE  \/ \E q \in Proc : <<c, calls'[c]>> \in Unanswered(q)'
                    \/ \E a \in answers'[c] : a.serial = calls'[c]
    BY DEF NoForgottenCaller
<1>1. /\ main[c] = "wait" /\ calls' = calls /\ inbox' = inbox /\ c \in Proc
      /\ cur' = [cur EXCEPT ![p] = None]
    BY ProcAssumption DEF send_reply
<1>2. answers[c] \subseteq answers'[c]
    BY DEF send_reply, TypeOK
<1>3. CASE \E a \in answers[c] : a.serial = calls[c]
    BY <1>1, <1>2, <1>3
<1>4. CASE cur[p] = <<c, calls[c]>>
    <2>1. cur[p][1] = c /\ cur[p][2] = calls[c]
        BY <1>4
    <2> DEFINE a == [serial |-> calls[c], kind |-> "ok"]
    <2>2. answers' = [answers EXCEPT ![c] = @ \cup {a}]
        BY <1>1, <2>1 DEF send_reply
    <2>3. a.serial = calls[c]
        OBVIOUS
    <2> HIDE DEF a
    <2>4. a \in answers'[c]
        BY <1>1, <2>2 DEF TypeOK
    <2> QED
        BY <1>1, <2>3, <2>4
<1>5. CASE cur[p] # <<c, calls[c]>> /\ \E q \in Proc : <<c, calls[c]>> \in Unanswered(q)
    <2>1. PICK q \in Proc : <<c, calls[c]>> \in Unanswered(q)
        BY <1>5
    <2>2. cur'[q] = cur[q] \/ (q = p)
        BY <1>1 DEF TypeOK
    <2>3. <<c, calls[c]>> \in Unanswered(q)'
        BY <1>1, <1>5, <2>1, <2>2 DEF Unanswered
    <2> QED
        BY <1>1, <2>3
<1> QED
    BY <1>1, <1>3, <1>4, <1>5 DEF NoForgottenCaller

LEMMA IssueHeld ==
    ASSUME NEW p \in Caller, NEW m \in Module, NEW r \in {"pending", "sent"}, TypeOK,
           NoForgottenCaller, Issue(p, m, r), main' \in {main, [main EXCEPT ![p] = "wait"]}
    PROVE  NoForgottenCaller'
<1> DEFINE n == calls[p] + 1
           o == owner[Provider[m]]
           req == [id |-> <<p, n>>, mod |-> m]
           err == [serial |-> n, kind |-> "error"]
<1>1. p \in Proc /\ o \in Proc \cup {None} /\ main[p] = "run"
    BY ProcAssumption, NameAssumption DEF TypeOK, Issue
<1>2. /\ calls' = [calls EXCEPT ![p] = n] /\ cur' = cur
      /\ \/ inbox' = inbox /\ answers' = [answers EXCEPT ![p] = @ \cup {err}]
         \/ o # None /\ inbox' = [inbox EXCEPT ![o] = Append(@, req)] /\ answers' = answers
    BY DEF Issue, Route
<1>3. req.id = <<p, n>> /\ err.serial = n
    OBVIOUS
<1> HIDE DEF n, o, req, err
<1>4. calls'[p] = n /\ \A q \in Proc : q # p => calls'[q] = calls[q]
    BY <1>1, <1>2 DEF TypeOK
<1>5. \A q \in Proc : answers[q] \subseteq answers'[q]
    BY <1>2 DEF TypeOK
<1>6. inbox \in [Proc -> Seq(Request)]
    BY DEF TypeOK
<1>7. ASSUME NEW q \in Proc PROVE Unanswered(q) \subseteq Unanswered(q)'
    <2>1. CASE inbox'[q] = inbox[q]
        BY <1>2, <2>1 DEF Unanswered
    <2>2. CASE inbox'[q] = Append(inbox[q], req)
        <3>1. inbox[q] \in Seq(Request)
            BY <1>6
        <3>2. \A i \in 1 .. Len(inbox[q]) : i \in 1 .. Len(inbox'[q]) /\ inbox'[q][i] = inbox[q][i]
            BY <2>2, <3>1
        <3> QED
            BY <1>2, <3>2 DEF Unanswered
    <2> QED
        BY <1>2, <1>6, <2>1, <2>2
<1> SUFFICES ASSUME NEW c \in Caller, main'[c] = "wait"
             PROVE  \/ \E q \in Proc : <<c, calls'[c]>> \in Unanswered(q)'
                    \/ \E a \in answers'[c] : a.serial = calls'[c]
    BY DEF NoForgottenCaller
<1>8. CASE c = p
    <2>1. CASE answers' = [answers EXCEPT ![p] = @ \cup {err}]
        <3>1. err \in answers'[p]
            BY <1>1, <2>1 DEF TypeOK
        <3> QED
            BY <1>3, <1>4, <1>8, <3>1
    <2>2. CASE o # None /\ inbox' = [inbox EXCEPT ![o] = Append(@, req)]
        <3>1. o \in Proc /\ inbox'[o] = Append(inbox[o], req) /\ inbox[o] \in Seq(Request)
            BY <1>1, <1>6, <2>2
        <3>2. PICK w \in Proc : w = o
            BY <3>1
        <3>3. /\ Len(inbox[w]) + 1 \in 1 .. Len(inbox'[w])
              /\ inbox'[w][Len(inbox[w]) + 1] = req
            BY <3>1, <3>2
        <3>4. <<p, n>> \in Unanswered(w)'
            BY <1>3, <3>3 DEF Unanswered
        <3> QED
            BY <1>4, <1>8, <3>4
    <2> QED
        BY <1>2, <2>1, <2>2
<1>9. CASE c # p
    <2>1. c \in Proc /\ main[c] = "wait" /\ calls'[c] = calls[c]
        BY <1>1, <1>4, <1>9, ProcAssumption DEF TypeOK
    <2> QED
        BY <1>5, <1>7, <2>1 DEF NoForgottenCaller
<1> QED
    BY <1>8, <1>9

LEMMA NextHeld ==
    TypeOK /\ Issued /\ Registered /\ Delivered /\ LastIsCalled /\ NoForgottenCaller /\ [Next]_vars
        => NoForgottenCaller'
<1> SUFFICES ASSUME TypeOK, Issued, Registered, Delivered, LastIsCalled, NoForgottenCaller,
                    [Next]_vars
             PROVE  NoForgottenCaller'
    OBVIOUS
<1>1. CASE UNCHANGED <<main, inbox, cur, answers, calls>>
    BY <1>1 DEF NoForgottenCaller, Unanswered
<1>2. ASSUME NEW p \in Proc, UNCHANGED <<inbox, cur, answers, calls>>,
             main' \in {[main EXCEPT ![p] = "reg"], [main EXCEPT ![p] = "run"]}
      PROVE  NoForgottenCaller'
    <2>1. \A q \in Caller : main'[q] = "wait" => main[q] = "wait"
        BY <1>2, ProcAssumption DEF TypeOK
    <2>2. \A q \in Proc : Unanswered(q)' = Unanswered(q)
        BY <1>2 DEF Unanswered
    <2> QED
        BY <1>2, <2>1, <2>2, KeepsHeld
<1>3. ASSUME NEW p \in Proc, request_name(p) PROVE NoForgottenCaller'
    BY <1>1, <1>3, DieHeld DEF request_name
<1>4. ASSUME NEW p \in Proc, rpc_method_filter(p) PROVE NoForgottenCaller'
    BY <1>4, FilterHeld
<1>5. ASSUME NEW p \in Proc, send_reply(p) PROVE NoForgottenCaller'
    BY <1>5, ReplyHeld
<1>6. ASSUME NEW p \in Caller, NEW m \in Module, call_block(p, m) PROVE NoForgottenCaller'
    BY <1>6, IssueHeld DEF call_block
<1>7. ASSUME NEW p \in Caller, NEW m \in Module, call_unblock(p, m) PROVE NoForgottenCaller'
    BY <1>7, IssueHeld DEF call_unblock
<1>8. ASSUME NEW p \in Caller, call_return(p) PROVE NoForgottenCaller'
    <2>1. /\ main' = [main EXCEPT ![p] = "run"] /\ UNCHANGED <<inbox, cur, calls>>
          /\ \A q \in Proc : q # p => answers'[q] = answers[q]
        BY <1>8 DEF call_return, TypeOK
    <2>2. \A q \in Caller : main'[q] = "wait" => q # p /\ main[q] = "wait"
        BY <2>1, ProcAssumption DEF TypeOK
    <2> QED
        BY <2>1, <2>2, ProcAssumption DEF NoForgottenCaller, Unanswered
<1>9. ASSUME NEW p \in Proc, Crash(p) PROVE NoForgottenCaller'
    BY <1>9, DieHeld DEF Crash
<1> QED
    BY <1>1, <1>2, <1>3, <1>4, <1>5, <1>6, <1>7, <1>8, <1>9, ProcAssumption
    DEF Next, vars, rpc_init, rpc_reg, rpc_listen, call_timeout

\* Where every module is the last one of the processes called for it, a blocked
\* caller is always owed an answer that somebody still holds.
THEOREM NobodyForgotten == ASSUME LastIsCalled PROVE Spec => []NoForgottenCaller
<1>1. TypeOK /\ Issued /\ Registered /\ Delivered /\ NoForgottenCaller /\ [Next]_vars
          => NoForgottenCaller'
    BY NextHeld
<1>2. Init => NoForgottenCaller
    BY ProcAssumption DEF Init, NoForgottenCaller
<1> QED
    BY InitType, NextType, InitIssued, NextIssued, InitRegistered, NextRegistered,
       InitDelivered, NextDelivered, <1>1, <1>2, PTL DEF Spec
=============================================================================
