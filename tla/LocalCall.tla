------------------------------ MODULE LocalCall ------------------------------
(***************************************************************************)
(* What the stubs of a remote method promise: to its caller the call looks *)
(* like a local one.  The handler changes the arguments and makes the out  *)
(* arguments (those of length 0), and all of that arrives together when    *)
(* the call returns.  A call that fails changes nothing but the pointers   *)
(* to its out arguments: each is an empty block from then on, whatever it  *)
(* pointed at before.                                                      *)
(***************************************************************************)
EXTENDS Naturals, Sequences

CONSTANTS Sig, OutLen, SUCCESS, FAILURE

VARIABLES
    busy,   \* whether a call is under way
    sig,    \* its signature
    wait,   \* whether the caller waits for its end
    mem,    \* the caller's arguments
    made,   \* those whose pointer is to a block the call made
    view,   \* the handler's arguments
    ret     \* the result

vars == <<busy, sig, wait, mem, made, view, ret>>

Data(origin, i, n) == [k \in 1 .. n |-> <<origin, i, k>>]

Outs == {i \in DOMAIN sig : sig[i] = 0}

Init ==
    /\ busy = FALSE /\ sig = <<>> /\ wait = TRUE /\ ret = SUCCESS
    /\ mem = <<>> /\ made = {} /\ view = mem

Enter(s) ==
    /\ ~busy /\ sig' = s
    /\ mem' = [i \in DOMAIN s |-> Data("old", i, s[i])] /\ made' = {} /\ view' = mem'

Call(s) == Enter(s) /\ busy' /\ wait' \in BOOLEAN /\ UNCHANGED ret

\* Nothing is called with a null argument; the result is SUCCESS all the same.
Skip(s) == Enter(s) /\ ~busy' /\ ret' = SUCCESS /\ UNCHANGED wait

Change(i, n) ==
    /\ busy /\ wait /\ i \in DOMAIN sig /\ sig[i] \in {0, n}
    /\ view' = [view EXCEPT ![i] = Data("new", i, n)]
    /\ UNCHANGED <<busy, sig, wait, mem, made, ret>>

Return ==
    /\ busy /\ wait /\ ~busy'
    /\ mem' = view /\ made' = Outs /\ view' = mem' /\ ret' = SUCCESS
    /\ UNCHANGED <<sig, wait>>

\* Nobody waits for the results.
Leave ==
    /\ busy /\ ~wait /\ ~busy'
    /\ view' = mem /\ ret' = SUCCESS /\ UNCHANGED <<mem, made, sig, wait>>

\* The out pointers are set all the same: to judge by them it is a result.
Fail ==
    /\ busy /\ wait /\ ~busy'
    /\ made' = Outs /\ view' = mem /\ ret' = FAILURE /\ UNCHANGED <<mem, sig, wait>>

Next ==
    \/ \E s \in Sig : Call(s) \/ Skip(s)
    \/ \E i \in DOMAIN sig : \E n \in OutLen \cup {sig[i]} : Change(i, n)
    \/ Return
    \/ Leave
    \/ Fail

Spec == Init /\ [][Next]_vars
=============================================================================
