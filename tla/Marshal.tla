------------------------------- MODULE Marshal -------------------------------
(***************************************************************************)
(* The stubs RPC_METHOD generates (framework/include/common/rpc_helper.h)  *)
(* and rpc_arg_malloc (framework/common/module.c): the arguments of a call *)
(* packed into an array, unpacked in the server, changed by the handler,   *)
(* packed again and copied back.                                           *)
(*                                                                         *)
(* An array is a sequence of words.  An argument in it is a header of two  *)
(* words, len and ref, and len words of data: a word is eight bytes, the   *)
(* size of a long and of a pointer, and arguments are whole words.         *)
(* An argument of length OUT_SIZE, 0, is an out argument: the handler      *)
(* allocates it.  The call itself is one step here; Rpc has its inside.    *)
(***************************************************************************)
EXTENDS Integers, Sequences, SequencesExt

CONSTANTS
    Sig,       \* the signatures: the length of each argument
    OutLen,    \* the lengths a handler gives to out arguments
    SUCCESS, FAILURE

ASSUME SigAssumption == \A s \in Sig : s \in Seq(Nat) /\ Len(s) <= 5
ASSUME ResultAssumption == SUCCESS # FAILURE /\ OutLen \subseteq Nat

VARIABLES
    pc,     \* idle, call, handler, reply, fault, abort
    sig,    \* the caller's _args: the lengths
    wait,   \* whether the stub waits for the reply (WAIT_REPLY, NO_REPLY)
    mem,    \* what the caller's arguments point at, data words
    made,   \* the out arguments whose pointer the stub has set to a block of its own
    cli,    \* the client's _buf: the request, then the reply
    srv,    \* the server's *pbuf: its copy of the request, then the reply
    args,   \* the server's _args: an offset in srv, or Heap for a block of its own
    heap,   \* the blocks rpc_arg_malloc made for arguments, data words
    done,   \* the arguments the handler has dealt with
    ret     \* the result of the stub

vars == <<pc, sig, wait, mem, made, cli, srv, args, heap, done, ret>>
server == <<srv, args, heap, done>>

OUT_SIZE == 0
Header == 2
Heap == -1   \* no offset

\* Data words tell where they come from: argument i, word k, before the call or
\* written by the handler.
Word(origin, i, n) == [k \in 1 .. n |-> <<origin, i, k>>]
Given(s) == [i \in DOMAIN s |-> Word("old", i, s[i])]

Outs(s) == {i \in DOMAIN s : s[i] = OUT_SIZE}

Init ==
    /\ pc = "idle" /\ ret = SUCCESS /\ done = {}
    /\ sig = <<>> /\ wait = TRUE /\ mem = <<>> /\ made = {} /\ cli = <<>>
    /\ srv = <<>> /\ args = <<>> /\ heap = <<>>

(***************************************************************************)
(* Arguments in an array                                                   *)
(***************************************************************************)

Packed(i, data) == <<<<"len", Len(data)>>, <<"ref", i>>>> \o data
Array(blocks) == FlattenSeq([i \in DOMAIN blocks |-> Packed(i, blocks[i])])

\* The argument at offset o of an array.
LenAt(b, o) == b[o + 1][2]
DataAt(b, o) == SubSeq(b, o + Header + 1, o + Header + LenAt(b, o))

\* The offset of the next argument.
Step(b, o) == o + LenAt(b, o) + Header

\* _offset and _buf_offset: where n arguments start in an array.
Offsets(b, n) ==
    LET off[i \in 1 .. n] == IF i = 1 THEN 0 ELSE Step(b, off[i - 1]) IN off

(***************************************************************************)
(* The client                                                              *)
(***************************************************************************)

\* RPC_CLI_BEGIN, RPC_CLI_ARG_SET and the packing of RPC_CLI_CALL.
cli_call(s) ==
    /\ pc = "idle" /\ pc' = "call"
    /\ sig' = s /\ wait' \in BOOLEAN /\ mem' = Given(s) /\ made' = {}
    /\ cli' = Array(mem')
    /\ UNCHANGED <<server, ret>>

\* RPC_CLI_ARG_SET of a null pointer returns 0, which is SUCCESS.
cli_null(s) ==
    /\ pc = "idle" /\ s # <<>>
    /\ sig' = s /\ mem' = Given(s) /\ made' = {} /\ ret' = SUCCESS
    /\ UNCHANGED <<pc, wait, cli, server>>

\* Mutant: the block starts with the header that came with it.
Result_raw(i, b, o) ==
    IF sig[i] \in {OUT_SIZE, LenAt(b, o)} THEN SubSeq(b, o + 1, o + LenAt(b, o)) ELSE mem[i]

\* RPC_CLI_END, one argument: an out argument is a new block of the length that
\* came back, another is copied over if its length is still the same.
Result(i, b, o) ==
    IF sig[i] \in {OUT_SIZE, LenAt(b, o)} THEN DataAt(b, o) ELSE mem[i]

\* RPC_CLI_END.  It sets every out pointer, also when what came back is empty.
cli_end(b) ==
    LET off == Offsets(b, Len(sig)) IN
    /\ mem' = [i \in DOMAIN sig |-> Result(i, b, off[i])]
    /\ made' = Outs(sig)

Leave(r) ==
    /\ pc' = "idle" /\ ret' = r
    /\ cli' = <<>> /\ srv' = <<>> /\ args' = <<>> /\ heap' = <<>> /\ done' = {}
    /\ UNCHANGED <<sig, wait>>

\* With NO_REPLY the stub returns when the request is sent; what the server makes
\* of it reaches nobody and is left out.
cli_sent == pc = "call" /\ ~wait /\ Leave(SUCCESS) /\ UNCHANGED <<mem, made>>

cli_return == pc = "reply" /\ sig # <<>> /\ cli_end(srv) /\ Leave(SUCCESS)

\* Without arguments there is no array in the reply (dbus_malloc0 of 0 is NULL),
\* and msg_method_call unpacks it all the same.  A libdbus built with checks
\* aborts the process; in one without, what is read is undefined, but if the
\* process survives it RPC_CLI_END looks for no argument there.
cli_return_bare ==
    /\ pc = "reply" /\ sig = <<>>
    /\ \/ pc' = "abort" /\ UNCHANGED <<sig, wait, mem, made, cli, server, ret>>
       \/ cli_end(srv) /\ Leave(SUCCESS)

\* Mutant: a failed call takes what the server has by then for its reply.
cli_fails_served ==
    /\ pc \in {"call", "reply"} /\ wait
    /\ cli_end(IF pc = "call" THEN cli ELSE srv) /\ Leave(FAILURE)

\* msg_method_call got no reply, whatever the server has done by then, and _buf
\* still holds the request: RPC_CLI_END takes that for the reply, and an out
\* argument, which has no data in it, gets an empty block.
cli_fails == pc \in {"call", "handler", "reply"} /\ wait /\ cli_end(cli) /\ Leave(FAILURE)

(***************************************************************************)
(* The server                                                              *)
(***************************************************************************)

\* RPC_SRV_BEGIN: _args[i] points into the array, and the ref of an out argument
\* at _args[i].
srv_begin ==
    /\ pc = "call" /\ wait /\ pc' = "handler"
    /\ args' = Offsets(cli, Len(sig))
    /\ srv' = [w \in DOMAIN cli |->
           IF \E i \in DOMAIN sig : w = args'[i] + 2 /\ LenAt(cli, args'[i]) = OUT_SIZE
           THEN <<"ref", 0>> ELSE cli[w]]
    /\ heap' = [i \in DOMAIN sig |-> <<>>] /\ done' = {}
    /\ UNCHANGED <<sig, wait, mem, made, cli, ret>>

\* Where the handler finds argument i: it was called with pointers into the array.
At(i) == Offsets(cli, Len(sig))[i]

\* Mutant: the data is taken to start one word late.
Filled_late(o, data) == [w \in DOMAIN srv |->
    IF w - o - Header - 1 \in DOMAIN data THEN data[w - o - Header - 1] ELSE srv[w]]

\* The array with new data in an argument.
Filled(o, data) == [w \in DOMAIN srv |->
    IF w - o - Header \in DOMAIN data THEN data[w - o - Header] ELSE srv[w]]

\* The handler writes an argument.
handler_write(i) ==
    /\ pc = "handler" /\ i \in DOMAIN sig \ done /\ sig[i] # OUT_SIZE
    /\ srv' = Filled(At(i), Word("new", i, sig[i]))
    /\ done' = done \cup {i}
    /\ UNCHANGED <<pc, sig, wait, mem, made, cli, args, heap, ret>>

\* The handler calls rpc_arg_malloc and fills what it gets.  The pointer to the
\* block goes to the first data word, which an out argument does not have: to the
\* len of the argument behind it.  An argument that does not look like an out
\* argument any more gets no block, and the handler writes through what is there.
rpc_arg_malloc(i, n) ==
    /\ pc = "handler" /\ i \in DOMAIN sig \ done /\ sig[i] = OUT_SIZE
    /\ IF srv[At(i) + 1] = <<"len", OUT_SIZE>>
       THEN /\ args' = [args EXCEPT ![i] = Heap]
            /\ heap' = [heap EXCEPT ![i] = Word("new", i, n)]
            /\ srv' = Filled(At(i), <<<<"ptr", i>>>>)
            /\ UNCHANGED pc
       ELSE pc' = "fault" /\ UNCHANGED <<args, heap, srv>>
    /\ done' = done \cup {i}
    /\ UNCHANGED <<sig, wait, mem, made, cli, ret>>

Readable(i) == args[i] = Heap \/ srv[args[i] + 1][1] = "len"
Block(i) == IF args[i] = Heap THEN heap[i] ELSE DataAt(srv, args[i])

\* RPC_SRV_END: the arguments, wherever they are now, one after the other.
Reply == Array([i \in DOMAIN sig |-> Block(i)])

srv_end ==
    /\ pc = "handler"
    /\ IF \A i \in DOMAIN sig : Readable(i)
       THEN srv' = Reply /\ pc' = "reply"
       ELSE pc' = "fault" /\ UNCHANGED srv
    /\ UNCHANGED <<sig, wait, mem, made, cli, args, heap, done, ret>>

(***************************************************************************)
(* Specification                                                           *)
(***************************************************************************)

Next ==
    \/ \E s \in Sig : cli_call(s)
    \/ \E s \in Sig : cli_null(s)
    \/ cli_sent
    \/ cli_return
    \/ cli_return_bare
    \/ cli_fails
    \/ srv_begin
    \/ \E i \in 1 .. 5 : handler_write(i)
    \/ \E i \in 1 .. 5, n \in OutLen : rpc_arg_malloc(i, n)
    \/ srv_end

Spec == Init /\ [][Next]_vars

(***************************************************************************)
(* Properties                                                              *)
(***************************************************************************)

TypeOK ==
    /\ pc \in {"idle", "call", "handler", "reply", "fault", "abort"} /\ ret \in {SUCCESS, FAILURE}
    /\ sig \in Sig \cup {<<>>} /\ wait \in BOOLEAN
    /\ DOMAIN mem = DOMAIN sig /\ made \in {{}, Outs(sig)}
    /\ \A i \in DOMAIN mem : \A k \in DOMAIN mem[i] : mem[i][k] \in {<<"old", i, k>>, <<"new", i, k>>}
    /\ done \subseteq DOMAIN sig /\ DOMAIN heap = DOMAIN args
    /\ \A i \in DOMAIN args : args[i] = Heap \/ args[i] + Header <= Len(srv)

\* An argument behind an out argument: rpc_arg_malloc writes into its header.
Exposed == \E i \in DOMAIN sig : sig[i] = OUT_SIZE /\ i < Len(sig)

\* The stubs read and write only what is theirs, unless an out argument has one
\* behind it (module.c:439 stores a pointer where rpc_helper.h:207-211 left no
\* room for one).
FaultOnlyBehindOut == pc = "fault" => Exposed

\* What the handler has made of the arguments by now.
View ==
    IF pc = "handler" THEN [i \in DOMAIN sig |-> Block(i)]
    ELSE IF pc = "reply" THEN LET off == Offsets(srv, Len(sig)) IN [i \in DOMAIN sig |-> DataAt(srv, off[i])]
    ELSE mem

Local == INSTANCE LocalCall WITH busy <- (pc \notin {"idle", "abort"}), view <- View

\* A call is a local call to its caller, unless an argument stands behind an out
\* argument, or the caller dies of the empty reply to a call without arguments
\* (rpc_helper.h:205-270, module.c:309-326).
LocalSpec == Local!Init /\ [][~Exposed' /\ pc' # "abort" => Local!Next]_Local!vars

\* Methods may have no arguments, those of power have none (rpc_helper.h:28,
\* power.c:18-48): calling one does not end the caller.
BareReturns == pc # "abort"
=============================================================================
