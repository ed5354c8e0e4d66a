------------------------------- MODULE Notify -------------------------------
(***************************************************************************)
(* Notifications and commands as one process has them: the registry of     *)
(* handlers (framework/common/notify.c), msg_notify, msg_command and the   *)
(* three filters of the listener's connection (framework/common/module.c). *)
(* Modules composes it with the threads that use it.                       *)
(***************************************************************************)
EXTENDS Sequences, Naturals
LOCAL INSTANCE Functions

CONSTANTS
    Notification,  \* the names of def.h; "shock" is the one rpc_notify_filter looks at
    Handler        \* the functions modules register

ASSUME NotifyAssumption == "shock" \in Notification /\ "fault" \notin Handler

VARIABLES
    notify_list,   \* the list of notifications, each with its handlers
    bus_out,       \* the signals this process sent to the bus
    bus_in,        \* the signals the bus has for it
    asked,         \* history: the handlers given to reg_notify, in order
    told,          \* history: the notifications given to msg_notify
    due,           \* history: the handlers a signal was dispatched to this process for
    ran            \* history: the handlers that ran, "fault" a null dereference

sending == <<bus_out, told>>
hearing == <<bus_in, due, ran>>
registry == <<notify_list, asked>>
notify == <<registry, sending, hearing>>

NotifyTypeOK ==
    /\ notify_list \in Seq([notify : Notification, handlers : Seq(Handler)])
    /\ asked \in [Notification -> Seq(Handler)]
    /\ bus_out \subseteq Notification /\ told \subseteq Notification
    /\ bus_in \in Seq(Notification)
    /\ due \subseteq Handler /\ ran \subseteq Handler \cup {"fault"}

NotifyInit ==
    /\ notify_list = <<>> /\ asked = [n \in Notification |-> <<>>]
    /\ bus_out = {} /\ told = {}
    /\ bus_in = <<>> /\ due = {} /\ ran = {}

-----------------------------------------------------------------------------
\* The places with that name, and the one list_get__data finds: the first.
Entries(n) == {i \in DOMAIN notify_list : notify_list[i].notify = n}
Entry(n) == CHOOSE i \in Entries(n) : \A j \in Entries(n) : i <= j

notify_get_handlers(n) == notify_list[Entry(n)].handlers

\* Mutant: the entry that is there already is not looked for.
notify_add_handler_new(n, h) ==
    notify_list' = Append(notify_list, [notify |-> n, handlers |-> <<h>>])

\* A notification not in the list is added to it first, at the tail.
notify_add_handler(n, h) ==
    notify_list' =
        IF Entries(n) = {} THEN Append(notify_list, [notify |-> n, handlers |-> <<h>>])
        ELSE [notify_list EXCEPT ![Entry(n)].handlers = Append(@, h)]

reg_notify(n, h) ==
    /\ notify_add_handler(n, h)
    /\ asked' = [asked EXCEPT ![n] = Append(@, h)]
    /\ UNCHANGED <<sending, hearing>>

\* Without a buffer nothing is sent, and the caller told so by a 0: success.
rpc_send_signal(n, buf) == bus_out' = IF buf = "null" THEN bus_out ELSE bus_out \cup {n}

\* There is no argument in msg_notify to give to it.
msg_notify(n) ==
    /\ rpc_send_signal(n, "null")
    /\ told' = told \cup {n}
    /\ UNCHANGED <<registry, hearing>>

\* Somebody else sends a signal.  No match rule is ever added: what the bus puts
\* on the connection is addressed to this process.
signal_arrives(n) ==
    /\ bus_in' = Append(bus_in, n)
    /\ UNCHANGED <<registry, sending, due, ran>>

(***************************************************************************)
(* The filters, in the order they were added.  libdbus asks the next one   *)
(* only when the one before answers NOT_YET_HANDLED.                       *)
(***************************************************************************)
Filters == <<"rpc_method_filter", "rpc_command_filter", "rpc_notify_filter">>
Handled == {"rpc_method_filter", "rpc_command_filter", "rpc_notify_filter"}

\* Those a message gets to: a filter behind one that says HANDLED never.
Asked == {i \in DOMAIN Filters : \A j \in 1 .. i - 1 : Filters[j] \notin Handled}

\* What rpc_notify_filter has to run: the handlers of "shock" and of no other
\* notification.
Handlers_of(n) ==
    IF n = "shock" /\ Entries(n) # {} THEN Range(notify_get_handlers(n)) ELSE {}

\* notify_get_handlers takes for granted that there is an entry.
rpc_notify_filter(n) ==
    IF n = "shock" /\ Entries(n) = {} THEN {"fault"} ELSE Handlers_of(n)

dispatch_signal ==
    /\ bus_in # <<>>
    /\ due' = due \cup Handlers_of(Head(bus_in))
    /\ ran' = ran \cup IF 3 \in Asked THEN rpc_notify_filter(Head(bus_in)) ELSE {}
    /\ bus_in' = Tail(bus_in)
    /\ UNCHANGED <<registry, sending>>
=============================================================================
