# Verification of the layered gateway system

TLA+ models of the gateway's own C code (`framework/`, `loader/`, `service/`,
`hardware/`, `app/`), the TLC runs that check them and the proofs TLAPS checks.
`PROJECT.json` lists, for every definition, the source lines it models; paths
below are relative to `src/`.

## 1. The system

A gateway runs as a handful of processes on one machine.  `initd` creates a
shared memory segment with the configuration and a table of pids.  Four
loaders read `loader.conf` and load *modules* (shared libraries): the service
and the app loader fork one process per module, the framework loader keeps all
its modules in its own process, the hardware loader is a stub.  Processes talk
over D-Bus: every process that serves modules has a listener thread which owns
a bus name and dispatches method calls to handlers; callers block on a second
connection.  Handlers get their arguments as a packed byte array.  Services use
a hardware layer (GPS driver with a thread of its own), and a small C library
(list, hash, string, ring buffer, timer, log) sits under everything.

| Component | State it keeps | Operations | Talks to |
|---|---|---|---|
| ring buffer (`framework/common/ringbuf.c`) | array, fill count, two cursors | write, read, find, reset | (library) |
| list (`list.c`) | nodes, head, tail, size; iterators | insert, remove, get, find, iterate | used by calls, notifications, timer |
| remote calls (`module.c`) | `g_rpc_mgr`: name, two connections, module table | `rpc_init`, `rpc_reg`, `rpc_listen`, `msg_method_call`, filters | the bus, the handlers |
| notifications, commands (`notify.c`, `module.c`) | handler lists per notification, three filters in order | `reg_notify`, `msg_notify`, `msg_command` | the bus |
| module loading (`loader.c`, `module.h`) | `method_regs` and `INTERFACE` of each library, the dependency table | `load`, `import`, `EXPORT`, `RPC_REG` | remote calls, hash table, start-up |
| marshalling (`rpc_helper.[ch]`) | packed argument arrays | stubs of `RPC_METHOD`, `rpc_pack` | remote calls |
| start-up, shutdown (`loader/`, `sys.c`) | shared segment, pid table | `init_sys_env`, `sigroutine`, `reg_pid`, `launch_*` | the OS, remote calls |
| hardware abstraction (`hardware.c`) | open libraries | `hw_get_module` | the driver |
| GPS driver, location (`gps.android.c`, `location.android.c`) | `dev`, the recorded messages, `last_location` | `init`, the reader thread, its callback, `get_current_location` | hardware abstraction, remote calls |
| NMEA parser (`minmea.c`) | none | `minmea_check`, `minmea_scan`, one parse function per sentence | the driver |
| installer (`installer.c`) | the download, tmp and app directories | scan, unpack, install, upgrade | the file system |
| timer (`timer.c`) | list of deadlines | add, SIGALRM handler | list |
| string (`str.c`) | buffer, length, capacity | copy, append, insert, trim, split, replace | used by the loaders, the installer |
| hash table (`hash.c`, `khash.h`) | buckets with flags, keys and values | set, get | used by the dependency table |
| log, util | none | library functions | used by all |

What is hard here, and what correctness means:

* **Remote calls.**  Two threads per process, several processes per call, a bus
  between them, timeouts on one side and crashes on the other.  A call must run
  at most once, in the order its caller made them, and return success only if it
  ran; nobody may wait for an answer that nobody will send; a name is served by
  one process.
* **Start-up and shutdown.**  Nothing orders the programs, and they share a
  table in memory without a lock.  Every process started must be in the table
  when `initd` is told to stop, or the reason must be a race of two
  registrations; every module ends up in one process.
* **Ring buffer and list.**  Pointer structures whose every operation has a case
  per end and per direction.  They must behave as a queue and as a sequence.
* **Installer.**  Packages arrive while others are unpacked, and the process may
  die between two file operations.  No package may be lost, and an installed app
  is made of the files of one release.
* **Marshalling.**  To its caller a remote call must look like a local one: the
  arguments come back as the handler left them, all of them or none, and a call
  that failed is not taken for one that returned.
* **Strings.**  Two lengths, one kept and one found by `strlen`, must agree.
* **Modules and notifications.**  The macros of `module.h` fill two tables from
  one declaration, and fill them again whenever somebody imports the library; the
  dependency table keeps keys that lie on a stack.  A served module must answer
  what it declared, and an import must get the interface it named.  A notification
  must find every handler that was registered for it.
* **Driver and location.**  A reader thread, its callback, a second `init` and the
  listener share two structures without a lock.
* **NMEA.**  Formats and variadic arguments must agree, numbers must not overflow,
  and a damaged sentence must be seen.

`PROJECT.json` lists the hazards at their lines.

## 2. Modules

| Module | Models | Checked by | Proved in |
|---|---|---|---|
| `RingFifo` | the queue a ring buffer promises (abstract) | | |
| `RingBuf` | `ringbuf.c` | `MCRingBuf` | `RingBuf_proofs` |
| `RpcCall` | what a caller of a method is promised (abstract) | | |
| `Rpc` | `module.c`: registration, listener, calls, over an external bus | `MCRpc` | `Rpc_proofs` |
| `SysEnv` | `initd.c`, `service_loader.c`, `app_loader.c`, `framework_loader.c`, `sys.c` | `MCSysEnv` | `SysEnv_proofs` |
| `ListSeq` | the sequence a list promises (abstract) | | |
| `List` | `list.c` | `MCList` | `List_proofs` |
| `Installer` | `installer.c`, with `zip_extract`, over an external file system | `MCInstaller` | `Installer_proofs` |
| `LocalCall` | what the stubs promise: a local call (abstract) | | |
| `Marshal` | `rpc_helper.h`, `rpc_arg_malloc` | `MCBuffers`, `MCMarshal` | `Marshal_proofs` |
| `StrSeq` | the text a string promises to be (abstract) | | |
| `Str` | `str.c` | `MCBuffers` | `Modules_proofs` |
| `Gps` | `gps.android.c`, `hardware.c`, `location.android.c` | `MCGps` | `Gps_proofs` |
| `Khash` | `hash.c`, `khash.h`: the operations on one table | `MCModules` | |
| `Notify` | `notify.c` and the filters of `module.c` | `MCModules` | `Modules_proofs` |
| `Modules` | `loader.c`, `module.h`, the dependency table; composes `Notify` and `Khash` | `MCModules` | `Modules_proofs` |
| `Nmea` | `minmea.c`, `minmea.h` | `MCGps` | `Gps_proofs` |

A definition whose comment begins with *Mutant* and which no `Next` uses is a
plausible bug of the definition below it: the property it is paired with in
`PROJECT.json` fails when it takes that place.

### RingBuf and RingFifo

`buffer`, `size`, `r_cursor`, `w_cursor` are the fields of `ringbuf_t`; a cursor
is an offset into the array or `NULL`.  `Write`, `Read`, `Find`, `Reset` are the
functions of `ringbuf.h`; `call`, `out`, `ret` hold the last call, the bytes it
handed out and its return value, `fault` that a null cursor was dereferenced.
Nothing but the tests calls the ring, so any argument may come.  Null arguments
are left out (they return at once).

`FifoSpec` states that the ring implements `RingFifo`, a queue of at most `N`
bytes; the refinement reads the contents off the array *backwards from the write
cursor*, which is right even when the read cursor is `NULL`.  The queue lets a
read take any prefix of what was asked for: that is all `ringbuf_read` does,
because of its cap by the free space (`ringbuf.c:111`).  `FullIsStuck` is the
consequence, and holds.

### Rpc and RpcCall

Per process: `main` (`boot`, `reg`, `run`, `wait` = blocked in a call, `dead`),
`lst` (the listener thread: `off`, `connect`, `serve`, `reply`), `mods`
(`g_rpc_mgr->modules`).  The bus is external: `owner` of each name, `inbox` of
calls queued on a listener's connection, `answers` queued on a caller's.  What
the code relies on is modelled: calls on one connection keep their order, a
call to a name nobody owns is answered with an error, so are the calls of a
process that goes away, replies are matched to calls by serial, and
`REPLACE_EXISTING` replaces nobody because no owner allows it (`module.c:181`).

`rpc_method_filter` goes round once per registered module and every time looks
at the *last* one (`module.c:46`); `Runs` says how often the handler runs then.
With one module per process, as the service and app loaders arrange it, that is
once.  The filter and the reply are two steps, so a crash may come between the
handler and the answer.  `call_timeout` is the default reply timeout; `Answered`
does not need it, a caller gets an answer or an error without.

`RpcCall` is the promise to the caller; `CallSpec` states that `Rpc` implements
it under the mapping `ran <- Ran`, the calls whose handler ran.

### SysEnv

`pc` is where the main thread of a process is, in `initd`, in a loader or in a
child; `job`, `pos` are the loader it comes from and its place in the list of
modules.  A child is a copy of its loader, so it has the loader's `pos` and
attachment, and when its `start()` returns it *continues the loader's loop*
(`service_loader.c:24-35`).  `seg` holds the shared segments, `key` the one
`SYS_ENV_SHM` names, `at` what each process attached.  `reg_pid` is three
steps: read the count, store the new count, store the slot, the two stores in
either order because C does not order them.  `init_sys_env` is five steps.
The listener threads are reduced to asking for the name, which is what makes a
duplicate exit.  Crashes, a failing fork and a second `initd` are steps.

`raced` and `wiped` are history: whose registration overlapped another or a
`memset`, and which segment a `memset` hit during a registration.  The
properties say that *only* those are lost, and that a sweep that ran to the end
of the table kills everything that was in it when the signal came.

### List and ListSeq

`ptr` maps pointer locations (head, tail, the `next` and `prev` of every node)
to nodes, so a cursor (`list_node_t **`) is a location and every assignment of
`list.c` an update through one.  `SequenceSpec` says that the contents, results
and iterator positions are those of a sequence; the iterator is the number of
elements between it and the tail, which is why it survives insertions and
removals in front of it.  `list_remove__data` returns an unmatched node, and
the sequence says so (`RemoveData`).  `WellFormed` is the invariant of the chains:
read forwards and backwards they are the same nodes.  `list_free` and `list_concat`, which read
freed nodes and have no caller, are not modelled.

### Installer

A directory is a function from files to the release they were unpacked from.
`download`, `tmp`, `app` are the three directories, `lock` is `sys.img.lock`.
`opendir` to `scan_end` is `sniff_new`; `readdir` returns, once, every name that
stays during a scan, and may return one that comes meanwhile.  `zip_open`,
`zip_extract` (one file), `zip_fails`, `remove` and `rename` are the file
operations of `unzip_and_install`, each a step; `lock_image` and `start_script`
are `upgrade_sys`.  Deliveries come at any time, moved in whole or (with
`InPlace`) written under their final name over the bytes of an earlier one, which
spoils an unpacking that has it open.  `Crash` may come at every step and leaves a
file or a directory half made; `start` is the restart.  The directories exist and
lie on one file system; `verify` and `check` accept everything, as in the code.

`LatestKept` names the two ways a delivered package can be lost: `overrun`, it
came while the earlier one of its name was unpacked and went with it
(`installer.c:211` removes by name), and `spoilt`, it could not be unpacked
(`installer.c:210`).  A crash is not one of them: the files stay in `tmp`.

### Marshal and LocalCall

An array is a sequence of words of eight bytes; an argument in it is a header
(`len`, `ref`) and its data.  Words carry their origin (argument, position, old or
new), so a property sees where a word ended up.  `cli_call`, `cli_end` are the
client's stub, `srv_begin`, `srv_end` the server's; `handler_write` and
`rpc_arg_malloc` are what a handler may do.  The call itself is one step; `Rpc`
has its inside.  `cli_fails` is a call without a reply, at any moment: the stub then
unpacks its own request.  That must leave what the caller's arguments point at as it
was, and it does; but an out argument is a pointer the stub sets, and it sets it to an
empty block then (`rpc_helper.h:222-224`).  `made` holds the out arguments whose pointer
was replaced, so that the model sees it: `LocalCall` promises of a failed call that
nothing but these pointers has changed, not that nothing has.

`cli_return_bare` is the return of a call without arguments.  Its array has no length, so
there is none in the reply, and `msg_method_call` goes into a body that is not there
(`module.c:324-326`).  A libdbus with its checks ends the process (`abort`); without them
what is read is undefined, and the stub does not look at it.  `BareReturns`, that such a
call does not end its caller, is what the methods of `power` need and does not hold
(`marshal_bare`).

`rpc_arg_malloc` writes a pointer into the data of an argument that has no data,
and so into the header of the argument behind it.  `FaultOnlyBehindOut` says
nothing else leads out of the arrays, and `LocalSpec`, that the stubs implement
`LocalCall`, is checked for the signatures that have no argument behind an out
argument, and of calls without arguments for those their caller survives.

### Str and StrSeq

`str` is the record of `strbuf_t`: cells `0 .. capacity`, of which C reads up to
the first `NUL`; `WellFormed` says that the length kept is the length found there.  The state `Wild` is that of a string after something C leaves
undefined.  `ValueSpec` says that every operation does to the text what `StrSeq`
says, except for trimming a blank string: `str_trim` takes `'\0'` for a blank
(`str.c:101-106`) and reads on behind the end, which brings back erased text or
leaves the buffer.  `framework_loader.c:46-50` trims the pieces between the commas of
`loader.conf`, so an empty entry is enough.  `Finds` is the chain of the `strstr` calls that
`str_count`, `str_split` and `str_replace` make, each behind what the last one found.  Callers are assumed to resize a string
only within its text and not to replace the empty string.

### Gps

`main` is the thread that loads the module: `hw_dlopen` to `hw_failed` are
`hw_get_module` with its ways to fail, `init`, `init_clear`,
`init_callbacks` and `init_thread` the driver's `init`.  `fastrax_reader` is a
thread per `init` that started one; `init` starts one unless `running` is set, and
since the reader sets it itself, two `init` in a row can start two.  `cleanup` being
disabled, a client that closes the interface and opens it again does just that.

Every access of a word two threads share is a step: `fake_idx` is loaded and stored
in two (`find_load`, `find_store`), `dev.fix` and `last_location` are copied word by
word (`pos` stands for latitude, longitude and the rest, `time` for the time stamp),
so an answer may mix messages.  `alone`, `sound` and `heard` are history and say when it
may not: a reader worked undisturbed, `last_location` is its work, and no
callback overlapped the listener's copy.  `AnswersWhole` states exactly that, and
drops every claim where the code has a race.

`findFake` takes a message and steps by two over one that does not match
(`gps.android.c:461-471`); with an odd number of messages `ReplayStandsStill`: a lone
reader always comes back to the same position.  `LocationArrives` is the liveness: with
one reader, a position is delivered in the end, whatever `init` clears meanwhile.

### Modules, Notify and Khash

`kind`, `conf`, `own` choose the process: the framework loader, or the child forked
for the module at place `own`, which has gone through what its loader did up to the
fork.  `main` steps through `load`, the `_dylib_init_` that `EXPORT` and `RPC_REG`
write (one step per method), `on_load`, the imports in it, and what `launch_framework`
or `launch_service` does after it.  A library is mapped once per process, so importing
one that is loaded runs its `_dylib_init_` again, also while the listener serves it.

`depends` is the hash table of imported interfaces.  Its operations are `Khash`'s:
probing with the second hash, the growth from nothing to three buckets, flags.  A key
is put in as a pointer to a local array of `reg_module_depend` (`module.c:253`), so
what the key in a bucket says later is anybody's guess: every lookup chooses the
buckets that compare equal (`Buckets_of`).  `RightInterface` says what is left: a
module with one import gets the interface it names; with two it may get the first
one's.

`NoInterface` are the libraries that are missing or have no `EXPORT`: importing one gives
`NULL`, and nothing is put into the table.

`Notify` has the registry (`notify_list`), what is sent (`bus_out`), what comes
(`bus_in`) and what ran (`ran`); `asked`, `told` and `due` are history and say what was
registered, what was to be sent and who was to hear it.  `Entry` is what a search of the
list finds: the first entry of a name.  `HandlersKept` says it has every handler that was
registered for the name, in order, so an entry must never be made twice.  `Asked` are the
filters a message reaches: libdbus stops at the first that returns `HANDLED`, and all
three always do.  `Broadcast` says what the repository's `README` says of notifications:
what is to be sent is sent, and what comes is heard.  Neither half holds (section 4).

### Nmea

One call of a parse function: `format`, `ap`, `field` are where `minmea_scan` is in its
format, its variadic arguments and the sentence.  Each pass of its loop is a step,
`parse` is what the caller does after it.  A stored value carries the C type it was
stored as and the frame starts with what was on the stack (`Stale`), so `FrameWhole`
sees a missing argument, a wrong type and an optional field nobody wrote.  `scan_f`
has the loop over characters with its overflow test in the width of an `int`
(`Float_loop`), and `FloatsExact` compares what it stores with `Fraction`, which knows no
loop: the longest beginning whose digits still make an `int` (`Fitting`), whether that is
a number (`IsNumber`), and how many of its digits are behind the point (`Decimals`).  The
comparison is for fractions whose scale is an `int` (`ScaleFits`).  `minmea_check` is
whole, and `DamageSeen` tries every single changed character.

## 3. Runs

| Run | Instance | Shows |
|---|---|---|
| `ringbuf` | 4 slots, 2 byte values, writes of 0 to 5 bytes, reads of -1 to 5 | cursors, the queue, stuck when full |
| `rpc` | an app with 3 calls, a service started twice; crashes and timeouts | the safety properties, `CallSpec`, every call is answered, the two instances settle |
| `rpc_forgotten` | a framework process with two modules | a call that is dropped |
| `sysenv` | `initd` twice, service and framework loader, one of them possibly first, a missing library, SIGTERM, crashes | the table and the sweep over two segments |
| `sysenv_boot` | two modules whose `start()` returns | one process per module in the end |
| `list` | 4 nodes, indexes -4 .. 3, iterator | both chains, iteration, the sequence |
| `installer` | one app under two package names in three releases, an image, one crash; written in place or moved in, unpacking may fail | what may be lost or mixed, and that everything is dealt with |
| `buffers` | stubs: every signature of up to 3 arguments of up to 2 words, and of 5; strings: two letters and a blank, texts of up to 4, arguments of up to 2 | faults only behind out arguments, the local call, and what a failed one leaves; both lengths, split and replace, the text |
| `marshal_bare` | the stubs alone | a call without arguments that ends its caller |
| `gps` | 3 messages, two of them positions; up to two `init`; the seven example sentences of `minmea.c` as they are, with each parser, cut off after every field, with every field replaced by nine others; 4771 fractions and scraps of them; 9 sentences with every character changed | whole answers, the standing replay, a position in the end; frames, fractions, checksums |
| `modules` | 3 libraries with an `EXPORT`, one without, a missing one; two lists, up to two imports | the served module, the interfaces, the registry of handlers |
| `notify` | the same | a notification that is not sent |

`buffers` and `gps` check two components each that share no variable and read nothing of
each other: a behaviour of `MCBuffers` is one of the stubs or one of the strings, one of
`MCGps` runs the driver or scans one sentence (`MCNmea` and `MCStr` have the instances of
`Nmea` and `Str`).  What stands still adds no state to what runs.

Bounds.  `N = 4` and writes up to five bytes reach every alignment of two
cursors, the exact fit, the wrap, the cap and the overwrite by one more.  Three
calls suffice for a late answer to arrive during the next call and to be left
over for one after it.  `MaxPid = 3` in `sysenv` is `initd` with a loader and
its child, with both loaders, or twice with one loader: two registrations overlap, or
one overlaps the second `initd`'s clearing.  `MaxPid = 5` in `sysenv_boot` is `initd`, a
loader, its children and the duplicates they launch.  Four nodes give a list with both
ends, an inner pair and a node to insert; `MinLeft = 1` keeps the `list` run
away from the removal of the only node, which breaks the list (section 4).
Two releases under one name are a first installation and an upgrade, and one can
arrive while the other is unpacked; the third has another name and the same app
directory; an archive of two files has a state in which one is there.  Three arguments
have one before and one behind an out argument, and two words tell a shifted
argument from one in place; five is the limit of `RPC_METHOD`.  Texts of four over a
capacity of two grow past it twice, and separators of one and two characters overlap
themselves in them.

`MaxInit = 2` gives two readers and an `init` that clears under a reader; a third
would add no pair of threads that two do not have.  Three messages are the least odd
recording with two positions, and what the replay does depends only on the parity and
on the place of the positions.  Two imports per module are the limit at which the
table is not resized (a resize rehashes the dead keys, which reads memory the model
has no content for); the ids of two modules share a bucket.  `IntBits = 27` keeps
products within TLC's integers (the proof is for the real width as well), and the fractions go around the limit of that width from both sides.
`CHECK_DEADLOCK FALSE` is set where a system may end: every process dead, all
calls made, all nodes used, a stub faulted, a string undefined, a call returned.

Fairness.  `Rpc`: both threads of a live process keep running (the scheduler),
and a blocked caller takes an answer that is there.  The timeout is not assumed to
come, so that `Answered` is about the answers.  `SysEnv`: the same, and
the programs are started in the end.  `Installer`: its one
thread keeps running while the process lives (`Work`), which is the loop of
`installer.c:82-85`.  `Gps`: the loading thread until it is up, and each reader; their
loops wait for nothing but a sleep.  No fairness is assumed of crashes, restarts,
deliveries, calls, signals or a second `init`.

## 4. Findings

Shown by a run:

1. `rpc_method_filter` looks at `modules[module_size - 1]` every time round (`module.c:46`): with two modules in one process, as in the framework loader, calls to the first are dropped without an answer (`rpc_forgotten`), and calls to the last run twice.
2. The reply to a method without arguments has no array, and `msg_method_call` unpacks it without a look (`module.c:324-326`): a libdbus with checks aborts the caller (`marshal_bare`).  The methods of `power`, and `rtc_calibration` of `location`, have no arguments.
3. `msg_notify` has no argument to give and `rpc_send_signal` sends nothing without one, and calls it a success (`module.c:378-381`, `419`; `notify`): the notifications of `README:18` are not broadcast.

Visible in the models, where a definition or an exception in a property stands for each:

4. `rpc_method_filter` claims every message, signals too (`module.c:74`), so the filter for notifications behind it is never asked and no handler runs (`Asked`; the other half of `Broadcast`).  No match rule is added either: a broadcast of another process would not get as far.
5. `ringbuf_read` caps its length by the *free* space (`ringbuf.c:111`): a ring more than half full is read short, a full ring not at all, and for good (`FullIsStuck`).
6. A write of the ring's size sets `r_cursor = 0`, a null pointer (`ringbuf.c:156`; `CursorsAgree` allows it there).
7. `list_remove(list, -1)` of the only node leaves `tail` pointing at it (`list.c:184-189`; `MinLeft`).
8. A package that cannot be unpacked to its end is installed in part (`installer.c:210`; `spoilt` in `InstalledWhole`).
9. An app that is installed is never upgraded: the rename onto its directory fails, its result is ignored, and the package is gone (`installer.c:211-219`; `rename` in `Installer`).
10. A stub called with a null argument returns `SUCCESS` without a call (`rpc_helper.h:184-187`; `Skip` in `LocalCall`).
11. `rpc_arg_malloc` overwrites the argument behind an out argument (`module.c:439`; `Exposed`).
12. A call that fails sets its out arguments to empty blocks, and loses what their pointers held (`rpc_helper.h:222-224`; `Fail` in `LocalCall`): only the result tells the caller not to read them.
13. `str_trim` of an empty or blank string reads behind its end (`str.c:104`; `Overrun`).
14. The keys of the dependency table lie in a stack frame that is gone (`module.c:253`): a module with two imports may get the first one's interface for the second (`RightInterface`).
15. Importing a module that is being served empties its list of methods for a moment, in which calls to it are lost (`again` in `ServedAsDeclared`).
16. A child whose module has no library reads the info of a null module (`load_missing`); a gateway without a GPS library reads the methods of a null interface (`hw_failed`).
17. The replay stands still (`ReplayStandsStill`), positions come from `init` on although `gps.h` has navigation begin with `start`, and a second `init` may start a second reader.
18. Of a fraction the digits are tested for an overflow, the scale is not (`minmea.c:186-187`): ten decimals, as in `0.1234567890`, overflow it (`ScaleFits`, the condition in `FloatsExact`).

## 5. Proofs

Each module's theorems are for every value of its constants that its named `ASSUME`s
allow (TLC evaluates them in every run); a further hypothesis is named below and is
part of the theorem's statement.

**`RingBuf_proofs`**: `TypeCorrect`, `CursorsCorrect`, `FullRingIsStuck`,
`ImplementsFifo`.  The inductive invariant is `TypeOK /\ CursorsAgree`.  Types alone are
not inductive: that a read leaves its cursor in the array needs a cursor that is not
`NULL` whenever the length is positive, which is `CursorsAgree`.  The work is arithmetic
modulo `N` on at most two laps (`OneLap`, `LapRest`, `LapTwice`), and that `find` returns
the least index (`LeastElement`).  The refinement reads the contents backwards from the
write cursor, so a write is an append even where it makes `r_cursor` null, and a read
drops a prefix because the read cursor is the write cursor less the fill count.  It
covers negative lengths: they read nothing (`ringbuf.c:108`).

**`Rpc_proofs`**: `TypeCorrect`, `OneServer`, `SuccessMeansRun`, `KeepsOrder`,
`RunsOnce`, `NobodyForgotten`, `ImplementsCall`.  `OneServer` needs that a listener that
serves owns its name on the bus, and that a dead process owns none and has no listener.
`SuccessMeansRun` needs that an `ok` answer, queued or about to be sent, is for a call
whose handler is in the log: the invariant follows the answer from the filter through the
bus to the caller.  Order and repetition rest on `QueueInv`: what is queued was called, is
in one queue once, and is behind everything of its caller that is queued there or has
run; a late answer or a timeout then cannot bring an older call behind a newer one.
`RunsOnce` has the hypothesis `OneModuleEach`, which the service and app loaders bring
about by forking, since with more modules the filter runs the last one's calls more than
once.  `NobodyForgotten` has the hypothesis `LastIsCalled`: each module is the last that
a process called for it registers.  It holds where processes have one module and fails for the
framework loader's process, and there the run `rpc_forgotten` shows the caller that is
forgotten.  `ImplementsCall` needs neither.

**`SysEnv_proofs`**: `TypeCorrect`, `LostOnlyInARace`, `HolesUnfilled`,
`SweepIsThorough`.  None of the three is inductive, and each needs part of the others;
the invariant is `TableInv`.  `Alone` says what a registration that nothing overlapped
has achieved after each of its three steps, whichever store came first; `Kept`, that once
it is over its slot stays below the count and in front of every later registration's
index, so none writes there.  `NoGap` gives every slot below the count, in a segment no
clearing has hit, its pid or the registration that owes it.  `Ahead` says that
what a sweep still has to kill lies before it, although pids are added, and processes
die, under it.

**`Installer_proofs`**: `TypeCorrect`, `NothingLost`, `NothingMixed`,
`NothingHalfInstalled`, `NoImageForgotten`.  `LatestKept` alone is not inductive.  That a
package may be removed once it is unpacked needs that what was unpacked *is* the last
release: `Unpacked` says so for a release nothing excuses, with the files already in
`tmp`, and `Known` that releases lie under their own names, so an overwritten package
cannot be another one's.  `MixedOnlyAfterCrash` needs `Sorted`: what an attempt leaves in
`tmp` is either of one release and about to leave, or stuck behind an installed app.
`InstalledWhole` needs `Whole`: a directory in `tmp` that is about to be renamed has all
files of the release that was unpacked last, also when a crash left part of another one
there.

**`Gps_proofs`**: `TypeCorrect`, `WholeAnswers`, `StandsStill`.  The invariant follows a
message through the threads: a reader that works alone has put into `dev.fix` the message
it holds (`OwnFix`), has copied from there what it no longer has to copy (`OwnCopy`), and
so `last_location` is of one message when it is done (`SoundLast`), and the words of an
answer that are copied while nothing is delivered are those of `last_location`
(`SoundAnswer`).  `StandsStill` has the hypothesis `OnePosition`, that some set of indexes
contains the first and the one behind the position found, is closed under the
reader's steps of two and holds one position.  `OddReplay` shows that every recording of
odd length with its positions at odd places has it; the driver's has 57 messages and
positions at 3, 9, ... 51.

Its second half is about the sentences: `FramesWhole`, `DamageIsSeen` and
`FractionsExact`, for all fields, tails and lengths (`CallsAssumption` only says what a call is made of).  `FrameWhole` is not
inductive; `FrameInv` says how far the loop of `minmea_scan` is in the format, and from that
place alone which arguments are left (`Remains`), how many fields have been passed
(`Counts`) and which members are written, each with its own type (`Written`).  It rests on
`AgreeAll`, that each of the formats takes its arguments one for one and with their types,
but for the `;` and the `_`.  The kind in the frame is the one `minmea_sentence_id` sees,
because both read it from the first field (`Named`).  `DamageIsSeen` first determines where
the body of an accepted sentence ends (`Extent`): the `*` is followed by two digits and at
most a line end.  A replaced character is then before the `*`, where it changes the parity of a
bit or ends the body early, so that the rest is too long; or it is the `*`, without
which the body runs on to a line end; or a digit of the checksum, which gives a byte
with other bits; or the line end.  That the text of a sentence is a sequence of
characters is an induction over its fields.

`FractionsExact` is for every text of the field and every width of an `int` up to 32
(`BitsAssumption`).  The characters that `Float_loop` has read and the digits that
`Capped` has added up are two recursive functions; `LoopIs` and `CappedIs` say what they
are at each place.  The inductive statement is `HasRead`: after `k` characters that make a
beginning of a number and whose digits fit, the loop has not stopped, its value is that
of the digits (-1 if there are none), its sign that of the sign (`Signed`) and its scale
ten to the number of digits behind the point (`Behind`).  One more character keeps this,
whichever it is, or stops the loop: with an error where the text stops being a number
(`Wellformed`), and otherwise at the first digit that does not fit, as `Fitting` says
(`FittingIs`), with an error before the point and a cut behind it (`LoopEnds`).  Blanks in
front change nothing (`BlanksSkipped`).  `OwnInv` carries this into the frame: `ScanSpec`
stores what `scan_f` returns, and nothing but an error of it can stop that scan.

**`Modules_proofs`**: `ServesAsDeclared`, `HandlersFound`, `ImportsRight`.
`ServesAsDeclared` rests on `LoadInv`.  `Halfway` says that a `_dylib_init_` under way has
moved a beginning of the declared methods, reversed, into the list; `Libs` that exactly
the modules the loop has passed are loaded once, which needs that `loader.conf` lists
a module once, and that the list of a loaded one is complete unless its library is the
one being initialised; `Serves` that nothing is registered any more once the listener
serves, so that a call lost earlier cannot become one to the module served now.
`HandlersFound` rests on `Registry`: no name has two entries, and the one it has holds what
`asked` does.  A registration either appends an entry of a new name (`RegisterFirst`) or
changes the one the search finds (`RegisterAnother`, `EntryIs`).
`ImportsRight` rests on `BindInv`, which adds what the tables hold: a table is new or has
three buckets, and the value in one that is taken is a module its owner imports, whose
interface has all its members by then (`Importable`).  With two imports at most
(`ImportAssumption`) no table with something in it is resized.  Nothing is
known of the keys: the proof is for every outcome of comparing a key that is dead.

For the strings the loaders take `loader.conf` apart with the module has
`StringsWellFormed`, `StringsSplitJoin` and `StringsAreSequences`.  All three come from one
invariant, that there is a text the string `Holds`: its cells before `length` are the
text, which has no `NUL` in it, and `NUL` is behind them and in the last cell.  The last
cell is what a `str_trim` that runs on over erased text stops at.  Every operation has a lemma that says which text
its result holds, whether it had to reallocate or not.  What `str_count`, `str_split` and
`str_replace` do depends on `Finds`, a recursive function; `Recursion` shows once that
such functions exist, by taking the least place at which an initial segment of one
would not.  `FindsAre` characterises the chain of matches: the leftmost ones, none
overlapping the one before.  The places StrSeq replaces are that set (`GreedyIsOne`,
`PlacesAre`), so what `str_replace` assembles is what is promised (`JoinIs`,
`ReplacedGrows`), and the pieces of a split are the text between them (`SplitIs`).

**`Marshal_proofs`**: `TypeCorrect`, `FaultsBehindOut`, `ImplementsLocal`, for signatures
of up to five arguments, the limit of `RPC_METHOD`, of any lengths.  The offset of an
argument is a sum over those before it, which the proof unfolds (at most five times), and
from which come the facts that arguments do not overlap and that header and data of one
are found again.  The invariant says at each step which arguments the array in the
server already has from the handler, that headers are intact unless an argument stands
behind an out argument, and what the reply then is.  `ImplementsLocal` covers calls without
arguments as well, up to the point where their caller is dead.

**`List_proofs`**: `BothChains`, `IteratesAll`, `ImplementsSequence`.  All three have the
hypothesis `KeepsOne`, that `MinLeft` is not zero: without it they are false, because
removing the only node by a negative index breaks the list (section 4, 7).
The invariant says that there is a sequence of different nodes such that every *gap* of
it, also the ones at the ends, has its two pointers right: the one across it forwards
(`After`) and the one across it backwards (`Before`).  `Splices` and `Cuts` say which gaps
an insertion and a removal change; that every one of `list.c`'s cases, for each end and
each direction, is one of these is the core of the proof (`PutSplices`, `UnlinkCuts`).
The contents are what the recursive functions `Fwd` and `Back` find; `WalkForth` and
`WalkBack` determine these by exhibiting the function and by the least place at
which another one would differ.  An undisturbed iteration has returned what it had
to except the last `-1 - iter` elements (`Iterating`), and an insertion or removal
at the iterator leaves these alone.

Only model-checked, and why:

* liveness (`Answered`, `ServiceSettles`, `OneProcessPerModule`, `EveryAppArrives`,
  `LocationArrives`): it rests on fairness, that is on `ENABLED`, which the provers do
  not have;
* that a list with the only node removable is right as long as no negative index removes
  it: the `list` run and the proofs both keep one node.

## 6. Plan

1. (done) `RingBuf`, `Rpc`, `SysEnv`, `List`, `Installer`, `Marshal`, `Str`, and
   their runs; type correctness and the central invariants of `RingBuf`, `Rpc` and `Installer`.
2. (done) `Gps` with its reader and the position that is read while it is written;
   `Notify`, `Khash` and `Modules`, their composition; `Nmea`; the proofs of `Gps` and `Modules`.
3. (done) Proofs: order, repetition and forgotten callers of `Rpc`; the refinements
   `FifoSpec`, `CallSpec`, `LocalSpec`, `SequenceSpec`; `SysEnv`, `List` and `Marshal`; what was
   left of `Installer`, `Gps` and `Modules`.
4. (done) Proofs of `Str`, split and replace included, and of the formats, the checksum and
   the fractions of `Nmea`.

## 7. Not modelled, and why

The timer is dead code: nothing calls `timer_add`, and its insertion does nothing to a
list that is empty, as every list is to begin with.  `vendor/` is third-party;
`app/` is not built (its line in `CMakeLists.txt` is commented out); the methods of
`power.c` only return 0; `log.c` formats;
`launcher.c` is built by no CMake file; `hardware_loader.c` is a TODO.

Of the parts that are modelled: the hash table's other operations (`hash_has`,
`hash_del`, `hash_clear`, `hash_each`) and its growth with entries in it have no caller;
`process_line` and the parse functions of the driver (`gps.android.c:109-392`) are
compiled and never called, `start`, `stop` and the functions beside them do nothing,
and the satellite status callback is never made.  `minmea_gettime`, `minmea_rescale`,
`minmea_tofloat` and `minmea_tocoord` are arithmetic on a finished frame; `minmea.h`
says of the second that it rounds towards zero, the code rounds to the nearest.
`msg_command` (`module.c:298`) dereferences the null buffer it passes, and nobody
calls it.  When `pthread_create` fails, in `rpc_listen` (`module.c:210-213`) or in the thread
callback of `location` (`location.android.c:198-207`), the process goes on without a
listener or without a reader; threads can always be made here.  `Rpc` takes every reply
for one with an array; `Marshal` has the other.  `minmea_scan` reads integers with `strtol`,
which saturates beyond the width of a long; `scan_i` wraps there too, and no sentence of the
run has such a number.  A caller keeps a pointer into a reply that has been released
(`module.c:326-328`): that, the 101st pid and the reuse of pids are listed as hazards
without a property, because they are about memory and numbers the models do not have.
