# Trust.IO: specifications, model checking and proofs

Trust.IO keeps chosen peripherals out of reach of the normal world of an ARM
TrustZone system: an access to a protected register is made by the trusted
side, and only after a remote client has approved it with an encrypted answer
to an encrypted challenge. The repository holds two implementations, and this
directory specifies the parts of both that are hard to get right: what happens
when accesses nest, when buttons, closed connections and answers in pieces get
in between, how the threads of the trusted OS, of its Linux driver and of its
supplicant share their work, and what becomes of files, sessions, memory,
descriptors and the protected pin while any of them fails or is started again.

Contents: [inventory](#inventory), [modules](#modules), [runs](#runs),
[fairness](#fairness), [proofs](#proofs), [findings](#findings),
[limits](#what-is-only-model-checked-and-what-is-not-modelled),
[plan](#plan), [usage](#usage).

## Inventory

### A. The bare-metal board (`software/net_project`, Zynq)

| Component | State | Operations | Who it talks to |
|---|---|---|---|
| Network application: `main.c`, `echo.c` | `tpcb_global`, the receive callback of each connection, `ns_challenge`, `crypto_response` | `recv_callback`, `crypto_callback`, `crypto_request`, accept and the main loop | lwIP (external), the client over TCP, the monitor through a trapped access |
| Monitor: `secure_world/src/interrupts.c`, `monitor.S` | `challenge`, `counter`, `key`, `ctx`, `AES_initialized`, `updating_key`; one stack frame for each access in progress | data-abort entry, `get_crypto_challenge`, call to `crypto_request`, `check_response`, the access | the application (an upcall), the register, the button |
| Client: `python/trust_io.py` | the AES object, the command it waits for | `send_cmd_trustio`, key exchange, `close` | the board over TCP |

Hard here: the board has one thread, but `crypto_request` receives while it
waits, so a command of another connection runs *inside* the access that waits
and both use one challenge, one `ns_challenge` and one `crypto_response`; the
button replaces a challenge by a key exchange; TCP delivers answers in pieces;
the two ends chain their messages and must stay in step.
Correct means: an access is made only if a client approved exactly that access,
once; a read returns a current value; after whatever happened the two ends are
in step; every command ends if its client answers.

### B. OP-TEE on HiKey (`optee`)

| Component | State | Operations | Who it talks to |
|---|---|---|---|
| Trusted threads: `optee_os/.../kernel/thread.c`, `tee/entry_std.c` | `threads[]` (state, flags, guest, registers, argument buffer), `curr_thread` of each CPU, `thread_prealloc_rpc_cache` | a standard SMC, a resume, RPCs, foreign interrupts, the end of a call, the two switches of the cache | the driver, through SMCs |
| Trust.IO handlers: `entry_std.c`, `plat-hikey/trustio_test.c` | the pin | `trustio_handle_challenge_req`, `trustio_handle_gpio_on` | the supplicant, through an RPC |
| Driver, call queue: `drivers/tee/optee/call.c` | `call_queue.waiters`, the waiter of each call, its completion | the call loops, `optee_cq_*`, `optee_enable_shm_cache`, `optee_disable_shm_cache` | the trusted OS, `optee_handle_rpc` |
| Driver, wait queue: `rpc.c` | `wait_queue.db` and its entries | `wq_sleep`, `wq_wakeup` | the call loops |
| Driver, RPCs: `rpc.c` | the references the driver holds to memory of tee-supplicant | requests for tee-supplicant, `cmd_alloc_suppl`, `cmd_free_suppl`, time, wait | tee-supplicant, the call loops |
| Driver, devices: `core.c` | the two devices, `supp.ctx`, `trustio_glob_ctx` | probe, remove, open, release | user space |
| Driver, sessions: `call.c` | the session list of a context | open, close, invoke, cancel | user space |
| GPIO sysfs: `drivers/gpio/gpiolib-sysfs.c` | the exported pins | export, unexport, `value_show`, `value_store` | `trustio_tz_call` for the protected pin |
| tee-supplicant: `tee_supplicant.c` | `num_waiters`, `abort`, its threads, its shared memory | `process_one_request`, `spawn_thread`, `thread_main` | the driver, the sockets |
| tee-supplicant sockets: `tee_socket.c` | the handle databases | open, close, send, receive, `trustio_network_call` | the answering server |

Hard here: three thread pools lie on top of each other. Callers in the driver
compete for the threads of the trusted OS; these stop in RPCs for an unbounded
time, to wait for each other or for a remote client; the supplicant must always
have a thread left to serve the next request. Locks are released before the
decisive assignment in several places (`thread_global_lock`,
`wait_queue.mu`, the queue's completion, the tables of tee-supplicant, the
session list, `sysfs_lock`). tee-supplicant may end and be started again in the
middle of a request, while the driver holds memory it allocated; the answering
server may end for good.
Correct means: a trusted thread works for one CPU and one guest; buffers,
sessions, descriptors and pieces of memory each have one owner and are neither
lost nor given back twice; no wake-up is lost; the pin changes only when an
access the server answered is performed; nobody waits for ever when everybody
does their part.

Everything else in the repository (the AES cipher, boot loader, generated
board support and hardware, measurement scripts) is listed with its reason
in `PROJECT.json` under `components`.

## Modules

| Module | Models | Composition |
|---|---|---|
| `ProtectedRegister` | what Trust.IO promises of the register on the board: it changes only when a granted access is performed, a grant serves once, a read returns what is there | abstract specification |
| `TrustIO` | the whole bare-metal system: clients, network, application, monitor | one module, as the application and the monitor run on one stack; implements `ProtectedRegister` (checked and proved) |
| `ThreadPool` | what the trusted threads promise: a call has a thread of its own, buffers come and go with calls, the cache is switched when no call runs | abstract specification |
| `SecThreads` | `thread.c`, and of `entry_std.c` what reaches the pool | implements `ThreadPool` (checked and proved) |
| `CallQueue` | the call loops and `optee_cq_*` of `call.c` | uses the actions of `ThreadPool` as its secure world |
| `WaitQueue` | `wq_*` of `rpc.c` | on its own, the trusted OS is external |
| `Supplicant` | the threads of tee-supplicant | on its own, the driver's request queue is external |
| `ProtectedPin` | what Trust.IO promises of the pin: an access is asked for, approved, and then performed once or refused | abstract specification |
| `TrustIOPin` | one access on HiKey: `trustio_tz_call` / `trustio_tz_read_call`, the two handlers, `trustio_network_call`, the answering server | implements `ProtectedPin` |
| `GpioSysfs` | `export_store`, `unexport_store`, `value_show`, `value_store` | extends `TrustIOPin`: the files reach the pin through its accesses |
| `OpteeDevice` | files and contexts (`core.c`), sessions (`call.c`) | the driver without its RPCs |
| `SuppTables` | the shared memory and the sockets of tee-supplicant, with their descriptors | parameterised by who makes the requests |
| `OpteeRpc` | the requests the secure world makes while a call is in it (`rpc.c`) | composes `OpteeDevice` with an instance of `SuppTables` |
| `MC*` | instances for TLC | |
| `*_proofs` | theorems | extend their module; `OpteeRpcTables_proofs` extends `OpteeRpc_proofs` |

**TrustIO.** A client is in `send_cmd_trustio` (`cpc`), with the command it
sent and the `verify_tuple` it expects (`want`). The network is a sequence of
segments for each direction of each connection; TCP neither loses nor reorders
them, but an answer may arrive as two segments. The board's `stack` holds the
accesses in progress; only the top one runs, and it receives (`Recv...`) only in
the loop of `crypto_request` (`Polling`). An AES block is a record: the key, the
block it is chained to, and what it carries; it decrypts to its content with the
same key and after the same block and to `Garbage` otherwise. This is what CBC
gives, and it is exactly what the two ends must agree on. A history variable
records what the clients approved and what was performed.
The command's steps are `CryptoRequest` (send, hijack the callback),
`CryptoResponse` (the loop ends), `GetCryptoChallenge`, `CheckResponse` (the end
of the abort handler: compare, access) and `Reply`. Left out: the baseline
build without a challenge, timing builds, the freshness counter that is only
printed, reuse of a closed connection's memory, and the writes of the
application to other registers.

**SecThreads.** Each SMC is split where the code releases
`thread_global_lock`: `AllocThread` / `StartThread` for
`thread_alloc_and_run`, `ResumeFromRpc` / `ResumeThread` for
`thread_resume_from_rpc`; the steps of a running thread follow the code of
`thread_rpc_cmd`, `get_rpc_arg` and `__thread_std_smc_entry`. The driver is
modelled as far as the pool can tell: a driver resumes a thread only when the RPC
is served, but a guest may name any thread number. `rpc_arg` and `rpc_carg` are
one variable (`carg`), as the code sets and clears them together; `rpc_mobj` is one
of its own (`mobj`), as the code does not.

**CallQueue.** A caller's `pc` follows the loop of
`optee_do_call_with_arg`. `wait_for_completion` and the critical section after
it are separate steps (`WaitForCompletion`, `MoveToEnd`), because the completion
and the flag `completed` are set together but cleared apart. A caller begins as
many operations as it likes, so it may come again and take the thread for which
another was woken.

**WaitQueue.** `wq_entry_get` is one step, as it holds the mutex; `complete`,
`list_del` and `kfree` are steps of their own. Memory is explicit (`owner`), so a
use after free is a state one can see.

**Supplicant.** Each change of `num_waiters` is a step of its own, as each is a
critical section of its own. Each call may fail. A request in `Stuck` may never
end: that is Trust.IO's `trustio_network_call`, or a request whose answer needs
another request first.

**TrustIOPin, GpioSysfs.** The challenge is a constant that is encrypted
under a constant key and initial vector, so a block is the word it carries: a
whole block decrypts to its word, one that was half overwritten to `Garbage`.
Each step of an access that may fail has a second disjunct in which it does
(`Trouble` records it), and goes on exactly as the code does: the handlers look at
the buffer whether or not the network call succeeded. The server is a script
that serves one connection after the other and ends with an exception when it
reads less than a block (`ServerDies`); then no later access can connect. The sysfs
operations are split where `export_store` and `unexport_store` leave
`sysfs_lock`, and where an access holds the mutex of the pin for as long as
the server takes.

**OpteeDevice.** `Open` follows `optee_open` with the nested open of
`trustio_glob_ctx`: the test and the mark of `is_trustio_glob_init` are separate
steps, as no lock is held, and the nested open may fail. A worker looks a session up under the mutex and
uses it after it (`UseSession`, `SessionUsed`); the history variables `overtaken`
and `lost` mark the two cases in which the code promises nothing, an invocation
whose session another thread closed, and a session that could not be closed for
want of memory.

**SuppTables, OpteeRpc.** One thread of tee-supplicant serves a request of
one worker. Steps end where `shm_mutex` or `sock_mutex` is released and at each
system call that opens or closes a descriptor: the kernel gives a new file the
lowest number that is not open, so a number may come back at once.
`tee_socket_close_all` keeps `sock_mutex` over several such calls: `CloseAll` closes
one descriptor a step, and other threads open theirs in between. `ProcessEnds`
takes all tables away, refuses what was not answered, and leaves the
driver with the memory it holds; the next process starts with empty tables.
Memory that the driver holds across a restart (`old`), or an identifier answered
before one, may name new memory of another call afterwards, which the code cannot
tell (`rpc.c:205`, `281`). The history `mixed` has the calls whose memory may be
mixed up so, and those whose memory they took; the model goes on after it, and
what `MemoryIsOwn` says it says of all other calls.
`MapFails` reads the descriptor from the structure just freed
(`tee_supplicant.c:311`), which may be any number, and `spoilt` becomes true when
it closes one that belongs to somebody else. Only after that is nothing claimed
(`CONSTRAINT Unspoilt`).

## Runs

| Run | Instance | What it shows |
|---|---|---|
| `trustio_one` | one client, two commands, the button | the two ends stay in step through a change of the key, what was approved is performed, and commands end |
| `trustio_two` | two clients, one command each, every event but the button before the first challenge | types; nested accesses, changes of the key, answers in pieces, full buffers and closed connections: no access without its own approval; the board implements `ProtectedRegister`, so reads are current and an approval serves once |
| `trustio_callback`, `trustio_first` | the smallest instance each | two findings, see below |
| `threads` | two threads, two CPUs, two guests, two buffers | ownership, isolation, buffers and the cache; the pool implements `ThreadPool` |
| `threads_mobj` | the same | a finding |
| `threads_trustio` | the same with Trust.IO commands | a finding |
| `callqueue` | three callers, two threads, all operations, as many as they like | no lost wake-up; each free thread beside a sleeper is owed to somebody; queue and completions agree; an operation ends unless others overtake it for ever (and then it is woken again and again) or a call never returns |
| `waitqueue` | two trusted threads, two waits each, three wakers, three entries, allocations may fail | a key is at most once on the list; until an allocation fails: no use after free, nothing left behind, marked threads wake |
| `supplicant` | three requests, two of which may not end, four threads, any call may fail | there is always a thread for the next request |
| `gpio` | three users, two accesses with the values 0 and 2, two exports, every failure on the way to the server | an access is performed only if the server answered it; data is not used after it was freed; reads are current; exports are whole; nobody blocks another for ever |
| `rpc` | two workers, a client, two files of tee-supplicant, one session, two pieces of memory, two descriptors, two handles | tee-supplicant keeps its place; a session is closed once and none is forgotten; memory, handles and descriptors have one owner each, while tee-supplicant ends and is started again, with memory mixed up by that and after it |

*Bounds.* Two CPUs, guests and threads are the least in which a scan,
a resume and a switch of the cache interleave; a third thread only repeats the
scan. Three callers over two threads are the least where one sleeps while two run,
and two may sleep while a switch of the cache waits for all threads. In `TrustIO` nesting
needs two connections, and a third would nest as the second does; the counter,
the keys and the chain grow with each challenge and are bounded by
`MaxCommands`. Two commands of one client show every state a chain can be in
before and after an exchange of keys. In `WaitQueue` two waits of the same
thread let a late waker of the first meet the second. In `Supplicant` the
threads suffice for every request to start one (`Threads` is one more than
`Requests`), so the bound never stops a `pthread_create`.
In `gpio` three users are an export or unexport, an access that waits for
the server and a second access that waits for the first; `Values` has a zero and
a number that is not a bit, which `write_to_trustio_pin` turns into 1. In `rpc`
two workers interleave two requests, a request and a release, or a release and
a process that is started again; with two descriptors and two identifiers each
number comes back while the other is in hand. One client and one session number
keep the instance small (788,947 states; with a second client it does not end in
reasonable time): a number that is given out again is then always given to the
same file. What the run tests of sessions is therefore that one is closed once and
not forgotten; the case in which another file gets the number is left to the
theorems `SessionsClosedOnce`, `InvocationsReachOwn` and `NoSessionForgotten`.
The theorems below remove the bounds for the properties they state.

*Deadlock* is checked in the runs of `SecThreads` and `OpteeRpc`. It is off in the
other runs because there the system comes to rest when every caller, client or
request has used up its bound, and in `trustio_two` because the board waits for a
client that has gone.

## Fairness

- `TrustIO`: weak fairness of the board, which is one loop, and of each client,
  which is a script. Nothing is assumed about events. `CommandsFinish` is
  checked with the button but without closed connections: a client that leaves
  while its access waits does stop the board (a hazard, with its note).
- `CallQueue`: the scheduler runs each caller that can run (weak), as far as the
  driver is concerned. That an RPC is served, or that a call ever returns from the
  secure world, is not assumed: a network call of Trust.IO may take for ever.
  `OperationsEnd` names what is left open: an operation may be overtaken for ever
  by callers that keep ending others, and then it is woken again and again; and
  when a call never returns and no operation ends any more, a caller may sleep for
  good.
- `WaitQueue`: each call goes on. When a thread is marked is up to the trusted OS
  and not assumed.
- `Supplicant`: each thread is scheduled, and the requests outside `Stuck` are
  served. Requests in `Stuck` may stay for ever.
- `GpioSysfs` and `OpteeRpc` state no fairness. That the operations on the files
  do not block each other is the invariant `NobodyStuck` instead: whenever somebody
  waits, for the lock, the mutex or the end of an access, somebody can go on
  (`GoesOn` spells out the guards, and the invariant asks that the step is
  `ENABLED` besides). The
  exception is a panic of OP-TEE, after which an access never returns. It
  needs no assumption on the remote server, which the code cannot make either.

## Proofs

Every theorem holds for every value of the constants that satisfies the
`ASSUME` of its module, which TLC evaluates in the runs.

| Theorems | State | Argument |
|---|---|---|
| `SecThreads_proofs!Typing`, `Ownership`, `Isolation`, `InterruptSafety` | `TypeOK`, `ThreadOwnership`, `GuestIsolation`, `InterruptKeepsRegisters` | `CoreInv` (an SMC in progress fits its CPU) makes ownership inductive; `GuestInv` adds who a thread was taken for; `RpcInv` says which RPC a suspended thread waits for |
| `ResumesAccepted` | `OwnResumesAccepted`: a driver that answers the RPC of its own call is never told `ERESUME` | `RpcInv` and `GuestInv`: the thread is suspended, for this guest, and waits for this reply |
| `StandardCommandsGiveBack` | `StandardCommandsClean`, for any commands: with caching off only a Trust.IO or bad command leaves a buffer with a `FREE` thread | `LeftInv`: a thread that is through with its command and still has a buffer was through with a Trust.IO or bad command; a standard command goes through the test of the cache before it is done |
| `PoolInvariant`, `NothingCached` | `IndInv`, `NothingCachedWhenDisabled`, if `Commands \subseteq {"std", "bad"}` | `ContInv` and `CacheInv` say where in its command a thread is and whether its buffer may stay; Trust.IO's commands are excluded because with them the property is false: `threads_trustio` is the finding |
| `NoWildBuffers`, `BuffersAreOwned`, `BuffersKept` | `BuffersAccountedFor`, `BuffersNotShared`, and with `MappedWhileUsed` `BuffersOwned`, for any commands. It is about the buffers and their mapping while they are used, not about the pointer `rpc_mobj` that is left behind (`threads_mobj`) | `Shared` (a buffer has one holder), `RpcKinds` (the buffer of an RPC fits its kind) and `Settled` (a `FREE` thread holds no buffer but the cached one) are inductive together |
| `PoolImplemented` | `Spec => ImplementsThreadPool`, for any commands | who owns a thread follows from its state and its guest, the cached buffers from `rpc_carg`; with `ContInv` each step is one of `ThreadPool` or leaves both alone |
| `CallQueue_proofs!NoCompletionLost`, `QueueTyped`, `QueueOfCalls`, `CompletionCounted`, `ThreadsOfCalls` | `NoLostWakeup`, `TypeOK`, `QueueMatchesCalls`, `CompletionAgrees`, `OneThreadPerCall` | the invariant is that queue, calls, completions and threads agree: if all slept, then a thread would be taken, hence by a caller that is not asleep |
| `CallQueue_proofs!CompletionsInOrder`, `SleepersCovered`, `ThreadsAreOwed` | `InOrder`, `HasOp /\ Covered`, `FreeThreadsOwed`, for finitely many callers, calls and cache switches together | by counting, for each call that sleeps: the free threads are at most the callers about to take one, those about to leave and the completions on their way to callers that will use them or hand them on. Completions are given out in the order of the queue (`InOrder`), and a switch that used one up joins again behind all sleepers; so it cannot be the only one that knows of a free thread. A completion may be on its way to a caller still inside the secure world, so a thread may idle until that one leaves |
| `TrustIO_proofs!Typing`, `AlwaysApproval`, `Approval`, `CurrentReads` | `TypeOK`, `ApprovalInv`, `AccessesApproved`, `ReadsAreCurrent` | `ApprovalInv`: a block with an odd counter is an answer some client vouched for; counters only grow; what lies in `ns_challenge` while an access waits fits the last challenge or can only be refused |
| `TrustIO_proofs!Protection` | `Spec => ImplementsProtectedRegister`, for any number of clients | only `CheckResponse` changes the register and only an answer grants; by `ApprovalInv` what is performed was granted and not performed before, and a read was granted with the value that is still there |
| `TrustIO_proofs!AlwaysInStep`, `ChainsStayTogether`, `ApprovedArePerformed`, `KeysStayEqual` | `InStep \/ Surplus`, `ChainsAgree`, `ApprovalsTakeEffect`, `KeysAgree`, for one client and the events `button`, `close` and `split` | `InStep` is the list of the phases of a command (sent, challenged, key changed, answered, performed, replied): in each it says what lies on the connection, where the client and the board stand and how far each chain is; so the ends agree whenever they are at rest. An answer in two pieces breaks this off, and from then on `Surplus` holds: both ends return one message for each that they receive, so the message too many never goes away and the ends are not at rest again before the connection is closed |
| `TrustIO_proofs!NoMutualWait` | `NeverBothWait`, for one client and the events `button`, `close` and `split` | in each phase of `InStep`, and in `Surplus` too, a message is under way, the board can act, or the client can (`TurnInStep`, `TurnInSurplus`) |
| `TrustIO_proofs!CommandsAdvance` | the action property `CommandAdvances`, and `Rank(c) \in 0 .. 20`, for one client and the events `button` and `close` | `Rank` counts the steps that a command has left, by the phase of `InStep` it is in; an exchange of the key adds its steps before it begins, and no step leads to an earlier phase |
| `TrustIO_proofs!OnlyWantedOperations` | `OperationsPermitted`, for any number of clients | `OperationsChecked`: a client answers a challenge only for the operation it asked for, and by `AccessesApproved` what is performed was approved |
| `TrustIO_proofs!CallbackOfOneClient` | `CallbackRestored`, for one client and any events | `Unnested`: the stack has one access at most, and the callback is hijacked only while it waits |
| `WaitQueue_proofs!QueueAgrees`, `EntriesLive`, `WaitTyped`, `MeetAtOneEntry`, `AllGivenBack` | `QueueInv`, `HeldEntriesLive`, `TypeOK`, `OneEntryPerKey`, `NothingLeft` (the first two and the last speak of runs in which no allocation has failed) | `QueueInv`: one wake-up for each wait, and only it completes the entry; so the sleeper cannot be awake while a waker still holds the entry. `EntryInv`: an entry on the list is found under its key, so there is none besides it; it survives failed allocations |
| `WaitQueue_proofs!NoWakeupLost` | `MarkedSleepersWoken`, as long as no allocation fails | `WakeupComing`: for a marked thread that has not come back an entry of its key is completed, or a waker is on its way for it; `QueueInv` says that this entry is the one the sleeper holds |
| `WaitQueue_proofs!NoSecondSleep` | the action property `MarkedComeBack`, whatever fails | `OutWhenNone`: a thread has a request exactly while it is on its way through `wq_sleep`; so a new wait begins only after the last is over, and the steps of a sleeper lead out |
| `Supplicant_proofs!SupplicantTyped`, `Listens`, `Waiters` | `TypeOK`, `SomeoneListens`, `WaitersCounted` | the count is exact until something fails; so a thread that does not see itself as the last leaves another one behind |
| `GpioSysfs_proofs!Typing`, `DataStaysAlive`, `ReadsShowThePin`, `WholeExports`, `OnlyTroubleRefuses` | `TypeOK`, `DataAlive`, `ShownIsCurrent`, `ExportsAreWhole`, `UntroubledArePerformed` | one invariant for the way of a word (a buffer holds the challenge, its answer or `Garbage`; the answer only if the server gave it) and one for the files (who is active holds the device, the mutex of live data, or waits) |
| `GpioSysfs_proofs!SomebodyGoesOn` | `Busy => \E u : GoesOn(u)`, the guards of `NobodyStuck` | `MutexesHeld`: a mutex that is taken is held by a user inside the access; so whoever waits for the lock waits for an export or unexport that waits for accesses, and those for one whose next step waits for nothing |
| `GpioSysfs_proofs!Protection` | `Spec => ImplementsProtectedPin` | from that invariant each step is one of `ProtectedPin` or leaves its variables alone |
| `OpteeRpc_proofs!PlaceKept`, `NoSessionForgotten`, `SessionsClosedOnce`, `InvocationsReachOwn` | `SupplicantKeepsPlace`, `SessionsAccounted`, `ClosesOwn`, `ReachesOwn` (this one of invocations that no close overtook) | `DeviceInv`: a listed session is open for the file that lists it, one that is not listed is in the hands of one worker, and a worker keeps its file open |
| `OpteeRpcTables_proofs!DescriptorsOwned`, `PiecesListedOnce`, `CallsHaveOwnMemory`, `AnswersInOwnBuffer`, `RpcTyped` | `OwnedOnce`, `IdsOnce`, `PiecesOwn`, `BufferIsOwn`, `TypeOK`; `TablesKept` and `MemoryKept` join them in pairs as `TablesHold` and `MemoryIsOwn` | `TablesBase` (a request fits its place; requests on one handle keep apart) always; until `spoilt`, `FdsOk` (one owner per open descriptor, one descriptor per identifier) and `PiecesOk` (memory of a call is in the list for it, and `Alone`: no other call holds the identifier it claims), of the calls that are not in `mixed` |

The invariants are needed because none of the properties is inductive:
`AccessesApproved` says nothing of an answer that is still on its way,
`HeldEntriesLive` nothing of a second waker, `SomeoneListens` nothing of the
counter that the code decides by, `ClosesOwn` nothing of the list a session is taken
from. The runs check the properties, not these invariants: the proofs show the
invariants for every instance, and with them the properties.

## Findings

Each is a run that TLC finds violated, with the line it contradicts.

1. `trustio_callback`: after nested commands `crypto_request` sets back the
   callback of the wrong connection (`main.c:231`); the outer connection takes
   no command any more. Alone, a client always gets its callback back
   (`CallbackOfOneClient`).
2. `trustio_first`: the button at the very first access makes the monitor
   decrypt the new key with a context that was never set up
   (`interrupts.c:234`). After the first challenge the keys stay equal
   (`KeysStayEqual`, for one client).
3. `threads_mobj`: switching the cache off frees the object that maps a cached
   buffer and leaves `rpc_mobj` pointing at it (`thread.c:1226`); while caching is
   off, the next standard command on that thread that makes no RPC frees it once
   more (`thread.c:607-612`). The buffers themselves are each given back once
   (`BuffersKept`).
4. `threads_trustio`: a Trust.IO command leaves its argument buffer with the
   thread although caching is off (`entry_std.c:434`). Standard commands do
   not (`StandardCommandsGiveBack`).

Two things seen in the code have no run of their own. `trust_io.py:145` approves a
write of any value, although the comment at line 139 says "Let's make sure it's
permitted": one look at the `else` shows it. The operation it does compare
(`OnlyWantedOperations`). And the path `bad` of `get_rpc_arg`
(`thread.c:1347-1349`) gives the buffer back but does not free the object made for
it; that leaves no pointer, and memory that nobody has is not in the model.

## What is only model-checked, and what is not modelled

*Only model-checked*: the liveness properties (`CommandsFinish`,
`OperationsEnd`, `MarkedThreadsWake`, `RequestsServed`), as liveness under
fairness is beyond TLAPS here. The safety they rest on is proved: for
`CommandsFinish`, with one client, `NoMutualWait` and `CommandsAdvance`; for
`MarkedThreadsWake` `NoWakeupLost` and `NoSecondSleep`, so that in these two only
fairness is added; for `OperationsEnd` that no sleeper is left without a wake-up
(`SleepersCovered`, `NoCompletionLost`) and for `RequestsServed` that somebody listens
(`Listens`). Also only model-checked is the part of `NobodyStuck` that speaks of
what can happen next (`ENABLED`), as opposed to the guards, which are proved
(`SomebodyGoesOn`).
`ChainsAgree` and `ApprovalsTakeEffect` are proved for one client, for any number of
commands. They are not claimed of more clients, nor of the button at the very
first access or of full send buffers together with other events: there one or
the other is false of the code.

*Not modelled*, and why:

- The time that `poll_with_timeout` has left (`tee_socket.c:397`). A send or
  receive either succeeds or gives up at a moment of its choice (`Send`, `Recv`); the
  arithmetic on the clock is left out. Its timeout may become negative, which `poll`
  takes for none; a network call that never ends is in `Supplicant` (`Stuck`).
- `optee_probe` and `optee_remove`: in `OpteeDevice` the devices are
  opened after the first and never removed; of the second, the switch of the cache
  is in `SecThreads` and `CallQueue`. That they are registered before
  the queues are initialised (`core.c:523`) has no witness in this system.
- `register_local_shm` of tee-supplicant: the driver does not offer
  `TEE_GEN_CAP_REG_MEM`, so it is never called.
- A handle that is no longer known after a restart makes tee-supplicant abort
  (`tee_socket.c:103`): for the driver that is `ProcessEnds`. The secure world
  of `OpteeRpc` asks only for handles it has been given by the same process.
- If a client opens its device before tee-supplicant starts, Trust.IO's
  context takes the supplicant's place and tee-supplicant gets `EBUSY` for good. The
  model does this (`OpenNested`); no line of the repository claims otherwise, so it
  is a hazard with its note and not a finding.
- The direction, edge and polarity files of GPIO sysfs and the removal of a chip;
  the baseline and timing builds of the board; the loading of trusted
  applications and the file requests of tee-supplicant (external library code).
- The AES cipher, lwIP and the Linux kernel below the driver (external),
  generated and vendored code, measurement. These are nearly all of the lines of the
  repository: its own logic is a few thousand, and the specifications cover
  most of those that keep state.

*External code* is modelled from its use: lwIP's callbacks in `TrustIO`, the
exit for a foreign interrupt in `SecThreads`, the trusted OS's wait queue in
`WaitQueue`, the driver's request queue `supp.c` in `Supplicant` and `OpteeRpc`,
the handle database `handle.h` and the kernel's descriptors and identifiers in
`SuppTables`, the socket services of the trusted OS (which requests they make, and
that they do not close a handle that is in use) in `OpteeRpc`, the TEE core of
Linux (a file is released when nobody is in a call on it) in `OpteeDevice`, and
sysfs itself (a device stays while one of its files is being used) in
`GpioSysfs`.

## Plan

Done, in this order: `ThreadPool`, `SecThreads`, `CallQueue`, `TrustIO`,
`WaitQueue`, `Supplicant`, then `ProtectedRegister`, `ProtectedPin`, `TrustIOPin`, `GpioSysfs`,
`OpteeDevice`, `SuppTables`, `OpteeRpc`, each with its run and its theorems. What is
left:

1. Larger instances of `rpc` with two clients and two sessions, by simulation or on
   a larger machine.
2. The direction and edge files of GPIO sysfs.

## Usage

    tlc -config TrustIOTwo.cfg MCTrustIO     # a run: PROJECT.json lists them
    tlapm TrustIO_proofs.tla                 # the proofs of a module
