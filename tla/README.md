# Verification of the SPRD vendor daemons

TLA+ models, TLC runs and TLAPS proofs for the native daemons of this vendor tree. The tree
holds 2128 files; most of it is hardware abstraction (camera, audio, graphics), third-party
code (Mali, dhcp6, radvd) or user interface. The logic that is the vendor's own, concurrent,
persistent and hard to test sits in a few daemons around the modem processor (CP) and in the
message threads of the camera. Modelled here: the NV daemon `cp_diskserver`
(`src/apps/nvitem`), completely; of `modemd` the threads that watch the internal modems and the
table of clients; of `wcnd` the CP2 state machine with the threads around it; and the camera's
message queue. What is left is in sections 5 and 6.

## 1. Inventory

| Component | State | Operations | Hard because |
|---|---|---|---|
| `apps/nvitem` (cp_diskserver) | two image files per partition; three RAM buffers with dirty tables; mutex and condition; packet and analyzer state | receive packets, mark, write, commit, restore, save, read at start-up | two threads, kills and power cuts during a rewrite, lost packets, failing calls |
| `apps/modemd` | state per modem, client table, name buffers | load image, detect assert / blocked / hangup, notify clients, start and stop services | a dozen threads on shared globals, condition waits, external resets |
| `apps/wcnd` | CP2 state machine, pending events, clients, BT/Wi-Fi bits | open, close, start, stop, assert, reset, loop-check | commands to itself over a socket, reset thread, timeouts |
| `apps/modem_control` | external modem's state, boot state, crc packets | power, boot download, alive and reset handling | retries against a peer, threads, GPIO events |
| `apps/refnotify` | RF and time channels | forward requests | blocking I/O |
| `tools/slogmodem` | log files and directories, sizes, clients, CP states | rotate, collect dump, client requests | one event loop, limits, partial writes |
| `libs/libcamera/common` (cmr_msg) | ring of slots, a counting semaphore, a semaphore per slot | create, send (three kinds of waiting), receive, destroy | ring full, a slot's flag read after the unlock, the end of the thread |

Everything else is listed in `PROJECT.json` with the reason why it is left out (pure I/O,
third-party, tables, user interface).

**How the parts interact.** init starts modemd; modemd loads the modem image, starts
`cp_diskserver_*` for each modem and stops it (`ctl.stop`, a SIGTERM or SIGKILL at any moment) before a
reload. It learns of a modem's trouble from two sides, the modem's devices and the phone server.
The modem sends its changed NV sectors to cp_diskserver over an spipe and is told
yes or no for each packet. The NV files written here are what modemd loads for the modem at
the next boot. slogmodem and wcnd listen to modemd's sockets for modem state changes.

**What makes the NV daemon right.**
 - A partition survives one fault of any kind (kill, power cut, failed write) at any point.
 - What reaches the files is always one snapshot that was committed: never a mix of two
   commits and never part of a request that was cut off.
 - A commit the modem was told about is either on disk or remembered as dirty.
 - Lost, repeated and abandoned packets and a failing channel never change what is committed.

**What makes modemd right.** A modem that asserts, is reset or is found blocked is loaded again
and becomes READY, its clients hear of both, the thread that waits for READY is woken, the
wake lock is released; the client table lists exactly the open connections, so nobody misses
the news and nobody else is hung up on.

**What makes wcnd right.** The machine waits in STARTING or STOPPING only for a command that is
on its way (which needs that no command is lost: section 3), each request of a service is answered, a service that was told OK holds CP2, and a
CP2 that stops answering is noticed even when it says nothing.

**What makes the camera queue right.** Each accepted message is processed once, in order; the
two counters (semaphore and msg_number) agree; a synchronous sender returns when, and only
when, its message has got as far as it asked for; the queue is freed after its last use.

## 2. Modules

| Module | Models | Uses |
|---|---|---|
| `NvDisk` | `nvitem_fs.c`: `ramDisk_Read`, `ramDisk_Write`, kills and power cuts | |
| `NvDisk_proofs` | theorems about `NvDisk` | `NvDisk` |
| `NvBuf` | `nvitem_buf.c`, `nvitem_os.c`, `pSaveTask`: buffers and threads | |
| `NvBuf_proofs` | theorems about `NvBuf` | `NvBuf` |
| `NvSync` | `nvitem_packet.c`, `nvitem_sync.c`, main's loop; the modem is external | |
| `NvSync_proofs` | theorems about `NvSync` | `NvSync` |
| `NvStore` | abstract specification: one snapshot, replaced atomically | |
| `NvServer` | the daemon: `NvBuf` over `NvDisk`, start-up to restart | `NvBuf`, `NvDisk`, `NvStore` |
| `NvServer_proofs` | theorems about `NvServer`, the refinement of `NvStore` among them | `NvServer`, `NvBuf_proofs`, `NvDisk_proofs` |
| `WcnSm` | `wcnd_sm.c` and the threads of `wcnd.c` | |
| `WcnSm_proofs` | theorems about `WcnSm` | `WcnSm` |
| `ModemD` | `modemd_sipc.c`: detection threads, stop, load, restart | |
| `ModemD_proofs` | theorems about `ModemD` | `ModemD` |
| `ModemClients` | `client_fd`: the accept thread, `loop_info_sockclients`, `detect_clients_dispose_state` | |
| `ModemClients_proofs` | theorems about `ModemClients` | `ModemClients` |
| `CmrQueue` | abstract specification: a bounded first-in first-out queue with one worker | |
| `CmrMsg` | `cmr_msg.c`: ring, semaphores, thread routine, creation and end | `CmrQueue` |
| `CmrMsg_proofs` | theorems about `CmrMsg`, the refinement of `CmrQueue` among them | `CmrMsg` |
| `MC*` | values of the constants for TLC | |

Definitions called `X_Something` with a comment "Variant: ..." are forms of `X` with a
plausible mistake in it. No specification uses them; each is paired in `PROJECT.json` with
the property that fails when it stands in for `X`, which shows that the property depends on
that piece of code.

### NvDisk
A file is one of missing, short, torn (wrong checksum), good(contents): what `ramDisk_Read`
can tell apart. `image` is the file as the kernel shows it, `stable` what the last successful
fsync made durable, `unsynced` the files between truncation and fsync. One action per system
call, each with its failure; `pc` walks through the two functions. Read: `ReadBegin` (random
first file), `ReadFirstGood` / `ReadFirstBad`, `ReadSecond` (every outcome of lines 299-320,
with the stale `ret2`), `FixOpen`, `FixWrite`, `FixSync`. Write: for backup and then origin,
`WriteOpen`, `WriteHead`, `WriteBody`, `WriteSync`, moving on by `NextFile`. `Kill` keeps the
kernel's view; after `PowerLoss` an unsynced file may be its old durable contents, its new
ones, short or torn. `silent` and `faults` are history: the files a call left alone without
reporting it, and the number of faults since both copies were good (capped at 2, because the
promises are about none and one). `BlankPassesEcc` says whether an image of 0xFF bytes
matches a zeroed header; it does for the 0x20000-byte partition in the source's own table
(with 32-bit `unsigned long`), so the runs use TRUE and the proofs cover both.

### NvBuf
`fromChannel`, `backup` and `toDisk` per partition, each with data and dirty table. memcpy is
one step per sector under the mutex, so a missing lock is visible
from two sectors on (run `buffers_sectors`; in the proofs, `LockInv`). The checksum of a RAM
buffer always changes with its data; `ChkNVBufEcc` can fail only when RAM is damaged and then
crashes the kernel, which is left out. `Request`, `markDirtyInfo`, `writeData`, `Tail` and
`Cut` are what `nvitem_sync.c` does to the buffers in any order the analyzer allows
(`NvSync` models the analyzer itself). A body of no sectors makes `_markDirtyInfo` shift by 32:
`Marks` offers both results a build may give. `giveEvent` is forgotten unless pSaveTask
waits, as pthread_cond_signal is; `SpuriousWakeup` is the return without a signal that POSIX
allows. `is_cali_mode` is read from the command line once and never changes, so `Init` leaves it open. The constant
`Spurious` holds the modes in which a return without a signal may happen; `CaliAssumption` (not in calibration
mode) is needed: there main saves by itself, and a woken pSaveTask would use `toDisk`
at the same time without a lock. `stored` and `committed` are history.

### NvSync
A request is a sequence of units, each a token or a sector of data; a packet is the stretch of the request it
carries (`from`, `to`, and whether it begins or ends inside a token, `back` and `front`), and `rest` is what is
left of it to analyze. `Deliver` is `_getPacket` and the head of `syncAnalyzer`'s loop (start, continue, refuse, skip); one
action per turn of the inner loop (`syncGetHead`, `syncGetBody`, `syncGetTail`, `syncGetData`,
`getTokenContinue`, failures), each with the response it sends or does not send.

A fragment of a token at the end of a packet is dropped, so the next read begins inside a token. `__getToken`
takes any 20 bytes there, and partition ids 1 and 2 equal the types of a body and a tail: what is read is then any of
`Misreadings`, a set of tokens with any type, reqIdx, range and partition (`Readings`; a token that is read from its
beginning, `InPlace`, is itself). From there on only "inside a unit" is known (`skew`): the packet may end anywhere and data may
be anything (`Stray`, `syncGetDataAstray`). This allows more than the bytes of one request would, never less. A body misread with a range past the end of its partition makes
`_markDirtyInfo` and `writeData` write past their arrays (`syncGetBodyOverrun`); the daemon is not followed beyond that
(`overrun`, `NotFollowed`).

`ChannelFail` is a
failed read followed by main's close, reopen, `_initPacket` and `_syncInit`. The modem (external) sends requests
from a fixed set, cuts them into packets freely, loses or repeats a packet, or gives up and starts
another group; `cpPos` and `cpBack` say where its next packet begins. `RequestsAssumption` is all that is known
of a request: a head, bodies each followed by the sectors it announces, a tail, and reqIdx that may skip. The partition may be unknown. Group numbers are taken
as fresh. `whole`, `cutSome` and `applied` are history of the group. base and work are the data of backup and
fromChannel; `backupData` and `restoreData` are atomic here because main alone changes either (NvBuf has the detail).

### NvServer and NvStore
NvServer extends NvBuf and instantiates NvDisk with the file contents being NvBuf's snapshots.
`SaveBegin` / `SaveEnd` tie saveToDisk's call of `ramDisk_Write` to its steps, `initBuf` fills the
buffers from the files, `Killed` and `PowerCut` drop the RAM state. NvStore says what the modem may
rely on: while the daemon is `up`, requests are applied to one snapshot; it may `Stop` at any moment; a
`Restart` returns a snapshot of `durable`, which grows with each commit and shrinks to the saved one and
the current one when a save has completed (`Harden`). Only while it is down and after two faults may made-up contents join
`durable` (`Wipe`; in the daemon, `MakesUp`: ramDisk_Read finds no intact copy). `ImplementsStore` is that
specification under the mapping up <- Running, current <- live.

### WcnSm
`m` is WcndManager: state, the bits of btwifi_state (`on`) and saved_btwifi_state (`saved`),
pending_events, the flags, the clients' types and the unread self commands. Each
`wcn_state_cp2_*` is a function from manager and event to manager, as `wcnd_sm_step` dispatches it; its
replies are collected in `reply`, and `Deliver` hands them out in the same step, freeing the entry of a
client that has hung up. `client_listen_thread` is `Select` (one round), `ReadClient`,
`ReadSelf` (clients first, the socket pair last), and, while it is inside a long command,
`Prepare`, `BootAttempt` (retried up to `Retries`), `BootGiveUp`, `BootAlive`, `BootDone`, `Close`;
services go on sending and the other threads go on running in between. The other threads are `Listen` and
`Exception*` (flag, test of doing_reset, self command, notice, each a step of its own),
`Loop*` (two failed probes) and `Main` (the version read at start-up). External: CP2 (`Crash` with or
without an event on its devices; booting may fail) and WcnManagerService, which answers an exception
with "wcn reset". A service has one request open at a time. `wcnd_send_selfcmd` (`wcnd.c:257`) writes no null character
and the socket pair is a stream, so `ReadSelf` takes all that is unread as one string: two commands
in it are no command, and `lost` (history) remembers them.

### ModemD
One step per access to something shared: `state` under its mutex, the static descriptors (`owner`) and
name buffers (`names`), the wake lock (one name for all threads), the stop and start files. `detect_sipc_modem` is
`SipcOpen` to `SipcSilent`, `detect_modem_blocked` is `BlkConnect` to `BlkStop`, and both run the
`Load*` steps of `load_sipc_modem_img` and `start_service`. `sel.watch` is rfds, filled once by
`SipcWatch` and cut down by every `SipcSelect`. The turns that `continue` keep the wake lock,
as in the code. `LoadTimeout` is the kernel panic after twenty seconds without "Alive": everything
starts anew; two overlapping reloads may take each other's "Alive" and end there. `Exit` is exit_modemd, after
which init starts modemd again. External: the modem (it asserts, hangs, says Alive once after a start and
Reset once after it was told 'z') and the phone server.

### ModemClients
Descriptors are numbers given out lowest first, `conn` says who is behind each one, `table` is `client_fd`
with 0 for -1. Every use of `client_fd[i]` reads it anew and is a step of its own (`Look`, `Write`, `Close`,
`Clear`), so a slot may change between them. `DisposeSelect` fills rfds and selects in one step; a select that
fails only uses up an attempt and changes nothing else. FD_ISSET(-1) is undefined: `NegIsSet` holds the
values it may return. A store behind the last slot (`DisposeClear` with `at = Slots + 1`) changes no entry; `StoresInTable`
says when it cannot happen. Each internal modem has two threads that call `loop_info_sockclients`
(`modemd.c:1072`), so there are two notifiers. `full`, `heard`, `due`, `dead` and `clash` are history (`Record`): the table has overflowed;
whom a loop has written to, and which entries were alive, or dead, at its beginning and ever since; and two threads have met at
one entry, one of them removing it while the other removes it too, has found it in use, or is about to fill it (`Meet`).

### CmrMsg and CmrQueue
`cmr_msg_post` is `PostBegin` (ori_node is read before the mutex), `PostLocked` or `PostOverflow` (the part
under the mutex), `PostSignal`, `PostCheck` (the slot's flag, after the unlock) and `PostWait`; `cmr_msg_get` and
the routine are `GetWait`, `GetTake`, `GetReceived`, `Process`, `Processed`; `Create` to `Destroyed` are the
owner's calls, each with the synchronous message it sends. Callers of cmr_thread_destroy are taken to
have stopped the other senders, as the camera's modules do. CmrQueue is what they rely on;
`ImplementsQueue` maps the ring between the two pointers to its sequence. A message is known by its number;
`lapped` records that a slot was filled while its last sender was still between the unlock and
the end of its call.

## 3. Runs

| Run | Instance | Shows |
|---|---|---|
| `image_files` | 2 contents, blank and damaged data; any number of start-ups, saves, faults | the four safety invariants of NvDisk, 74,020 states |
| `image_path_fixed` | the same | violation: the repair described in the comment is not what the code does |
| `buffers` | 2 partitions x 1 sector x 2 values, in and out of calibration mode, fair threads | no crosstalk, no forgotten commit; a woken saver saves all that is dirty; in calibration mode main copies every commit out; 367,656 states |
| `buffers_sectors` | 1 partition x 2 sectors x 2 values, both modes | no saved image mixes two commits; 688,984 states |
| `daemon_store` | 1 partition x 1 sector x 2 values; both files exist at first (missing ones are in `image_files`), in any condition | refinement of NvStore; clean means on disk, 1,851,488 states |
| `protocol` | 1 known and 1 unknown partition of 2 sectors, 7 requests, packets of up to 3 units, tokens may be cut and then read as anything, reqIdx modulo 3 | the five NvSync properties, 2,200,304 states; about an acknowledged, completed or committed group only as long as none of its tokens was cut |
| `protocol_cut_tokens` | the same, misplaced bytes always refused | violation: a cut token is dropped and acknowledged |
| `cp2_requests` | BT and Wi-Fi, 3 requests, start-up version read, boots that fail and one retry, joined self commands | the machine waits only for a command on its way or lost, requests are answered, OK means the service holds CP2; 105,846 states |
| `cp2_faults` | 1 service, 2 requests, 1 retry, 1 crash, 1 hang-up | a silent CP2 is noticed; 366,246 states |
| `modemd` | 1 modem, 2 asserts, 2 blocks, 1 hang, 1 failing step | recovery, news, wake-ups, wake lock; 194,481 states |
| `clients` | 2 slots, 3 clients, 3 descriptors, 2 notifiers, FD_ISSET(-1) either way, symmetric clients and notifiers | every client that stays is told, dead entries go; until two threads meet the table is exact and nobody is wrongly closed; 3,098,857 states |
| `camera_queue` | 3 slots, 2 senders, 4 messages between creation and end | refinement of CmrQueue, counters, synchronous sends, freeing; 259,032 states |

**Why the bounds are enough to show the cases.** Only equality of contents matters, so two
values tell old from new; two sectors make a mixed copy visible, two partitions a
wrong index (each in a run of its own, because together they are out of reach; the proofs are for every number of both). Packets of up to 3 units let
a request of 5 units be cut at every place, twice over; reqIdx modulo 3 makes it wrap within a request. `faults` is capped at 2
because the invariants distinguish none, one and more.
Three requests let one service open while the
other's close is stopping CP2, and ask again; crashes and hang-ups with both services and the start-up read are more than 19 million states, so they are in the run with one service; two asserts and two blocks let each thread's recovery be
overtaken by the other's, in either order; one client more than slots fills the table, a number
closed is given out again, and two notifiers are as many as an internal modem has; five messages through three slots wrap the ring and
meet it full. Deadlock is checked in the nvitem runs: the daemon never stops. The others say
CHECK_DEADLOCK FALSE because they do stop: when the bounded faults and requests are used up
every thread waits, and the camera thread is destroyed.

**Fairness** (`FairSpec`). Each thread that can go on eventually does (weak fairness of each of
its steps), which any scheduler gives. Taking the mutex in `Wakeup` and
`getDataLock` has strong fairness: main holds it for one memcpy per request and then blocks on
the modem, so a thread that keeps asking finds it free. Nothing is assumed of the modem, of
signals, or of wakeups without a signal. In WcnSm, ModemD and CmrMsg every thread has weak fairness as a
whole. WcnManagerService answers the exceptions it is told of, and a modem told to reset says so (both
external, and the reason the code can wait for them); nothing else is assumed of services, CP2, the modem or
the phone server. ModemD's liveness is promised while no step of the recovery itself
failed and no watchdog interrupt came (`Undisturbed`); what happens after one is below. SyncReturns is promised until
a slot is lapped.

**What the violations show.**
 1. *Repair of the image file.* The comment above `ramDisk_Read` promises a fixed order and
    a repaired origin image. The code starts with a random file. If that is the intact backup, the
    damaged origin stays; the next save truncates the backup first, and a second fault then
    loses the partition. With the documented order the property holds.
 2. *Cut tokens.* `__getToken` has the test on `*size` the wrong way round: a fragment of a
    token is not kept, yet the packet is answered with success and the rest is then refused
    or, when it is the last packet, acknowledged although nothing was committed.

**Seen with TLC.** These statements are in the modules and not in a run; TLC refutes each, in the instance
given, by changing one cfg. The runs state what does hold beside them.
 - *StartedOnDemand* (WcnSm, two services, `Boot = FALSE`, 5 requests): pending_events (`wcnd_sm.c:60`) is never cleared. An
   open that was parked once is served, closed, and the next stop serves it again: CP2 is
   started for nobody.
 - *lost* (NeverStuck and RequestsAnswered without that exception, run `cp2_requests`): `wcnd_send_selfcmd` (`wcnd.c:257`) writes its
   commands without a null, although dispatch_command expects "each cmds end with null character". main's
   "wcn poweron" or its version read and the machine's own startcp2 or stopcp2, read together, match no command,
   and the machine stays in STARTING or STOPPING. No crash is needed.
 - *AssertIsLeft* (WcnSm with a crash): cp2assert is queued before the clients are notified (`wcnd.c:1476`), and clients are
   read first; the manager's reset may run before cp2assert, which then enters ASSERT with no error
   to reset.
 - *OkOnlyAtStartup* (WcnSm with a crash): a reset that answers an exception may run after the last user has
   closed; CP2_OK meets STOPPED (`wcnd_sm.c:86`, "only at startup").
 - *OpenHolds* without its two conditions (two services, `Boot = TRUE`): an open is parked in STOPPING, and CP2_OK answers every parked
   client (`wcnd_sm.c:139`), also one whose pendingevent is lost in a joined read, or (with a crash) still unread
   while another service's open and the manager's reset start CP2. The service is told OK without its bit in btwifi_state, and the other's close stops CP2 under it.
 - *RecoversFromHang* (ModemD, `MaxHangs = 1`): select overwrites rfds (`modemd_sipc.c:898`), which is filled once, so after a
   watchdog interrupt the "Modem Reset" on the assert device is never read.
 - *NeverLoadsRunning* (ModemD, an assert and a block): the two threads of a modem do not exclude
   each other, and one may load the image into the modem the other has started (`modemd_sipc.c:956`).
 - *LoadsOwnModem*, *EventsAreRead* (ModemD, two modems): name buffers and assert_fd are static; a thread may start
   the other modem, and one modem's assert device has no reader (`modemd_sipc.c:194`, `:874`).
 - *BlockedIsTold* with a TL modem: "L Modem Blocked" is found in "TL Modem Blocked" (`modemd_sipc.c:701`); the
   second block of TL is dropped.
 - *clash* (NoDangling, OpenListed, StoresInTable, OnlyDeadClosed without that condition, run `clients`): nothing keeps two threads
   of modemd apart. Two notifiers whose write to one entry has failed both close `client_fd[i]`; in between its
   number, or the slot, has become a new client's, who is hung up on or forgotten, and whose entry may dangle until the next
   loop (`modemd_sipc.c:126`). The entry that select reported to one may be removed by the other, and the search ends behind the table (`:1199`). An empty slot for which
   FD_ISSET(-1) reads set may be filled before it is cleared (`:1191`).
 - *cutSome* (CommitIsWholeRequest without that condition, run `protocol`): after a cut token the remainder may be read as a body or a tail
   with the expected reqIdx (`nvitem_sync.c:118`, `:174`), and part of a request, or bytes that are no data of it, are committed.
 - *lapped* (SyncHolds and SyncReturns without that condition, `Count = 3`, two senders): a sender that is slow between unlock
   and PostCheck reads the flag of the next message in its slot, and then returns too early, waits for
   ever or takes the other's wake-up (`cmr_msg.c:293`). FreedAfterExit without its condition on the last message:
   an EXIT refused by a full ring lets the queue be freed under the running thread (`cmr_msg.c:450`).

**Observed, without a promise in the code to hold it against.** A commit whose signal is lost
(pSaveTask busy saving, or not yet waiting after start-up) stays in RAM until a later commit;
a failed save is not tried again until then either; a packet that ends exactly after a head token
or after a body's data gets no response. These are in the hazard list; the properties state what does hold.

## 4. Proofs

TLAPS proves for every value of the constants, by induction over the steps
(one lemma per action, `<Action>Keeps`):

 - `NvDisk_proofs`: type correctness, `OneCopyAlwaysDurable`, `OneFaultIsSurvived`,
   `ReadServesIntactCopy`, `WriteReportsFailure`, for any set of contents.
   None but the type invariant is inductive. `NoFaultInv` says, for each place in a call,
   which copy is intact and fsynced while nothing has failed (before the switch from backup to
   origin it is the origin, after it the backup); `OneFaultInv` says the same after one fault,
   where the copy not being written must be the intact one; `ReadInv` and `WriteInv` follow the
   read's verdicts and the write's `ret` step by step. Assumptions: `DiskAssumption`.
 - `NvBuf_proofs`: type correctness, `SavesAreCommitted`, `NothingForgotten`,
   `CutRequestsLeaveNothing` for any number of partitions and sectors, in and out of calibration mode.
   `LockInv` ties the mutex to the copy loops; `CopyInv` says how far a copy has come;
   `ChannelInv`, `BackupInv` and `StoredInv` are one chain: each buffer differs from the next
   only in sectors some dirty table marks; `CommitInv` makes backup a committed snapshot outside
   backupData. Assumptions: `BufAssumption`, `CaliAssumption`. `PutSector` and `PutDirty`
   are the facts about nested EXCEPT that the steps use.

 - `NvServer_proofs`: `CleanMeansOnDisk` and `ImplementsStore`, for any partition size and contents. The layers'
   own invariants are taken over (a step of the buffers is a step of NvBuf, a step of a call one of NvDisk); what is
   new says how they meet. `SaverInv`: ramDisk_Write runs only for a thread that waits for it, on toDisk; `LiveInv`: backup is live
   outside backupData, and what is being saved is durable; `DurableInv`: whatever a start-up could read, in the kernel's view or
   after a power cut, is in durable; `DirtyInv` and `OnDiskInv`: a save is made because something is dirty, and a clean toDisk
   is in a file. The refinement then goes action by action: the last step of backupData is Commit, `SaveEnd` is Harden or a stutter,
   `initBuf` is Restart, a read that finds no intact copy is Wipe, `Killed` and `PowerCut` are Stop. That Wipe happens after two faults
   only is NvDisk's `OneFaultInv`.
 - `NvSync_proofs`: type correctness, `IdleIsClean`, `UncutAckMeansCommitted`, `WholeGroupCommits`, `CommitIsWholeRequest`, for requests of any length
   cut into packets in any way, and any `Misreadings`. Type correctness includes that a body past its partition is accepted only in a group with a cut token; `CommitIsWholeRequest` and
   `UncutAckMeansCommitted` are about groups without one. Lost packets are what makes it hard: until a token is cut the analyzer must
   be exactly where the modem is (`At`) or refuse whatever comes next. `AlignInv` says so for the packet being read, for the next one and for a repeated one; `PacketInv` ties the
   modem's numbers to the packet layer's; `CleanInv` says fromChannel differs from backup only in the partition of a request in progress;
   `WholeInv` that a group with nothing lost or cut is on its way to the commit. `Writes` describes what a prefix of a request means to a
   partition without recursion, so `OwnData` and `WritesData` replace an induction over the request.
 - `WcnSm_proofs`: type correctness and `NeverStuck`, for any clients, requests, crashes, hang-ups and retries, however self commands are joined. The
   handlers are functions, so lemmas about them say what an event does. `StepTakesOn`: it enters STARTING or
   STOPPING only with the command that leads out, takes no command away, and CP2_OK and CP2_DOWN leave both
   states; with the types, NeverStuck is then inductive: only `ReadSelf` takes a command away, to carry it out or to lose it.
 - `ModemD_proofs`: type correctness and `NoLostWakeup`, for any set of
   modems and any number of faults. The invariant adds `Placed`: what the shared descriptors and names
   hold while a thread relies on them. NoLostWakeup stays true because READY is set together with the signal.
 - `ModemClients_proofs`: all seven properties, for any number of notifiers, slots, descriptors and clients and whatever FD_ISSET(-1) reads.
   `AllHear` and `DeadRemoved` hold through every race: `LoopInv` says of each loop that the entries behind it have been told or were not
   dead all the while. The other four hold until two threads meet (`clash`): `Sound` says then that
   entries are open, in one slot only, that the descriptor being filed is in none (`Filing`), and that no two notifiers are about to close the
   same one (`Closing`, `Apart`); `Exact`, which an overflow ends, adds that every open descriptor is listed (`AllListed`) and what a
   notifier knows of its slot in each phase (`Knows`).
 - `CmrMsg_proofs`: type correctness, `SlotKept`, `TokensMatch`, `ImplementsQueue`, `SyncHolds` and `FreedAfterExit`, for any length of at least 2 and any
   finite set of senders. `RingInv` is the invariant: `Apart` (the write pointer is msg_number places after the read pointer, so
   with one slot kept free they never meet on a message), `OwnFlags` (a waiting slot's flag is its message's)
   and `Behind` (the message being worked on is in the slot just before the read pointer). Each step
   is a step of CmrQueue or leaves its variables alone. For the synchronous sends, `IdsInv` makes seen and done initial segments of
   the numbers given out, `ExitInv` makes EXIT the last message, and `WakeInv`, which holds until a slot is lapped, says that every
   wake-up still owed has its sender and its semaphore at 0, and that a semaphore at 1 belongs to a sender whose message has got as far as
   it asked for.

Every invariant and action property of a passing run but `OpenHolds`, and both refinements, are stated by a theorem. Only
model-checked are `OpenHolds` and the liveness properties (`WokenSaverSaves`, `CaliCommitIsSaved`, `RequestsAnswered`, `HangNoticed`, `Recovers`,
`ClientsHearAlive`, `BlockedThreadWakes`, `WakeLockReleased`, `SyncReturns`): fairness and ENABLED are out of the prover's
reach. No theorem has a hypothesis on the constants beyond the named assumptions of its module. Where a property has a condition (`lost`, `clash`,
`full`, `cutSome`, `lapped`, `Undisturbed`), section 3 tells what the code does without it.

## 5. Not modelled
**nvitem.** `initArgs` and `ramDisk_Init` (path names from properties), `uninitBuf` (never called), the WIN32
variants, logging, damage to RAM buffers, the arithmetic of the checksum, the directory entry
of a newly created file, the UBI volume-update ioctl (a build option), a passing failure to open or read an intact image
(`nvitem_fs.c:276-287`, `:302-315`: in the model a file fails to read because it is missing or damaged), and whatever follows
a write past a partition.

**modemd.** The VLX and external modems (`modemd_vlx.c`, `modemd_ext.c`), engpc control, IMEI and NV
reading, the copying of images, the early returns for properties that are not set (`modemd_sipc.c:240`, `:278`) and for a failing timerfd or epoll (`:509-525`).
`LoadBegin` builds the path names in one step, whereas `:203-247` build them by strcpy and strcat in shared buffers: in the model two
overlapping reloads may take each other's names, in the code they may also garble them.

**wcnd.** AT commands and the engineering-mode worker, MAC address files, the RESET_START and RESET_END
notices, CP2 log and dump collection.

**cmr_msg.** `cmr_msg_timedget` (one polling user in hal1.0), allocation failures, the wrappers of sem_t.

**The rest of the tree** is hardware access, tables, third-party code and user interface; `PROJECT.json`
gives the reason for each part. Most of its lines (sensor tables, ISP parameters, fonts, registers) hold no state
that a model could say anything about.

## 6. Plan
 1. `ModemCtl`: external modem boot with retries, alive and reset threads; `StorMgr`: slogmodem's rotation and
    limits; refnotify.
 2. `ModemD` composed with `ModemClients`, and with `NvServer` (stop, reload, restart).
 3. Theorems: `OpenHolds` for any number of services in `WcnSm`.
 4. Pure algorithms of nvitem: the word-wise loop of `_markDirtyInfo` against the set it
    should mark, and the folding checksum (what changes it cannot see).
