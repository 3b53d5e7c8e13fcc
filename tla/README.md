# AVED in TLA+: the AMC firmware and the AMI driver

AVED runs two programs that talk over PCIe. The **AMC** (`src/fw/AMC`) is FreeRTOS
firmware on the card; it manages flash, sensors and modules. The **AMI**
(`src/sw/AMI`) is a Linux kernel driver, with a library and a command line tool,
through which a host drives the card. They share a window of memory and a pair of
tail registers, and exchange requests and responses over a *generic command queue*
(GCQ): two rings, one per direction, with no lock between the two processors.

This project models the path of a command from a thread of the driver to the card
and back, the programming of the boot flash on top of it, the life of a device in the
driver, the SMBus driver and the telemetry of the card, and the reads of
its sensors by a host. It checks all of them with TLC on small
instances, and proves the types and most of the safety properties with TLAPS for every
value of the constants.

    ami_top.c: probe, removal, users         smbus_driver: other controllers
    user threads, heartbeat, sysfs         AMC tasks and event callbacks
              |  submit_gcq_command                  ^  events    | mailbox
              v                                      |            v
    amc_proxy.c: list of submitted         ami_proxy_driver.c: eight slots,
      commands, response thread              one task; apc_proxy_driver.c: flash
              |                                      ^
              v            SQ ring (host -> AMC)     |
        gcq_driver.c  ------------------------>  gcq_driver.c
                      <------------------------
                           CQ ring (AMC -> host)

| layer | modules | abstract specification |
|---|---|---|
| host command path | `AmiCommand`, `AmiCommandProps`, `AmiCommandProofs`, `MCAmiCommand` | its environment is the server below |
| one ring | `GcqRing`, `GcqRingProps`, `GcqRingProofs`, `MCGcqRing` | `GcqFifo`, a bounded FIFO |
| card command path | `AmiProxy`, `AmiProxyProps`, `AmiProxyProofs`, `MCAmiProxy` | `AmcServer`, a server that answers at most once |
| boot flash, both sides | `FlashUpdate`, `FlashUpdateProps`, `FlashUpdateProofs`, `MCFlashUpdate` | |
| life of a device in the host | `AmiDevice`, `AmiDeviceProps`, `AmiDeviceProofs`, `MCAmiDevice` | |
| SMBus driver of the card | `Smbus`, `SmbusProps`, `SmbusProofs`, `MCSmbus` | |
| sensors, records and health of the card | `Telemetry`, `TelemetryProps`, `TelemetryProofs`, `MCTelemetry` | |
| sensors as a host reads them | `SensorRead`, `SensorReadProps`, `SensorReadProofs`, `MCSensorRead` | |

`X` holds the state and the actions, `XProps` the properties and the parts of the
inductive invariants, `XProofs` the theorems, `MCX` the model values. Definitions
whose comment is or starts with *mutant* are broken variants of the operator that follows;
no specification uses them, `PROJECT.json` names the property each one violates.

## Inventory

### Components, their state, and what makes them correct

**GCQ ring driver** (`fw/AMC/src/device_drivers/gcq_driver`). Compiled on both
sides. *State*: per ring the slots, the tail register and the consumed counter of the
header, all shared; per side a `GCQ_RING_TYPE` with copies of both counters.
*Operations*: `xGCQInit`, `xGCQAttachConsumer`, `xGCQProduceData`,
`xGCQConsumeData`, `xGCQDeinit`. *Interaction*: shared memory and registers only.
*Hard*: no lock; counters wrap; each side decides on stale copies; the AMC restarts
over a live header; the host closes in mid-call and attaches again. *Correct when* it
is a bounded FIFO of whole messages, neither side touches a slot the other is using,
and a host never sees a half-written header.

**AMI command path** (`sw/AMI/driver/ami_amc_control.c`, `amc_proxy.c`). *State*:
the xarray of ids and `next_cid_id`, the semaphores of the two shared pages, the
command lock, `gcq_halted`, the list `submitted_cmds`, one `amc_proxy_cmd_struct`
per call. *Operations*: `submit_gcq_command` and its many early exits, the
`amc_proxy_request_*` and `amc_proxy_get_response_*`, the response thread, abort,
timeouts, `stop_gcq_services`. *Interaction*: completions, a callback from the
response thread, the rings. *Hard*: a response, a timeout and a kill race for a
command that its caller is about to free; late answers; ids and pages used again;
early exits that skip half of what the done label undoes. *Correct when* no freed
command is reached, nothing leaks, a caller gets its own answer, and it always gets
one or an error.

**AMC AMI proxy task** (`ami_proxy_driver.c`, `amc.c`, `in_band_telemetry.c`,
`evl.c`). *State*: eight slots `xRxData`, a mailbox, the task. *Operations*: read a
request, raise its event, run the callbacks, write a response. *Interaction*: events
(synchronous callbacks), mailboxes, the APC task. *Hard*: the slot number travels
through three modules and two mailboxes; every path has to come back with it; the
completion ring may be full; a flash job takes seconds while the heartbeat must be
answered. *Correct when* no slot is lost or answered twice, answers carry their own
id and result, and quick requests never wait for the flash.

**APC proxy driver** (`apc_proxy_driver.c`). *State*: mailbox, flash partition table
and its validity, next boot partition, flash. *Operations*: download, copy, select,
refresh of the table, hot reset. *Hard*: a download in chunks can stop after any of
them; a copy invalidates its target first; the table may be replaced between the check
of a request and its execution. *Correct when* a partition that looks bootable holds
one whole image, and a download that was reported done is there and stays there.

**AMI programming** (`ami_program.c`, `ami_cdev.c`). *State*: the image, the chunk
number; an ioctl semaphore per device. *Operations*: `download_pdi`, `update_fpt`,
`copy_partition`. *Interaction*: the shared page and the command path. *Hard*: kill,
timeout or reset between chunks; a request that outlives its caller reads the page of
the next one. *Correct when* together with the APC it is crash consistent.

**Heartbeat, set-up and teardown** (`ami_top.c`, `ami_amc_control.c`, `amc_proxy.c`).
*State*: `pf_dev` with its reference count, state and registered applications; the
AMC context with its threads; the list of proxy instances; the heartbeat's count of
failures. *Operations*: probe, with some fifteen points where it may fail, the three
threads, opening, calling and closing, callbacks of sysfs and hwmon, removal. *Hard*:
everything is freed by somebody else than who uses it; a submit that passed the check
of `gcq_halted` runs into the teardown; a removal waits for users it can only signal.
*Correct when* nobody finds freed memory, nothing is left behind, a dead AMC is given
up after three heartbeats and a live one is not, and probe and removal come to an end.

**SMBus driver** (`fw/AMC/src/device_drivers/smbus_driver`). *State*: per instance a
state machine, an event queue and the message under way; the instance in play as
controller, the one that is addressed as target; the FIFOs of the IP. *Operations*: the
interrupt handler, fourteen states, the start of a command by a task. *Interaction*:
callbacks of the application; the bus. *Hard*: messages longer than the FIFOs; one
snapshot of the interrupt bits with the end of one transfer and the start of the next;
a remote controller that addresses the instance a task is starting a command on.
*Correct when* messages are given whole and once, commands answered once and truly,
and no instance is stuck.

**Telemetry** (`asc_proxy_driver.c`, `asdm.c`, `bim.c`). *State*: the readings of the
ASC with their averages and maxima, the sensor records and the FPT record of the ASDM,
the health of the card and of its modules in the BIM. *Operations*: a scan and its
events; the callbacks of the ASDM and the BIM, which run in the task that raises; the
answer to the host. *Interaction*: events from the ASC and the APC to both listeners,
requests from the AMI proxy, a mutex per module. *Hard*: four tasks read and write the
records; a scan is copied twice before the host sees it; comparisons are made before the
mutex is taken; a table that is not valid, at start or later, takes half a path. *Correct
when* the host is given one scan and one table and never a mixture, no event over a
limit is forgotten, and nobody waits for ever.

**Sensors in the driver** (`ami_sensor.c`, `ami_hwmon.c`, `ami_cdev.c`). *State*: per
repo the records that the card sent at probe, the time of the last fetch, the interval.
*Operations*: discovery; a read of a hwmon file or by an ioctl, which fetches all the
readings of the repo again when the cache is older than the interval; the interval; the
signal to the applications at a critical value. *Interaction*: the command path; the
responses of the ASDM, whose layout two programs have to agree on. *Hard*: the cache is
written in place, field by field, and hwmon takes no lock; limits that a sensor has not
shift the fields behind them; a fetch may fail or be interrupted. *Correct when* a value,
its status and its limit belong to one sensor and one scan, no older than asked for and the
trip takes, and applications are killed for critical values.

**Periphery**: AXC and BMC proxies (periodic tasks, PLDM answers), the FALs (wrappers),
EVL (callback tables), PLL and DAL (logging, debug menu), OSAL and the register
drivers, sysfs, PCIe glue, the user library and tool, the
Vivado designs. `PROJECT.json` lists each with its status and the reason.

### Hazards

`PROJECT.json` lists them, each at its line with the properties that would catch it.
They fall in nine groups: counters and stale copies in the ring; restarts and
attachment; races around a command that is completed, timed out, killed and freed;
ids, slots, pages and semaphores that some path forgets; flash jobs that are cut short
or run late; set-up, failure and removal of a device under its users; SMBus
transfers that overlap commands, fill the FIFOs or share an interrupt; records and
health that several tasks of the card read and write; and a cache of readings that the
host fills under its readers.

## The modules and the code

### `GcqRing`: one ring with both of its ends

`AmcProduces` makes it the CQ or the SQ. Every access to shared memory is a step of its
own: one word written (`WriteWord`) or read (`ReadWord`), the tail published
(`Publish`), the consumed counter released (`Release`), each register read of
`prvucGCQCanConsume` (`ReadPeerTail`, `ReadTail`, `RefreshTail`). `Reserve` is
`prvxGCQProduce` with its refresh of the cached consumed counter: the refresh reads one
word and the rest is local, so it is one step. `AmcWriteHeader`, `AmcSoftReset`,
`AmcWriteMagic` are `xGCQInit` in the AMC; `HostAttach`, `HostReadProduced`,
`HostReadConsumed` are `xGCQAttachConsumer` and `prvvGCQFastForward`. `HostClose` may
interrupt the host anywhere and abandons what it was doing; `AmcRestart` resets the
card, which the driver does only after it has closed the queue. A write and its
read-back, and the memory barriers around it, are one step: the model assumes the
barriers work.

`prvucGCQCanConsume` takes two tail registers that both read all ones for a dead PCIe
link. A counter reaches that value after 2^32 - 1 messages, so `PeerTails` contains it
in `gcq_cq`: the ring is then taken for empty until one of the tails moves, and
`ImplementsFifo` shows that nothing is lost. `PublishedIsConsumed` says that a consumer
that stays up, and is not shown two dead tails for ever, goes on releasing slots until the
ring is empty. In `GcqFifo` messages leave the queue only one at a time by `Receive`, or all
together when the AMC goes down (`GoDown`): a step of a running AMC that emptied the ring,
whatever its reason, would not be one of the FIFO. The AMC comes up (`ComeUp`) with an empty
queue, which is what `prvvGCQSoftReset` is for. That the SQ is the same FIFO follows from `RingIsFifo`, which holds for both
values of `AmcProduces`. The window of the two counters, `WindowBounded`, is in
no run either: `RingSafe` proves it.

`MemoryRetained` says whether the shared memory keeps its magic number across a reset
of the card. The runs and the proofs take FALSE. With TRUE a host can attach to the
magic number of the former life while the AMC rewrites the header, and
`MagicConfirmsHeader` fails; whether memory is kept is a matter of the hardware design,
which is outside this code: nothing in the firmware clears it before `xGCQInit`
(`amc.c:1040`). What is said of restarts, in the runs and in the theorems, is said under the
assumption that the reset does.

### `AmiCommand`: threads, proxy and response thread

Each thread runs one `submit_gcq_command` at a time; its command is the record of the
thread, so a pointer is a thread. The steps are the points where another thread can
intervene: the semaphore of a page, the id, the command lock, the write to the ring,
`list_add_tail` (which happens *after* the write), the wait, the look at `timed_out`,
the look at `cmd_rcode`, the abort, the done label. The critical sections of the
instance lock are one step, except for the timeout scan, which is one step per command
plus one for the `timed_out` that `amc_proxy_callback` sets *after* it has woken the
caller. `submitted` and `ahead` are the linked list: its members and its order.
`Refuse` covers the exits before anything is allocated, `GiveUp` the exits with a
command and no id. The nine `amc_proxy_request_*` and `amc_proxy_get_response_*` repeat the
same code; one stands for all, with one outcome of the response besides the good one: the
error that the AMC reports (`REFUSED`). Responses carry the call they answer, which the code cannot see and
the properties compare. Ids are a small range, `MaxCid` stands for 255. The AMC is the
environment: it takes requests and answers them in any order or never, and an answer
writes to the page of its request.

### `AmiProxy`: the card's end

`ReadRequest` reads a request into the first free slot or drops it; `RaiseQuick`,
`RaiseIdentity`, `RaiseApc` raise the event and run its callbacks, which post a response
to the mailbox, or a job to the APC, or, when the job is refused, the failure;
`PendResponse`, `WriteResponse`, `FreeSlot` are the other half of the task. `ApcPend`
and `ApcDone` are the APC task; a job takes as long as it likes. All posts are without
waiting: a full mailbox loses the message, as in the code (`Post`). A full completion
ring loses the response and keeps the slot. Each work carries, beside its slot, the
request it is the result of, which the code does not have and the properties compare.
Not modelled: failures of the RTOS itself (a mutex that cannot be taken).

`AmcServer` is what the host may rely on: a request is taken once and answered at most
once, with its own id and result, perhaps late, perhaps never. It is the environment
that `AmiCommand` has (`AmcTake`, `AmcAnswer`), so the two modules meet there: the one
is checked against every such server, the other is shown to be one. In the same way
`GcqFifo` is the queue that both use for their rings, with the order of the messages
given up in `AmiCommand`, where it does not matter.

### `FlashUpdate`: a call of the driver, the APC task and the flash

The driver's side is one call at a time (`HostCall`, `HostSend`, one turn of the loop of
`do_image_download` each), because the ioctl semaphore is held from its start to its
end. But a call that is killed or times out (`HostAbandon`) leaves its request where it
is: in the queue, in the mailbox of the APC task, or under way. The card then executes
it from the shared memory as it is by that time, which is why `ram` is a variable and
requests carry no data. `AmiAccept` is the callback that looks at `piValidFpt` and posts
to the mailbox; `ApcPend` takes the message; `Erase`, `WritePage` and `Verify` are
`ulOspiWrite`, `iOSPI_FlashWrite` and `iVerifyDownload`, `ReadBack` the look of `iOSPI_FlashWrite` at some of its pages; `CopyRead`
and `CopyRetag` are `iCopyImage`; `Refresh` is `iRefreshFptData`. `AmcReset` loses the queues, keeps the
flash and loads the table again. Faults are pages and sectors that the flash fails to
program or to read; `iOSPI_FlashWrite` returns the status of the last page only, so an earlier
failure is noticed by the read-back, if the page is among the sampled ones and still
erased, or by the comparison, or not at all.

A page holds a record of the image and the place in it that its data comes from; a
chunk is one erase sector, as on the V80 (32 KB), and a sequence of pages. FPT updates
carry the table and an image, so they have one piece more, or the table alone. Images of a
single chunk (`OneChunk`) and updates of the table alone take the other branch of
`do_image_download`: one request, and nothing invalidated before it. A new table may have
entries for fewer partitions than the old one (`FewFpt`). A job whose entry is not in the
table when the APC task takes it reads freed or foreign memory
(`apc_proxy_driver.c:1431`); nothing can be said of what the firmware does then, so the
task stops (`dead`) until a reset.

Four history variables observe: `promised` (what a call reported written), `clean` (nothing
went wrong since the call started), `unguarded` (partitions written by an FPT update, which
does not invalidate the boot tag first), `bare` (a job was accepted behind an update of the
table alone, which is the one way to `dead`: `JobsUseLoadedTable`).

### `Smbus`: interrupts, state machine, task, IP and bus

The handlers of `smbus_state.c` are operators from a state of the driver and an event to
the next state, one per state of the machine; `Fsm` picks the handler. The interrupt
handler is `IsrEnter` (read and clear the latched bits; queue the target's events in the
order of the code), `IsrController` and `IsrExit`; `HandleEvent` is one turn of
`vSMBusEventQueueHandle`. The task in `xSMBusControllerInitiateCommand` is `Check`,
`Claim`, `Fill`, `RaiseNext`, `Disable`, `Enable`, with interrupts possible between any
two. Bits are latched by the IP and may come in any grouping with the handler's
snapshots; that is what the module is for.

Two things are external: a remote controller that addresses our instances
(`RemoteStart` to `RemoteStop`, byte by byte) and the engine that runs the descriptors of
our own commands (`EngineStart`, `EngineStep`). Assumed of the IP: a byte that finds the
receive FIFO full or no descriptor waits with the clock stretched; descriptors that a
transfer leaves are dropped at its STOP and at the next START; the engine starts on a
start descriptor only; a pending interrupt that is enabled is taken before the task goes
on. Bytes carry the transfer they belong to, which the driver cannot see and the
properties compare.

Errors of a target are one bit of its own side, and it comes with `ERROR_IRQ`, which makes the
handler look at both sides, as in the code. The one time-out that ends a transfer is
`PHY_SMBCLK_LOW_TIMEOUT` (`RemoteTimeout`, `EngineTimeout`); the time-outs TEXT and CEXT are
only logged, in every state, and are left out.

Three histories exempt what the driver does not claim to handle: `collided` (a remote
addressed the instance on which a command was being started: the state machine is
shared, and one of the two loses), `hurried` (the next transfer began before the driver
saw the end of the last: the latched bits cannot tell them apart), and `unseen` (the
handler clears every latched bit, also those of the controller that it had disabled,
`smbus_interrupt_handler.c`, so a command can miss its own end). Each of them is
reachable, and without the exemption the properties fail.

### `AmiDevice`: probe, service, removal

`core` is the program counter of the process that holds the device lock: probe
(`Create` to `Enable`), then removal (`Disable` to `Devres`), with `unset_amc` and
`amc_proxy_close` (`StopHb` to `Release`) called from three places (`caller`). Each of
the points where the probe may fail is a disjunct. A command is only its progress
(checked against `gcq_halted`, sent, answered, expired, aborted): `AmiCommand` has the
rest. Users come through three doors: the character device, whose file keeps a
reference while it is open, and the callbacks of sysfs and hwmon, which take one while
they run (`Lookup` is `get_pf_dev_entry`). The kernel removes an attribute when nobody
is in it (`Quiet`), and releases the hwmon device after the driver's `remove` has
returned. The removal signals the applications (`KillApps`); a `kill_pid` that fails leaves
the application with its file open and the removal waiting for it. The heartbeat thread counts (`BeatEnds`) and declares the AMC dead
(`RaiseFatal`); the firmware may stop at any time (`AmcDies`).

Left out: a second device; a kthread that is stopped before it ever ran (`kthread_stop`
then returns -EINTR, and the compatibility mode would stop the logging thread twice);
processes killed inside the wait for a command, which is not interruptible by SIGBUS and
is covered by `AmiCommand`. The end of `amc_proxy_close` is one step, so the
write of its own that follows its `kfree` is not seen. A user who finds freed memory is `"wild"` and stops there;
the departures below say who can.

### `Telemetry`: a scan, its listeners, the table and the host

The ASC task is `ScanStart` to `ScanEnd` under the mutex of the ASC, then `Raise` for
every sensor; an event is handled where it is raised, so `AsdmOne`, `BimThreshold` and
`Judge` to `SetHealth` are steps of the same task, and so are `AsdmAll` to `AsdmTotal`,
the callback of the end of the scan. The APC task writes a table (`ApcTable`) or reports
another operation (`ApcEvent`) and runs `FetchTake` to `FetchEnd` and the BIM's callback.
`HostAnswer` is the AMI task under the mutex of the ASDM: an answer is built while the
mutex is held, so it is one step, and `AnswersWhole` speaks of all the records at once,
whichever the request is for. `Init` contains every combination of tables that are
valid, not valid, or (the secondary only) absent; `boot` is what `iASDM_Initialise`
makes of it. `lock` has the mutexes that a step does not release by itself.

`Judge` compares without the mutex of the BIM, so the health of the card can be lowered
by a late event, or left alone when the mutex is not to be had within its timeout.
`compared` is the health that a module has compared its event with: `excused` is set when
the mutex timed out, and when the health was lowered although another module had set it
since the comparison, and by nothing else. `HealthCovers` measures the health against the
readings of the sensors and against `raised`, the worst status that `profile_bim.h`
*declares* for an event of the APC, from the first scan on: before it the readings are
zeros that no event has spoken of. `ApcStatus` is the table of `profile_bim.h` as
`iHandleEvent` reads it, by a number that counts `FPT_UPDATE` although the table has no
entry for it; an event from there on finds the entry of the next one, sets `shifted` and
does not count in `raised`. `spoiled` records a device whose table was not valid. These
are departures below.

Left out: several types of reading per sensor, disabled sensors, the resets and the
state machine of the debug menu, readers outside the band (BMC), flash reads that fail,
tables without entries, the bytes of a response, events that are HEALTHY and change no
state.

### `SensorRead`: records, cache and readers

One repo of one card. `SdrOf` and `ReadingsOf` are the responses of the ASDM as sequences of
cells, a cell a field with the sensor and the scan that it belongs to; `ParseSdr` is the
driver's parse, with the positions that it computes from the mask of limits, so a field
read at the wrong place is somebody else's. `Discover` and `Discovered` run at probe. A read is `Ask`, for
the ioctl `Down` of its semaphore, `Check` (is the cache stale?), `Answer` (the card makes the
response from its latest scan), `Arrive` (the driver has it), or `Fail` of the
command, `Fill`, one store at a time (each field of a record is cleared and then copied),
`Filled` with the stamp of the cache, `Get` with the comparison that signals the applications,
for the ioctl `GetStatus`, and `Return`. Files of the status and the average go to `Get`
directly. The making of the answer is one step: `Telemetry` has its mutex and tasks.

A copy of four bytes is one store. Scans and time go on at any point of a read. The stamp
(`last_update = jiffies`, `ami_sensor.c:955`) is taken when the driver has parsed the response,
not when the card made it, so the cache can be older than `sensor_refresh` by that difference:
`lag` records it, and `ReadIsOneRecentScan` allows for it. hwmon shows the channels that have a
record; the ioctl takes any (`NoRecord`): without a record it finds a value 0 and a limit 0,
which counts as critical. A read that meets a fetch with which it shares no lock is `exempt`, and
`mixed` says that two such fetches met in the cache: what they return is finding 3.

Left out: alarms, the conversion of units, requests for a single sensor or for the size, the
repos of the board information and of the FPT, the second version of the protocol, several
repos (they share only the interval and the semaphore).

## Runs

| run | properties | states | what it shows |
|---|---|---|---|
| `gcq_cq` | `TypeOK NoSlotRace NoTornMessage MagicConfirmsHeader ImplementsFifo PublishedIsConsumed` | 4.8 M | the CQ is a FIFO of whole messages across restarts and attachments, loses none while the AMC is up, and a polling consumer gets them |
| `cmd_safe` | `TypeOK NoUseAfterFree NothingLeaks EveryCallReturns` | 332 k | kills, timeouts, refusals, a full ring and exhausted ids free nothing early and leak nothing, and every call returns though the AMC never answers |
| `cmd_own` | `OwnResponse PageIsOwn` | 2.0 M | callers get their own answers and data |
| `cmd_cid` | `CidUnique` (violated) | 27 k | finding 1 |
| `amc_proxy` | `TypeOK SlotsAccounted ImplementsServer DroppedOnlyWhenFlooded AllSettled` | 32 k | the card answers each request once, loses no slot, and drops only when flooded |
| `flash_update` | `TypeOK BootTagLast SuccessIsWhole JobsUseLoadedTable UndisturbedSucceeds` | 8.3 M | downloads and FPT updates of one or several chunks under kills, faults and resets: a bootable partition is whole, a reported success is true, jobs find their table unless accepted behind an update of the table alone |
| `flash_copy` | `BootTagLast` (violated) | 6 k | finding 2 |
| `smbus` | `TypeOK DeliveredWhole AnsweredOnce InPlayEnds` | 990 k | messages and commands survive every grouping of interrupt bits and any step at which they meet |
| `ami_device` | `TypeOK NoUseAfterFree HaltedIfDead NothingLeft ProbeAndRemovalEnd DeathIsNoticed` | 551 k | set-up, its failures, the heartbeat, removal and users race for memory that each of them may free |
| `telemetry` | `TypeOK HealthCovers AnswersWhole TelemetryGoesOn` | 933 k | scans, new tables, events and requests interleave: answers are of one piece, the health covers the limits and the events and says no worse than they do, nobody waits for ever |
| `sensor_read` | `TypeOK ReadIsOneRecentScan KilledForCause EveryReadReturns` | 327 k | values come from one recent scan of the sensor asked for, applications are killed for cause, reads end |
| `sensor_pair` | `PairIsOne` (violated) | 4 k | finding 3 |

**Bounds.** *Ring*: two slots and counters modulo 4, so that full, empty and the wrap
are at every turn and tail and consumed counter meet at different multiples of the
size; two words per slot so that a message can tear; two payloads, since a torn message needs two. Restarts,
attachments and messages are not bounded. *Command path*: three threads are the
smallest number with a timeout, a kill and a bystander (`cmd_own`, `cmd_cid`). `cmd_safe`
has two users, two calls each, who contend for one page, one id and one place in the ring,
so that each of them runs out; its safety properties are proved for any numbers, so the
instance is chosen for its liveness. In `cmd_own` there are more
ids than calls: an id that comes round while an answer to its former owner is under way
can be completed by that answer, which with 256 ids needs 256 commands within one
timeout, and `OwnResponse` is about the window in which that does not happen. Calls per
thread are bounded by `MaxCalls`. *Card*: two slots, a mailbox of two, one place for
the APC and one in the completion ring; four requests, two of them flash jobs, so that
each of the limits is reached. *Flash*: two partitions, so that a copy has a source and
a target; images of one and of two chunks, and chunks of three pages, so that a chunk other
than the first, a page that is read back, one that is not and the last one exist; tables of
all partitions, of the first alone, and a bad one; three calls, because the interesting executions need one that is
given up, one that overwrites its page, and one that is told of success; one fault of the flash or
one reset (`MaxFaults` bounds the two together). `flash_update` gives up downloads and FPT updates but no copies: that is
finding 2. *SMBus*: two instances, the one a controller, the other with PEC; blocks of six
bytes and FIFOs of five descriptors, so that every message fills them, and a trigger of
two; any two pieces of work, ours or a remote's, and one fault. Blocks are the protocols
with all the states; larger instances were explored by hand (every protocol, 22 M
states; three pieces of work with `quick` commands, 0.9 M). *Device*: two users, each
entering once, so that one can be inside and one on the way in; the heartbeat's
threshold is the real one, 3. *Telemetry*: two sensors, so that a record can be updated
and its neighbour not; limits for two of the levels and readings at both; two scans, since
an average needs two; one operation of the APC, one table to start with and one more. *Sensors*:
two sensors whose masks of limits differ; one reader for each way in and a second one for the
semaphore, each with one read, the second for a channel without a record; two scans, the second critical
for one sensor; three instants, so
that the cache of an interval of one is fresh, just fresh and stale, and a trip can outlast it; an
interval that does not fit its sixteen bits and is cut to one. The life of a device and the number of calls end, so
deadlock is not checked in `flash_update`, `flash_copy`, `smbus`, `ami_device`,
`telemetry`, `sensor_read` and `sensor_pair`; the liveness properties say that what has started comes to its end.

**Fairness.** `GcqRing`: the consumer polls for ever (`vProxyDriverTask` and
`complete_response_thread` loop). `AmiCommand`: runnable threads are scheduled, the
response thread polls, time passes; the instance lock is acquired under *strong*
fairness, because the response thread takes it again and again and a Linux mutex is
handed to a waiter that starves. Nothing is assumed of the AMC. `AmiProxy`: the AMI
task runs every 100 ms. The first half of `AllSettled`
(`QuickSettled`, about requests that need no flash) assumes no more; the second assumes
that flash jobs end. `Smbus`: interrupts are taken and handled, a
task goes on with the command it has started, and the bus and the IP do not stop (a
remote that stops is one that is timed out). `AmiDevice`: the kernel threads, probe and
removal are scheduled, time passes for commands, callbacks of sysfs and hwmon return, and
a process that was killed closes its files. Nobody has to close a file, to remove the
device or to interrupt its removal, and the AMC need not answer. `Telemetry`: the ASC task
runs periodically, the APC task goes on with the event it has raised, the AMI task answers
(or the host's own timeout ends its wait). Mutexes are taken under weak fairness: scans
and operations are bounded, so a task that wants a mutex cannot be starved for ever by
another that retakes it. `SensorRead`: a process in the driver runs on, its command is answered or
times out (`EveryCallReturns`), and the semaphore goes to those that wait for it. Nobody has to ask.

**What the properties leave out.** `PageIsOwn` is checked where users of the page
neither time out nor die: such a caller gives the page back while the AMC may still
write to it for the old request, and nothing in the code prevents the next user from
reading that. `AllSettled` counts a request as settled when it is answered, dropped, or
when its response was lost to a full ring; the host's timeout is for those.
`DroppedOnlyWhenFlooded` counts a slot that such a response left in use as a request that the
host still waits for: the losses that follow from it are not excluded.
`DeathIsNoticed` says that a dead AMC is given up, not after how many heartbeats;
`HaltedIfDead` counts those for a halt that happens.
`BootTagLast` exempts partitions last written by an FPT update (`unguarded`).
`JobsUseLoadedTable` exempts what follows on `bare`, and `BootTagLast` the pages of the chunk
with the tag, which is all of an image of one chunk.
`NoUseAfterFree` of the device exempts a removal whose wait was interrupted and says nothing
of the look-ups of files and of hwmon, which hold no reference (`"wild"`); of callbacks of
sysfs it does. The three
exemptions of `Smbus` and the one of `SensorRead` are described with the modules.

## Findings

1. **`cmd_cid`.** `submit_gcq_command` frees `cmd_cid` at its done label whether or not
   `get_gcq_cid` ran (`ami_amc_control.c:1685`). A call that fails earlier, for instance
   because a signal interrupts its wait for the log page, has `cmd_cid` 0 and so erases
   id 0 from the xarray while another command uses it. Id 0 is then handed out again,
   and two commands in flight share "the unique id associated with the command"
   (`amc_proxy.h:265`).
2. **`flash_copy`.** "we must invalidate the boot tag and write the first chunk last"
   (`ami_program.c:117`), and "invalidate the PDI magic number, to
   ensure it isn't bootable until complete" (`apc_proxy_driver.c:1664`). A copy restores
   the tag of its source in shared memory before it compares and writes the first
   packet again (`apc_proxy_driver.c:1703`). When its caller has given up, that memory
   is also where the next download prepares its first message, which is short: only its
   first word counts. The download then writes a valid tag first and the image after it,
   and a reset in between leaves half an image that looks bootable.
3. **`sensor_pair`.** The ioctl returns a value with its status because two reads of hwmon
   files could not: "This eliminates the race condition if a user was interested in reading
   a sensor value and the status" (`api/src/ami_sensor.c:126`, also `ami_cdev.h:116`). Its
   semaphore keeps other ioctls out and hwmon not: `get_all_sensors` clears and copies the
   cached records in place (`ami_sensor.c:921`; `:962` says "CG TODO: Add mutex"). A hwmon
   read in between gives the ioctl a value of one scan, or a zero, with the status of
   another.

**Departures that no run shows.** They are outside what the modules can express or were
met while reading; they are listed for whoever changes the code.

- `ami_top.c:481` says that device data are deleted only when the reference count is 0;
  a signal that interrupts the wait (`:489`) is logged and the removal goes on.
  `AmiDevice` has the step (`WaitCutShort`) and exempts what follows.
- The `devices` attribute (`ami_top.c:746`), the look-up of a file or an hwmon device
  (`:576`) and some callbacks of hwmon (`ami_hwmon.c:754`, `:784`, `:864`, `:1033`)
  read a `pf_dev` on which they hold no reference. The look-up is in the model (`"wild"`).
- `ami_top.c:315` reads the state and then sets it to READY; a NO_AMC that the
  heartbeat sets in between is lost. The queue stays halted, so calls fail all the same.
- `amc_proxy_close` writes to the instance after it has freed it (`amc_proxy.c:940`);
  `amc_proxy_init` leaks the instance when its thread cannot be created (`:850`).
- An application that registers after the removal has sent its SIGBUS is not signalled.
- The identifier that `xSMBusControllerInitiateCommand` reports is read after it was
  incremented (`smbus_driver.c:908`), against `smbus_application_apis.md:171`.
- The last write of a download rewrites the first chunk page by page, the page with
  the tag before the rest: a reset between the two leaves a partition with a valid tag
  and an erased page. `BootTagLast` is about the other chunks. Images of one chunk, with any
  number of pages, are written in that way only (`ami_program.c:77`).
- An update of the table alone leaves `piValidFpt` set until it has run. A download or copy
  that is accepted behind it, after its call was killed or timed out, finds a table that was
  freed or is shorter and dereferences it without a look (`apc_proxy_driver.c:1431`):
  `dead` in the model, with `bare` as its one cause.
- The read-back of `iOSPI_FlashWrite` computes `iCount % ( ucPageCount / 10 )`
  (`ospi.c:950`), which divides by zero for a write of two to nine pages; the last chunk of an image may
  be that short. The model reads the pages in `Sampled` back.
- `iVerifyDownload` repeats a read that fails for ever.
- `amc_proxy_request_*` write the request to the ring before they add the command to
  `submitted_cmds` (`amc_proxy.c:994`). An answer in between finds no command, is dropped as
  "unexpected response" (`amc_proxy.c:588`), and its caller waits until the timeout.
  `AmiCommand` has the step (`Unexpected`), and `EveryCallReturns` holds all the same.
- `iPopulateSdr` marks the maximum as supported where it has an average and the reverse
  (`asdm.c:2172`); both are always there, so it makes no difference.
- Reading a channel without a record by the ioctl kills the applications, since a value 0
  reaches a limit 0 (`ami_hwmon.c:503`, `:580`, `:1302`; `ami_cdev.c:461`). `NoRecord` in the
  model; `KilledForCause` names it as the one cause besides a critical value.
- The readings of a sensor can be older than `sensor_refresh` says by the time between the
  answer of the card and its stamp (`lag`, above).
- The interval of a hwmon file is cut to its lower bound when it is negative, the one of the
  ioctl is cast to `uint16_t` (`ami_cdev.c:192`), so that -1 is 65535.
- Nothing clears the magic number of a ring before the AMC rewrites its header
  (`MemoryRetained`, above).
- A `kill_pid` that fails leaves the application on the list with its file open
  (`ami_top.c:689`), and the removal waits for it.
- `PROFILE_BIM_APC_EVENTS` (`profile_bim.h:33`) has no entry for FPT_UPDATE and `bim.c`
  indexes it with the number of the event: from there on each event has the status of the
  next. COPY_BUSY and PARTITION_SELECTED make the card CRITICAL; COPY_FAILED and
  PARTITION_SELECTION_FAILED count as HEALTHY. `ApcStatus` has it so.
- "only update overall status if it is more severe than the current one" (`bim.c:1021`):
  the comparison is made before the mutex is taken, so a DEGRADED of the ASC can replace a
  CRITICAL of the APC that came in between; and a status that could not be set is noted in
  the module as if it had been, so it is not tried again. `excused` in the model.
- With an invalid FPT in the primary and a valid or no secondary, `iGetFptData` returns the
  status of the secondary ("return Error, as primary FPT is required", `asdm.c:3148`, is
  overwritten), the record cannot be populated, the ASDM is not initialised in spite of
  "force the rest of the ASDM to be populated" (`asdm.c:1673`), the in-band service is not
  started (`amc.c:972`), and requests for sensors end with the host's timeout
  (`HostTimeout`). A secondary that is there and not valid makes the FPT list stay empty,
  though "secondary FPT is optional".
- After an update that leaves the primary with a bad header, an update of the secondary
  leaves a record with entries counted but not there, which GET_SDR reads (`"primary" \in
  spoiled`).
- `iASC_GetState` (`asc_proxy_driver.c:930`), its counterparts in the APC, AXC and AMI
  proxies, and `iASC_ResetAllSensorData` release a mutex that they may not have got.
- "the average value of the sensor since boot" (`ami_hwmon.c:67`) stops moving once there
  are more readings than the value has units, because the quotients are whole numbers; a
  reset does not reset the number of readings. The threshold status is raised and never
  lowered, and a sensor that has become unavailable raises the event of its last value at
  every scan.
- `iPopulateAsdmGetSizeResponse` keeps the mutex when the repository is not known, which no
  caller asks for. The size of a response with all sensors is a byte, which wraps above
  18 records.

## Proofs

`tlapm` checks eight modules. Everything is stated for all values of the constants
that satisfy the `ASSUME` of the module. The parts of an inductive invariant stand at the
end of `XProps`, where TLC has checked each of them on the instance of the runs; a proof has
one lemma per action or per part, and one step per part that the action can disturb.

**`GcqRingProofs`**: `TypeCorrect`, `RingSafe`, its parts `SlotsNeverShared` (`NoSlotRace`)
and `HeaderComplete` (`MagicConfirmsHeader`), and `RingIsFifo`. The constants need
`NumSlots >= 2`, `Wrap > NumSlots` and `NumSlots` dividing `Wrap`: powers of two satisfy
it. All but the types assume `~MemoryRetained`, that a reset of the card clears the magic
number: without it they are false, and the code does not see to it. The invariant `RingInv` has
five parts. `CounterInv` relates the six copies of the two counters: the producer is at
most one slot ahead of the tail, the consumer at most one ahead of the consumed
counter, each cached copy lies inside the window. `SlotsInv`, `FillInv` and `CopyInv`
follow one message: whole in every slot between consumed counter and tail, partly
there in the slot the producer fills, partly copied in the consumer's buffer.
`NoSlotRace` and `NoTornMessage` are not inductive because they say nothing of the
cached copies on which the two sides decide. The arithmetic is done once, in lemmas on
subtraction modulo `Wrap` and on slots (two counters less than `NumSlots` apart have
different slots), and `Sub`, `Inc` and `Slot` stay closed everywhere else. For the
refinement, the queue is the sequence of slots between the counters; publishing appends
to it, releasing takes its head, an AMC that goes down takes all of it with it. Every other
step leaves it alone, the soft reset of the next start included: the queue is then empty.

**`AmiCommandProofs`**: `TypeCorrect`, `CommandMemorySafe` (`NoUseAfterFree`) and
`ResourcesReturned` (`NothingLeaks`), for any threads, kinds, and number of ids.
`SafetyInv` says who may be in the list (`ListInv`), that a caller which was woken while
still in the list was woken by a timeout and finds `cmd_rcode` set (`WakeInv`), and that
a command is allocated while its call runs (`AllocInv`). That is why the callback may
write `timed_out` after `complete()`: the caller must go through the abort, which needs
the instance lock that the response thread holds. `LeakInv` ties every id to a running
call; it holds in spite of finding 1, which gives back too much and not too little.

`OwnUntilRound` (`CidUnique`, `OwnResponse`), `PagesUntilRound` (`PageIsOwn`) and
`OwnForEver` (all three) say when a caller gets the answer to its own request. They need
an assumption each, since finding 1 shows that without one they are false: the first
two `FewCalls`, that no more calls are made than there are ids, with `MaxCid = 65535` in the
code; `PagesUntilRound` also `PagesWaited`, that the threads which use a page of shared
memory stay until they are answered (the hazard at `gcq_client_callback`'s copy of the
page is about those that do not); `OwnForEver`, for any number of calls, `NoneGivesUp`: no
timeout, no signal, no failing write, and an id for every thread. `Outstanding` is
the set of requests and responses underway: in the rings, at the AMC, or in the hands of the
response thread. `OwnInv` says that one which has the id of a listed command is of that
very call; `PlacesInv` that a request is in one place; `RoundInv`, with `FreshIds`, that the
ids of everything outstanding are below `next_cid_id` as long as it has not come round, so a
new call cannot meet an old answer; that there are enough ids is a count of the calls. In
`OwnForEver` this is replaced by `HeldInv`: whatever is outstanding has a caller that waits,
which still holds the id, so the id is not free; and there is always a free one by counting
the threads (`WaitedInv`). `PageInv` adds that a page is written by the card only for the
call that holds its semaphore.

**`AmiProxyProofs`**: `TypeCorrect`, `SlotsSafe` (`SlotsAccounted`, and `AnswersMatch`, that each
answer is the one of its request)
and `ServerImplemented` (`ImplementsServer`), for any number of requests, slots and
mailbox places with `MboxSize >= NumSlots`. The invariant `ProxyInv` adds to the
accounting of the slots that every work is that of the request in its slot (`WorkInv`)
and that a request is in one place (`RequestInv`). The step that carries the proof is
`RoomForAll`: a slot is in the mailbox at most once, so by the pigeonhole principle a
post for a slot that is not there never finds the mailbox full. With a mailbox smaller
than the number of slots the theorem would be false. Types are part of the same
induction: that `Work(amiSlot)` is a work at all depends on the slot being in use.
`DropsForCause` (`DroppedOnlyWhenFlooded`) is a count, in which a slot that a full completion
ring has left in use stands for a request that the host still waits for: a refused request found every slot
in use, `Outstanding` maps the slots one to one into the answers that the host still waits
for, and the refused one is one more; none of them leaves before `Flooded` has noted it.

**`AmiDeviceProofs`**: `TypeCorrect`, `DeviceMemorySafe` (`NoUseAfterFree`),
`HaltsOnlyTheDead` (`HaltedIfDead`) and `TornDownWhole` (`NothingLeft`), for any finite set
of users and any limit of missed heartbeats. `DeviceMemorySafe` is about the threads, the
commands and the users that have a reference or are in a callback of sysfs; the look-ups by
an inode or by hwmon, which have none, are not in it. `DeviceInv` is what makes one program counter
enough to say what exists: `CallerInv` (who called `unset_amc` tells how far probe or
removal has come), `DataInv` (the reference count is one per user inside plus the probe's
own; nobody is inside beyond the wait of the removal unless a signal ended it), `DoorInv`
(interfaces come and go in order, and a callback keeps its own), `ContextInv`, `EntryInv`
and `ThreadInv` (how long context, proxy instance and each thread live) and `CommandInv`
(whose commands can be out). `NoUseAfterFree` alone is not inductive: it does not say why
the context is still there when a command is answered.

**`FlashUpdateProofs`**: `TypeCorrect`, `TableLoaded` (`JobsUseLoadedTable`), `TagIsLast`
(`BootTagLast`), `WholeAfterSuccess` (`SuccessIsWhole`) and `FailsForCause` (the action
property `UndisturbedSucceeds`), for any partitions, images, chunks, pages, queues, faults
and resets, images and updates of one chunk among them. `QueueInv` is the order of the requests: a call
that waits has at most one, behind all others (`OwnInv`), and a request of a call that has
had an answer is alone at the head (`HeadInv`); so `piValidFpt` tells the truth of the flash
while an FPT update is past its first sector (`TableInv`), and nothing that needs a table
is behind a request of several that could take it away. `BareInv` is about the update that is
one request: until something is accepted behind it (`bare`), what is in the mailbox after it
are updates, and every other job has its entry. `ContentInv` says what is in the flash and in
shared memory for each step of a download, of an update and of a copy. It needs that a copy
is never abandoned: the last three theorems assume `"copy" \notin MayAbandon`, as
`flash_update` does, and `flash_copy` shows `BootTagLast` to be false without (finding 2).
`CleanInv` says what a call can count on while nothing has gone wrong: its table, its
request on the way, no other update of the FPT, and the pages its request has written so
far, so that the comparison at the end succeeds. A copy sets the boot
tag aside until its last write; `RetagInv` says that this write then makes the first packet
that of the source.

**`TelemetryProofs`**: `TypeCorrect`, `HealthCovered` (`HealthCovers`) and `AnswersBelong`
(the action property `AnswersWhole`), for any number of sensors, values, limits and tables.
The types are the hard part of `TypeCorrect`: that an average stays among its values
(`AverageWithin`) and a total among those of the sensors (`SumWithin`, which goes through
the folds of the community modules). `TelemetryInv` says who holds each mutex (`LockInv`),
that records not yet reached by an update are those of the last scan and the others those
of this one (`UpdateInv`), that the sensors whose events have been handled are covered
(`ThresholdInv`), that the health shows what each module has noted unless excused and
that an event on its way to the health is worse than what it was compared with
(`HealthInv`), that every event but the one in hand has been noted and none makes the card
look worse than what it is about (`RaisedInv`), and that a table marked valid is whole (`TableInv`). `Init` allows zeros as
limits; that is how the proof found that `HealthCovers` has to speak of scans that have
happened.

**`SensorReadProofs`**: `RecordsComeBack` (parsing what the card wrote gives its records
back, whatever limits each sensor has), `TypeCorrect`, `ReadsOneRecentScan`
(`ReadIsOneRecentScan`) and `KillsOnlyForCause` (`KilledForCause`), for any readers,
intervals, sensors and channels, and scans and ticks at every point of a read, as long as the readings fit their size of one byte
(`14 * Cardinality(Sensors) <= 255`, `iPopulateAsdmGetAllSensorDataResponse`). `CacheInv` is
the heart: unless fetches met, the cache is one scan, or becomes the one of the only fetch,
cell by cell up to its position, and the card still had it when it made the answer (`taken`);
`StampInv` says how much later its stamp is; `CalmInv` carries both over to a read that meets no fetch.
`KillInv` needs none of them and holds even when fetches race.

**`SmbusProofs`**: `AnsweredAtMostOnce` and `EveryCommandAnswered` (`AnsweredOnce`), for
every protocol, any instances, sizes and FIFOs and any grouping of the interrupt bits. That
no command is answered twice holds for transfers that collide, too: one lemma per operator of
the driver says that it leaves command, instance in play and answers alone, one per handler
that it either does or announces a result and leaves play in the same step; so a handler
that is given any event in any state of its instance cannot answer a command again. That
every command is answered, and answered with a success only if it ran to its end, needs to
know which events can reach which state. `OnceInv` says it, as long as no command has met a
transfer to its own instance: `QueueInv` (what is queued is handled before anything else is
queued, but for the first event of a command, which the task leaves for a moment), `TaskInv`,
`OthersInv` (no instance but the one in play is in a state of a controller, or has a first
event), `EngineInv` (the engine runs for the command in play; after a descriptor that ends a
command there is none that starts one; a bit that says the end is latched only when
the engine has nothing left to do, and then clearing it leaves no bit of the controller),
`WaitingInv` (before its first event a command finds everything quiet), `RunningInv` (in
each state, what can still be raised has a handler there; data come only to states that
read; the end comes only to states where all has been asked for) and `Ordered` (one first
event, and an error before an empty FIFO). None of them is inductive alone: an event that
comes to a state that does not list it takes the instance back to `Initial` without an
answer, and only the engine's descriptors say that it does not come. The proof goes
handler by handler, with the rest of the queue in hand, then over the interrupt handler, the
steps of the task, the bus and the engine. TLC found `OnceInv` to hold for all of
`OwnProtos` on small instances, among them the one of `smbus`, before it was proved.

**Only model-checked.** Liveness (`PublishedIsConsumed`, `EveryCallReturns`,
`AllSettled`, `TelemetryGoesOn`, `EveryReadReturns`, `InPlayEnds`, `ProbeAndRemovalEnd`,
`DeathIsNoticed`), which is beyond the prover. Of `Smbus`: `TypeOK`, since the counters of a
transfer are bounded by the sizes that remotes use, not by the types of the code (with remotes that send fixed-width commands `AwaitingCommandByte` writes its ACKs without a look
at the room, and an abandoned transfer may have left stale ones); and
`DeliveredWhole`, which is checked for the listed instance and is not true for every value
of the constants. TLC shows on other small instances what it depends on. A `MaxEmpties`
below the number of empty FIFOs that a conforming message causes makes `AwaitingDone`
refuse a message that was acknowledged (the code has ten, and the listed sizes stay below
that). A transfer that ended in a time-out and that the driver had not yet seen when the
next one began takes the place of that one, as a `hurried` one does, but is marked only when
it showed as a completion. And when remotes send fixed-width writes to an instance without
PEC, whose bytes all have their ACK in advance, a command that fails while data wait in the
receive FIFO of the controller loses the message of another instance: error and data are in
one snapshot (`smbus_interrupt_handler.c:345`, `:354`); the error takes the instance back to
`Initial` and out of play; the data event then reaches `Initial`, whose default
(`smbus_state.c:766`) resets the instance again; and as it is no longer in play,
`vSMBusHandleActionResetAllData` (`smbus_action.c:89`) empties the FIFO of the target and
forgets the active one, though both belong to the transfer of a different instance. With the
blocks of the listed instance the same steps make that transfer stall and time out: nothing
is given, but nothing was acknowledged either.

## Not modelled, and why

The contents of requests and responses, beyond whom they belong to. The computation of
the number of slots, the table of GCQ instances and the version check. Memory ordering
below the level of the driver's barriers. RTOS and kernel failures (a mutex that cannot
be taken, an allocation that fails after the first).

*Flash*: boot selection and hot reset; sectors larger than a chunk (other flash parts of
`ospi.c:229`), where a chunk erases its neighbours; the linear mode of the OSPI driver,
which is not the one used. *SMBus*: ARP, I2C, the simple device and host notify; a full
event buffer; destroying an instance; two tasks that start commands at once (the
documents give a command to one task); the time-outs TEXT and CEXT, which are only logged,
and the masking of the interrupts for low time-outs; more than two pieces of work at a time
in the run, so that the limit of ten empty FIFOs is not reached. *Device*: more than
one device, and the PCI regions.

The periphery: AXC and BMC proxies, the FALs, PLL and DAL, register drivers, formatting and
parsing, sysfs files and the user-space tool have little control of their own; the
hardware designs are not programs.

## Plan

Done so far: the command path from host to card, the flash, the SMBus driver, the life
of a device, the telemetry, the reads of sensors. Next, in this order:

1. The two command paths composed over `GcqFifo` rings, so that the meeting point at
   `AmcServer` is checked as well as argued.
2. The layout of the rings (`gcq_driver.c:96`) as a pure operator, and the board information
   with its fields of variable length.
3. ARP and I2C in `Smbus`; boot selection and hot reset in `FlashUpdate`.

Proofs that remain: the types of `Smbus`, and `DeliveredWhole` under assumptions that
exclude the three cases above.
