# Verification of the IoT camera program

TLA+ models of the camera program in `src/`, TLC configurations that check them
on small instances, and TLAPS proofs of what holds for every value of their
constants. Paths below are relative to `src/`.

The program runs on a HiSilicon camera. It takes video and sound from the
vendor's encoder, sends them out by RTSP, RTMP or RTP, listens to MQTT, reads a
thermal USB camera, and keeps its settings in a file. It is a set of threads
around a few shared variables. Some share them under a mutex with condition
variables, some without any lock.

## Inventory

| Part | Files | State | Operations | Model |
|---|---|---|---|---|
| Message queue, consumer | `PCM/pcm.h`, `PCM/pcm.cpp` | `std::queue`, mutex, two condition variables, heap objects passed as integers | `PushData`, `PopData`, `consumer` | `BlockQueue`, `BoundedFifo` |
| MQTT client | `mqtt/mqtt.c` | `mqttcd.conn`, the handle `mqttclient`, `mqttcMutex`, `mqttcCond` | `mqtt_client_thread`, `connlost`, `msgarrvd`, `pubmsg` | `MqttClient` |
| MQTT message processing | `MQTTProcess.cpp` | one `MQTTData` per message, a tree of cJSON objects | `mqttArrived_Fun`, `MQTTData::process`, `xintiao` | `MqttPipeline`, `MqttReply` |
| RTMP push | `CRtmpPush.cpp` | `status`, `run_status`, `_rtmp` | `startPush`, `stopPush`, `run`, the two writers | `RtmpPush` |
| Configuration store | `config.cpp` | `cfgdata`, `cfgdata_bak`, a file | `readcfg`, `getCfg`, `savecfg` | `ConfigStore`, `SettingsRegister` |
| Thermal frames | `thermalUsb.cpp` | pairs of buffers, ring for the average | `uvcOpen`, `uvcClose`, `setPixelFormat`, `uvc_cb` | `ThermalFrames` |
| Start-up | `main.cpp`, `globaldata.cpp` | mode variables, settings in static buffers, registered callbacks, global objects | `readInifile`, `main`, the encoder's callbacks | `Startup` |
| INI file | `Common.c` | a caller's buffer | `GetProfileString` | `IniFile` |
| V4L2 capture, infrared channel | `v4l2dev.cpp`, `irchannel.cpp` | four mapped buffers, a heap copy, the last picture | `v4l2_reqbufs`, `v4l2_stream`, `v4l2_read_frame`, `IRCHANNEL::run` | `Capture` |
| Serial echo | `SerialPortSrv.cpp` | buffer and length | the thread's loop | `Startup` |
| Bandwidth, memory figures, colours | `Common.c` | statics of `getBandwidth` | `getBandwidth` and others | no: they reach the log or single pixels only |
| H.264 file source | `rtsp_h264_file.cpp` | file position, a buffer | `readFrame` | no: a sample that nobody calls |
| Serial setup, GPIO, `/dev/mem`, clock, RTP helper | `serialport.cpp`, `hi3516ev200_gpio.cpp`, `devmem.cpp`, `timeutil.c`, `videopush.cpp` | the kernel's | straight lines of calls | no: no state of their own |
| Aliyun credentials | `mqtt/aliyun_auth.c` | none | SHA-256, HMAC | no: arithmetic on strings, not called |
| cJSON | `JSON/` | heap | what an answer is built with | external, by what it allocates and frees: `MqttReply` |
| Camera SDK | `IOTCAMSDK/` | | | no: third party; external where used |

How they meet: the MQTT library calls `msgarrvd` on its receive thread. That
calls `mqttArrived_Fun`, which allocates an `MQTTData` and pushes it to the queue.
The consumer thread pops it and calls `process`, and `process` may call `pubmsg`,
which waits for the library with `mqttcMutex` held. The client thread and
`connlost` contend for that same mutex. The encoder's audio and video threads
call the writers of `CRtmpPush` while its own thread connects and disconnects.

`main` starts the threads and registers the encoder's callbacks before `av_start`;
`pause_write` holds them back until the server of the mode exists. The infrared
channel takes frames from the V4L2 driver, gives them to `uvc_cb` of the thermal
camera and sends the picture that comes back.

What of this the program uses today: `readInifile` gives `sscanf` the values of
`networkmod` and `mediamod` and not their addresses, so that these never change
(`Startup` shows what a number in the file does). `main` therefore takes the
WIFIAP and RTSP branches. There `rtmp.start()` is not called, `start_mqtt_client`
is called nowhere, and the infrared channel is not started. Those components are
modelled as classes and functions that are ready to be called, which is how the
other branches use them.

### What is hard, and what would be right

* **Queue**: one signal and never a broadcast, two kinds of sleepers, spurious
  wakeups, raw pointers. Right: a bounded FIFO; no object lost, duplicated or
  freed early; no sleeper forgotten.
* **MQTT client**: a wait whose predicate is never tested, a path without its
  unlock, losses at any time. Right: handles are valid when used and never
  leaked, no loss goes unnoticed, a lost connection is replaced.
* **Message path**: the receive thread is both the queue's producer and the
  only one to read what others wait for with `mqttcMutex` held: the consumer for
  an acknowledgement, the client thread for the answer to its connect.
  Right: every message is processed, or the case in which it is not is known.
* **RTMP push**: everything shared, no lock. Right: one handle at a time, not
  used after it was destroyed; an error or a stop has its effect.
* **Configuration**: truncate, then write, with no fsync and results ignored.
  Right: what is read back is one whole record, the last written or, after a loss of
  power, the last that reached the disk, or nothing; a skipped write loses nothing.
* **Message answers**: twelve calls that may each fail, three results looked at.
  Right: nothing forgotten, left out or dereferenced; where it is, for a failure
  that can be named.
* **Start-up**: callbacks may come before their server exists; a buffer passed
  on from one lookup to the next; names and values copied to 32 bytes, whatever
  their length. Right: a callback finds its server; settings that fit are read
  as the file says, each into its own buffer; the encoder is let go at the end.
* **Capture**: buffers shared with a driver, results not looked at, a time limit
  not told from readiness. Right: no buffer is filled while it is copied, none
  is lost, every picture is sent once and in order.
* **Thermal frames**: thirteen allocations, any of which may fail; one pointer
  is tested for all. Right: no write outside a buffer; nothing freed twice, and
  nothing forgotten.

`PROJECT.json` lists the hazards line by line.

## Modules

For each component `X`, `X.tla` is the model, `MCX.tla` its TLC instance, the
`.cfg` files its configurations and `XProofs.tla` its theorems; those about
`IniFile` are in `StartupProofs`, those about `MqttReply` in
`MqttPipelineProofs`. Definitions are named after the C functions where there is
one. Definitions under a comment that begins with "Mutant" are plausible faults
of the definition that follows. They belong to no specification and are used to
see that a property can fail.

**BoundedFifo** is the promise of the queue: `Push` and `Pop` at one instant
each, between call and return, with no mutex and no condition variable.

**BlockQueue** has one action for what a thread does between two points at which
others can see it. `pc` says where a thread is; those at `"waiting"` are the wait
sets of `full` (producers) and `empty` (consumers). A signal wakes any one of
the set, and the woken thread must lock again before it tests again, as the `while`
loops do. `live` is the heap, `data` the local variable that holds an object.
The mapping to `BoundedFifo` takes the insertion or removal under the mutex as
the linearization point.

**MqttClient** has the client thread with its label RECONNECT, `connlost` on
library threads, and `pubmsg`. `handle` is the state of the library's object:
`"null"`, `"made"`, `"up"`, `"lost"`. The library may fail a create or a
connect, may lose the connection at any time and reports that once, any time
later. `MQTTClient_create` may fail unseen, since nobody looks at its result.
`SpuriousWakeups` chooses whether `pthread_cond_wait` may return unsignalled,
and the history `spurious` says that it has. What relies on signals is stated
under `~spurious`, so that one run covers both cases. The path of `pubmsg`
without its unlock is `PubSkip`.

**MqttPipeline** instantiates both: the receive thread is the queue's producer,
the consumer is the client's publisher. Added state: whether the consumer is
through with its object, and the acknowledgement of the last publish. What the
server answers is read only while the receive thread is not in `PushData`, so
that the acknowledgement is not read and `MQTTClient_connect` does not succeed
while that thread waits for room in the queue. `ReconnectCycle` is the state
this can end in, see "What was found". The assumptions on the constants say that
the consumer and the client are threads of their own, that there is a finite
heap and that the queue has a place.

**MqttReply** is `process` and `xintiao` call by call, with what is on the heap
and what there was no memory for (`failed`, a history of one message). An action
is one call to cJSON with the tests that follow it. `MCMqttReply` gives it names
of its own, so that the proofs can have it beside the pipeline.

**RtmpPush** has the switch of `run` as `pc` values that repeat the names of the
status. No action does more than one access to what other threads write:
`cleanup` is `Destroy`, then `Forget`; a write is the test of the status, the
read of `_rtmp`, the call and its result. Handles are addresses that can be
handed out again. `wrote` and `stopped` are histories: which threads have
written, and whether a stop had an effect. `NoUseAfterDestroy` is about the time
when one thread wrote and none stopped.

**SettingsRegister** is the promise of the configuration store: a register that
holds one whole record or nothing. A save loses what is held, then puts the
working settings in, fails, or is left out because they are held already; the
last is also allowed after a failed save, which is what the code does. A load
that fails takes the defaults, and they then replace what is held.

**ConfigStore** has the struct as four cells in file order, of which the second
and fourth are the magic numbers. A write stores the first k cells. `disk` is
what a loss of power leaves: a prefix of the file at some earlier time. A failing
open gives -1, which the test `if (fd)` lets pass, so that the write fails and
the copy `bak` is made all the same.

**IniFile** sees the file as the pieces that `fgets` returns. `long` marks a
piece that filled the buffer, so that the rest of its line is taken for a line.
`Wide` values need more than 32 bytes and `LongNames` do not fit `keyname`;
`overran` records which buffer a call wrote beyond, and after a long name what
the call does is any of what it could. `ReadsAsWritten` is the reference: a
definition of sections and entries over the whole file, against which the single
pass of the code is checked. It speaks of calls that overran nothing and of
files without a line longer than `KEYVALLEN`.

**Startup** instantiates `IniFile` for its seven lookups. `pc` goes through
`readInifile` and the branches of `main`, a step for each call that changes what
a callback could see. The two encoder threads and the serial echo run beside it.
`mediamod` starts with any of the three values a build can give it. A value that
does not fit its buffer (`KeepOverrun`) spoils any set of the settings and may
leave `mediamod` as another mode or as none, with which `main` comes to its end;
a call whose `keyname` was overrun may also not return (`ReadCrashes`). A number
for a mode is written to address 0, 1 or 2 (`ScanNumber`). `SettingsAsWritten`
says of a program that got past all this, with a file in which everything fits,
that each setting is that of its own key.

**Capture** has the mapped buffers as members of the driver's queue, of the
filled ones or of neither. `content` is the number of the picture in each; a
copy carries the number it was made of. Each call may fail. `taken` and `sent`
are histories, `spoiled` and `failed` name what the two excuses of the
properties cover: no memory for a copy, and a buffer the driver did not take
back.

**ThermalFrames** has each pointer as NULL or the number of bytes allocated, and
in `blocks` how many blocks the heap holds for it: `malloc` adds one, `free`
takes one away, whatever becomes of the pointer. `PointersMatchHeap` compares
the two. The caller changes the format between a successful `uvcOpen` and
`close` only, and gives `uvc_cb` frames of the size it opened. `uvcOpen` may
fail at any of its thirteen allocations, `setPixelFormat` at its first or
second, and they leave what the code leaves. What is in the buffers is not
modelled.

## Runs

| Run | Instance | What it shows |
|---|---|---|
| `BlockQueueRivals` | 2 producers, 2 consumers, capacity 2, 6 objects | ownership, no lost wakeup, refinement of `BoundedFifo` with its liveness |
| `MqttClientAll` | 1 publisher, 2 report threads, spurious wakeups | what holds in any case, what holds until the first spurious return, reconnection unless the mutex was leaked |
| `MqttClientSpurious` | the same | violation: a healthy connection is torn down |
| `MqttClientLeak` | without spurious wakeups | violation: never reconnects |
| `MqttPipeline` | 5 threads, capacity 2, 4 objects | objects are messages; every message is processed unless the mutex was leaked or the reconnect cycle was entered; from that cycle only a leak leads out |
| `MqttReply` | every kind of message, every failure | what is forgotten, left out or dereferenced is due to a named failure, or to a MSGID that is not a string |
| `RtmpPush` | audio and video, starts and stops | handles, errors, stops, and no use after destroy while one thread writes |
| `RtmpPushRace` | audio and video, no stop | violation: output while connecting |
| `ConfigStore` | 2 counts, 2 settings | refinement of `SettingsRegister`, the copy, the boot |
| `ThermalFrames` | widths 1, 2, 4, heights 1, 2, ring of 5, 3 blocks for a pointer | lengths of the buffers, indices, heap against pointers |
| `Startup` | 3 builds, 890 files of up to 3 pieces | lookups as written, settings of their own keys, callbacks find their server, `main` reaches its loop |
| `Capture` | 3 buffers, 5 pictures | whole copies, no buffer lost, order, each picture is sent |

**Bounds.** A capacity of 2 has the queue empty, full and in between, and with
two rivals a woken thread can find its place taken. Capacity 8 adds nothing: the
theorems are for every capacity and number of threads. There is an object for
every thread and every place, so that `new` never fails. Two report threads let
the late report of one connection meet the loss of the next. `MaxBacklog` bounds
unprocessed messages at 2 in `MqttClient`; the pipeline replaces it by the
number of objects. Two RTMP handles let an address be used again. Two counts and
two settings give four records, so that one can be mixed from two others. Width
1 and 2 have 24-bit lines that need rounding, width 4 has none; 5 is the
program's `T_SIZE`. Each close with open buffers forgets the result pair;
`MaxBlocks` = 3 lets that happen three times, after which `uvcOpen` can only
fail; the heap of the other pointers is compared one by one, so that more room
shows nothing new. Three pieces are a header, an entry and one thing that can go
wrong between, before or after them; the nine pieces are those that the lookups
of a mode treat differently. The files with settings have the section's header
and up to two of eight more: two settings of which one is there twice, values
and a name that do not fit, and a value of that length for a mode. `MaxRead` is
1: the echo tells no byte from many, only from none and from an error.
`MaxPictures` is more than `MaxBufs`, so that each buffer comes round again;
three buffers let one be with the program while two are on the two sides of the
driver.

**Deadlock** is checked for the queue, RTMP and the thermal frames. It is not for
the MQTT client and pipeline, because there the leaked mutex really stops all
threads, nor for `ConfigStore`, whose fair behaviours stop restarting at some
time. `Startup`, `Capture` and `MqttReply` end when the process crashes.

## Fairness

Weak fairness for each thread: the scheduler runs it when it can run. No strong
fairness for locks, because a pthread mutex promises no order. Calls into the
MQTT and RTMP libraries return, as both have time limits. Nothing is assumed
about the environment: no message, frame, command, connection or acknowledgement
needs to come. Beyond that:

* Spurious wakeups of the queue's threads end at some time. A thread woken for no
  reason time and again could keep the mutex from the others.
* `NetworkSettles`, in the pipeline: after a failed attempt the client thread
  unlocks `mqttcMutex` and at once locks it again, having slept with the mutex
  held. Attempts failing for ever could keep `pubmsg` out for ever, so
  `EveryMessageProcessed` assumes that from some time on connections stay, and
  attempts succeed while the receive thread is there to read the answer. Attempts
  that fail because it is blocked in a full queue are not assumed away: they are
  `ReconnectCycle`. The assumption is part of what the run shows.
* `ConfigStore`: restarts and losses of power end at some time.
* `Startup`: `main` runs and its calls return. Nothing is asked of the encoder,
  the file or the serial port.
* `Capture`: the thread runs, weakly fair; `select` is not interrupted for ever
  and the driver does not refuse a filled buffer for ever, strongly fair,
  because their failing counterparts compete with them. Nothing is asked of the
  camera.

With two threads on one side an unfair mutex may always favour one of them.
`BoundedFifo` therefore promises that *some* push and *some* pop take effect
whenever one can, and that a call that took effect returns. For the program's one
receive thread and one consumer that is the promise to each thread.

## What is proved

From the assumptions on the constants that the modules state, for any sets of
threads, objects and handles, any capacity, sizes and ring length:

* **BlockQueueProofs**: `TypeCorrect`, `MutualExclusion`, `Ownership`,
  `NoLostWakeup`, `Refinement`. Types and `MutexIffCritical` are inductive
  together. `OneOwner` is inductive relative to them. `WakeupsSuffice` counts
  threads, and each step of its proof says how the sets `OnTheWay` and `Owing`
  change. Refinement maps each action to a FIFO action or a stutter and needs
  ownership, since an object the heap hands out must be new to the FIFO.
  Three theorems say what the invariants are for. `NobodySleepsForNothing` and
  `NeverAllAsleep`, from the wakeup count: a side that sleeps has nothing to do,
  and the two sides never sleep together. `HeapIsBounded`, from ownership: the
  heap holds what is in the queue and in the hands of threads, however many
  messages arrive. These and `MutualExclusion` are proved only; the runs do not
  repeat them.
* **MqttClientProofs**: `TypeCorrect`, `Serialised`, `NoMissedLoss`,
  `CreateOverwritesNothing` for any behaviour. `HandleInv` ties `handle` to
  the client thread's position and a lost connection to the report to come.
  `PublishesOnValidHandle`, `ReportsAreCurrent`, `ConnIsTrue` and
  `NoNeedlessTearDown` hold until the first spurious return. They use `AgreeInv`,
  by which `conn`, the handle and the positions agree, `spurious` being
  the escape that once taken stays. Three theorems are about the findings.
  `WaitsForLossIfSignalled`: where no wait returns unsignalled, only lost
  connections are torn down, so that the first finding has this one cause.
  `LeakIsForEver` and `LeakedLossIsFinal`: a leaked mutex is never given back and
  a connection lost after it stays lost, so that the exception in
  `ReconnectsUnlessLeaked` cannot be avoided.
* **MqttPipelineProofs**: each step of the pipeline is a step of the queue and
  of the client, or a stutter of it, by the way it is defined (a lemma); so the
  theorems about the two components can be used for the pipeline's constants,
  whose assumptions imply theirs: `QueueKeepsItsPromises`, with the refinement
  of the FIFO, and `ClientKeepsItsPromises`. `HeapIsBacklog` is inductive
  relative to ownership and to the types of both. From it follow
  `AnsweredObjectIsLive` and `EnoughObjects`: with Cap + 2 addresses `new` finds
  one whenever `msgarrvd` is called, which is what the instance of the run
  assumes. `NotBothAsleep` is `NeverAllAsleep` for the two threads.
  `LeakStopsTheConsumer` says what becomes of the consumer that calls `pubmsg`
  with the leaked mutex: it waits for itself for ever, and nothing is deleted
  any more. `CycleHasNoWayOut` does the same for the reconnect cycle, for a
  queue of any size, one step for each action: nothing but the leak leads out of
  it. `ReplyDefectsHaveCauses` is about `MqttReply`. `ReplyInv` ties the heap to
  the position; by `NamesExcused` each name that `xintiao` is past was added or
  has an excuse, by `HalvesExplained` an object on the heap is being worked on
  or its failure is known.
* **RtmpPushProofs**: `TypeCorrect` and `NoHandleLeak` for any number of writers
  (`HandleInv`: at which positions of the run thread there is a handle, whatever
  the writers do to the status). `StopClosesConnection`: the status STOPPUSH is
  brought about by the run thread only, after its clean-up. `OneWriterIsSafe` is
  about the time when one thread has written and no stop had an effect
  (`WriterInv`: while the writer is writing, the run thread is where it cannot
  destroy).
* **ConfigStoreProofs**: `TypeCorrect`, `WholeRecords`, `SkipLosesNothing`, and
  `ImplementsRegister`, the refinement of `SettingsRegister`, step by step.
  `FileInv` is the argument: since `savecfg` truncates, file and disk each are a
  prefix of one saved record, and a prefix that reaches the second magic number
  is whole. Neither the property nor the magic numbers alone are inductive. The
  register holds the file's record if its magic numbers are right (`HeldShape`);
  that `SaveSkip` is a `Skip` rests on `CopyInv`, which ties the copy to the
  file.
* **ThermalFramesProofs**: `TypeCorrect`, `BuffersSuffice`,
  `NothingElseForgotten`. `FitInv` says which buffers exist and how long they
  are, after failures too. The last theorem follows each block through opens and
  changes of format that fail anywhere, for any ring and any room on the heap:
  what an action frees was allocated and is given up by its pointer in the same
  action.
* **StartupProofs**: `TypeCorrect`. `FindsWhatIsWritten`, for files of any
  number of lines, none longer than `KEYVALLEN`, `main`'s keys in any order, and
  calls that met no name and no value too long for its buffer: `ScanInv` relates
  the position of the scan to the reference: no header of the section, or no
  other header and no entry of the key since, up to there. `SettingsAreRead`:
  `main` only ever calls `GetProfileString` or leaves its variables alone, so
  each of its lookups reads as it is written, with the same provisos.
  `SettingsHold`: in a program that gets past `readInifile` with a file in which
  everything fits, each setting holds what the first entry of its own key gives,
  or nothing (`SettingInv`: in such a file no call runs over its buffer, so that
  the buffer has what it had before or what the file gives its key).
  `CallbacksAreSafe` for any interleaving (`MediaInv`: while `pause_write` does
  not hold, there is either no `av_start` yet or all that a callback needs).
* **CaptureProofs**: `TypeCorrect`, `CopiesAreWhole`, `AllIsGivenBack`,
  `OrderIsKept`, for any number of buffers and pictures. The invariant has three
  parts: `Places` (each buffer is in one place: queued, filled, in the
  program's hand, refused, or not reached yet), `Copies` (a buffer in hand
  holds `taken`) and `Order` (what is filled is younger than `taken`, which is
  not older than what was sent). None is inductive without the places.

**Only model-checked**: liveness (the fairness part of `ImplementsFairFifo`,
`ReconnectsUnlessLeaked`, `EveryMessageProcessed`, `ErrorLeadsToReconnect`,
`StopTakesEffect`, `BootsAtLast`, `StreamsAtLast`, `EveryPictureIsSent`), because
the prover does not reason about fairness. Every safety property that a passing run
checks is also a theorem.

## What was found

1. `mqtt/mqtt.c:117` (`MqttClientSpurious`): the comment says that the thread
   waits for the disconnect event, but the wait is not in a loop and what
   it waits for is not tested. A spurious return tears down a healthy connection.
2. `mqtt/mqtt.c:164` (`MqttClientLeak`): `pubmsg`, called while the connection is
   down, returns with `mqttcMutex` held, and the client never reconnects.
3. `CRtmpPush.cpp:189` (`RtmpPushRace`): the comment at the start of an attempt
   says that the stream output is closed. With audio and video on two threads
   one may still be writing on the old handle.

Seen while modelling. All of it is part of the models but the contents of buffers,
to which the average belongs:

* **The reconnect cycle** (`mqtt/mqtt.c:99`). The client thread connects with
  `mqttcMutex` held, and the answer is read by the receive thread. When the
  connection is lost while that thread waits for room in the queue and the
  consumer is about to call `pubmsg`, then the receive thread waits for the
  consumer, the consumer for `mqttcMutex`, and the client thread, between two
  attempts without it for an instant only, for the receive thread. No timeout
  breaks this. If the consumer does get the mutex, `conn` is 0 and it leaks it
  (finding 2). `CycleEndsInLeak` states this, `EveryMessageProcessed` excepts
  it.
* **Settings that do not fit** (`Common.c:138`, `:135`, `main.cpp:102-105`).
  `GetProfileString` copies up to 98 bytes into `main`'s buffers of 32: a
  WIFIPASS of 63 characters overruns its neighbours. Names of entries are copied
  to 32 bytes as well.
* **Modes** (`main.cpp:115`). `sscanf` gets the value of `networkmod`, not its
  address: a number for a mode crashes the program at start, and so may what was
  in `__tmp` before. The comment at line 153 says that the network is set by the
  configured mode, which can never happen.
* **The average of temperatures** (`thermalUsb.cpp:755`). The filter (lines
  720-738) writes neither the outermost columns nor the outermost rows, nothing
  at widths or heights up to 2, and the average reads column 0 of each buffer of
  the ring for every pixel: the result is of memory nobody wrote, however many
  frames came.

Also: `uvcClose` frees the wrong pointer and so forgets the two result buffers;
after a failed `setPixelFormat` going back to the old format is a no-op, so that
frames stop until the device is opened again; `savecfg` updates its copy
although the write failed, so that the same settings are not written again; a
loss of power can lose the old settings together with the new; a line longer
than `KEYVALLEN` can turn the rest of a comment into an entry; a QBUF that fails
loses its buffer for good; an answer for which there is no memory reaches
`pubmsg` as NULL.

## What is not modelled

* The text of JSON answers, media data, pixel values and temperatures: no
  property is about them. That the average is of memory nobody wrote is
  therefore not a property either; there is no frame after which it would be right.
* What is modelled without a property that catches it, because the code is wrong
  there whenever it happens or nothing says what would be right: a stop that
  comes while a start was not picked up (`CRtmpPush.cpp:143`), the skipped write
  after a failed one (`config.cpp:92`, allowed by the register), a buffer whose
  QBUF fails (`v4l2dev.cpp:280`, excepted by `NothingLeftOver`), the failing
  `read` of the echo (`SerialPortSrv.cpp:66`, which ends in the crash), the
  number for a mode (`main.cpp:115`, the same).
* Which variables lie behind a buffer that is overrun: `Startup` lets any
  settings and the mode be spoilt, and nothing else of the program.
* Memory ordering: each access to a shared variable is atomic and seen at once,
  which is what the models assume.
* `ThermalFrames`: callers that ignore a failed `uvcOpen` and change the format
  all the same, and what a failed change of format leaves when going back
  (`thermalUsb.cpp:524`, `:526`). The model has the second, but nothing in the
  code says what should happen, so no property does.
* `Startup` in AVCHAT mode: `mwrtmp` is registered there and was never filled,
  so that what a callback calls is whatever memory held. The model lets such
  a call end anywhere, and `CallbacksFindTheirServer` leaves it out.
* `v4l2_close`, which has no caller, and the queries and formats of `v4l2dev.cpp`,
  which keep nothing.
* `start_mqtt_client`, which nobody calls: `MqttClient` begins with its thread.
* The figures that only go to the log (`getBandwidth`, memory), colour
  conversion, the H.264 sample, serial set-up, GPIO, `/dev/mem`, credentials,
  the RTP helper and the clock: straight lines of calls, arithmetic, or code
  that nobody calls. Their state, where there is one, is the kernel's.
* The camera SDK is most of the repository by size: headers and binaries of
  its vendor. Of it there is only what the code relies on.

## Plan

Done, in this order: queue and FIFO, MQTT client, their composition, RTMP push,
configuration store, thermal frames; then start-up with the INI file and the
serial echo, the capture loop, and the answers to messages.

Then the theorems: those of each component, and last that the pipeline inherits
what is proved of its two, that its objects are its messages, how it can stop,
what goes wrong with an answer, and that the configuration store is a register.

Next, the most important first:

1. A composition of `Capture` and `ThermalFrames`, in which `uvc_cb` takes its
   frames from the copies and `opened` is the outcome of the allocations.
2. An abstract specification of `Capture`, a sequence of pictures that may skip,
   and the proof that the model implements it.
3. `getBandwidth` under its two callbacks, if its figure is ever used for
   more than the log.
