# EPICS-IPMI: specification and proofs

TLA+ modules for the device support of EPICS records that read and command
IPMI devices through GNU FreeIPMI (`ipmiApp/src`). They are written from the
code; where a comment or a header promises something else, a run shows the
difference (see *Disagreements*).

## 1. The system

An IOC processes records; every device has a *connection*, opened by the shell
command `ipmiConnect`, with a thread of its own that does all the talking.

```
 scan threads          callback threads           iocsh
     |  first pass          ^  second pass          |  ipmiConnect
     v                      |                       v
 epicsdevice.cpp            |                 dispatcher.cpp  (map of connections)
     |  scheduleGet/Write   |                       |
     v                      |                       v
 provider.cpp   queue --> provider thread <-- freeipmiprovider.cpp
                            |        |
             IpmiConnectionManager   IpmiSdrManager --> IpmiFruDevLocRec
                    (session)           (sensors)          (FRUs, LEDs)
                            |
                        FreeIPMI --> device

 report-sdr:  command line --> FreeIPMI, SDR cache file --> report, database
                                                            (links of sensors)
```

| component | state | operations | with whom it interacts |
|---|---|---|---|
| device support (`epicsdevice.cpp`) | `PACT`, VAL and alarms of records; `IpmiRecord` (address, entity, callback) | init, first pass, second pass of ai and bo | schedules tasks that *refer to* the entity; is called back by the callback facility of EPICS base |
| provider (`provider.cpp`) | `m_tasks`: queue, `processing`, two events | `schedule`, `tasksThread`, `stopThread` | records push, one thread pops, performs, calls back |
| dispatcher (`dispatcher.cpp`, `epicsshell.cpp`) | `g_connections`, `g_mutex` | `connect`, `checkLink`, `scheduleGet`, `scheduleWrite` | shells and record threads share the map |
| FreeIpmiProvider | connection manager and SDR manager | `process`, `getEntityValue`, `write_oem_command`, lookups | provider thread and record threads |
| IpmiConnectionManager | three FreeIPMI contexts, connection state, cache flag, idle and disconnect time | `reconnect`, `disconnect`, `cleanup`, `keepAlive`, `readSdrInfo`, `rebuildSdrCache`, `getSensorReading`, OEM commands | provider thread; device that goes down and comes back |
| IpmiSdrManager | header, maps of sensors and FRUs, `mReadTime`, recursive `mMutex` | `process`, `readSdr`, `findSensorByMapKey`, ... | provider thread writes, record threads look up |
| IpmiFruDevLocRec | LEDs and sensors of a FRU | constructor, `parseAssociations` | shares the IPMI context with everybody |
| IpmiSdrRec, limits and hysteresis | none | `scale_threshold`, `getSensorThresholds`, `getSensorHysteresis` | their results travel in the entity |
| link addresses (`EntityAddrType.cpp`) | none | parse a link, key of a sensor, split arguments | links come from databases, many of them written by `report-sdr` |
| OEM commands (in `IpmiConnectionManager.cpp`) | none | `vadatech_set_power_state`, `vadatech_reboot_chassis` | link and VAL of a record in, bytes to the device; what is not confirmed throws |
| `report-sdr` (`report-sdr.cpp`, `EpRecord.cpp`) | lists of sensors and FRUs; one cache file with a fixed name | parse arguments, connect, open the cache, parse the SDR, write report and database | every other run of it, through the file; the IOC that reads the database |
| sensor records, SDR info | data | parse, decode | the SDR manager, `report-sdr`, the poll of the repository |
| exceptions, logging, `print.cpp` | text | formatting | - |

What is hard here, and what makes it correct:

* **Processing in two passes.** `PACT` is the only thing that keeps a scan
  thread from the entity the provider thread writes, and the only thing that
  keeps a record from being dead for ever. It has to be set exactly while the
  record's task is in one place of the chain (`InFlightOnce`,
  `EntityExclusive`), to be cleared in the end (`EveryPassCompletes`, which says that a mutex
  left locked can prevent it), and what
  the record shows has to be of its own last pass (`PostedMatchesRead`).
* **Commands** must not be repeated or overtaken (`CommandsInOrder`).
* **Stopping** a provider while its thread runs (`StopCompletes`), or before it was
  ever started: the destructor of a provider whose constructor throws waits for a
  thread that does not exist, and the mutex of the map waits with it (`ConnectReturns`).
* **Sessions** get lost silently, and a reconnection is five calls each of which
  may throw, with contexts that refer to one another (`NoStaleContext`,
  `ReleasedWhenDisconnected`, `LossDetected`, `Reconnects`).
* **The SDR** changes in the device, in the cache and in memory at different
  times; it is read under a mutex that is locked and unlocked by hand, by code
  that throws (`LookupExclusive`, `MapOfHeader`, `HeaderFollowsDevice`,
  `EveryReadReturns`).
* **The map of connections** is used by shells and records while connections
  take long to construct (`OneHome`, `FoundIsCurrent`, `EveryLookupAnswered`).
* **FRU probing** redirects a shared context (`TargetReset`) and
  `parseAssociations` erases from the list it walks (`AttachedAsFiltered`,
  `ReadEnds`).
* **The parts of a provider meet** in one thread: an exception of one of them skips
  the next, a lost session closes the cache the other reads, and every task runs
  in between (`TaskUsesCurrentSdr`, `SdrFollowsDevice`, `LossNoticed`,
  `EveryTaskEnds`).
* **An output does what its link says**, through three parsers of text and four
  conversions to a byte, and the provider notices when it does not although replies
  get lost (`ExecutesAsLinked`, `PowerSetOrCaught`). The record shows nothing of it:
  the second pass of a bo record does not look at SEVR.
* **Runs of `report-sdr`** share a file that they open, delete, create and open again,
  and they may be killed in between (`LeftoverHarmless`, `SomeRunGetsThrough`).
  The database has to be complete although results of parsing are ignored
  (`DbComplete`).
* **Limits** are decoded from bytes of three formats (`LimitsInOrder`) through
  two tables of different length (`LimitsIfReadable`).

`PROJECT.json` lists the hazards at their lines, also those no property covers.

## 2. Modules

| module | models | remarks |
|---|---|---|
| `AsyncIO` | what a connection promises to a record | abstract: requests are answered once and in order |
| `Provider` | `provider.cpp` and the callback ring | variables and actions only; `EpicsDevice` composes it |
| `EpicsDevice` | `epicsdevice.cpp` on top of `Provider` | implements `AsyncIO` by the refinement mapping `Contract` |
| `ConnectionManager` | `IpmiConnectionManager.cpp`, as far as the session goes | also the order of `FreeIpmiProvider::process` (`turn`) |
| `SdrManager` | `IpmiSdrManager.cpp` | `readSdr()` in steps, lookups by other threads |
| `Dispatcher` | `dispatcher.cpp`, `ipmiConnect` | |
| `FruRecords` | `IpmiFruDevLocRec.cpp` as `readSdr()` calls it | |
| `Links` | the texts of `EntityAddrType.cpp` | operators only; for OEM links and for the names in a database |
| `OemCommands` | the handlers of OEM commands | operators only: the bytes of a request, the replies that count |
| `FreeIpmiProvider` | `freeipmiprovider.cpp` and the tasks of `provider.cpp` | composes `ConnectionManager`, `SdrManager` and `OemCommands` |
| `ReportSdr` | `report-sdr.cpp`, `EpRecord.cpp`, the constructor of `IpmiSensorRecComp` | uses `Links` for what it writes |
| `SensorLimits` | `scale_threshold`, `getSensorThresholds`, `getSensorHysteresis` | integers with all exponents of an SDR; results rounded to hundredths |
| `MC...` | instances for TLC | sets, records and model values only |
| `...Proofs` | theorems, checked by TLAPS | |

Every module keeps, before its actions, the mistakes its properties are checked
against: a dropped guard, a missing reset, a wrong order, each in place of the
definition whose name its name resembles.

### Correspondence

*EpicsDevice, Provider.* `rpc[r]` says where the thread that holds the lock of
record r is: in the recovery of the link (`link`), between `pact = 1` and the end
of `scheduleGet` (`sched`), or in the second pass (`finish`). The provider
thread's `worker` follows the loop of `tasksThread()`. A reading, and an output
value, is named by the number of the pass that asked for it, which is how a stale
one can be told from a fresh one. `commands` is a history variable. That a scan
does not process a record with `PACT` set, that both passes hold the record's
lock, and that a callback request is queued in a ring which refuses it when full
is EPICS base. A scan thread owns a `shared_ptr` to the connection while it
schedules, and so `ScheduleOk` cannot happen after the destructor has begun.
A provider begins either constructed as far as its base class (`worker` is
`unstarted`) or with its thread running: `Start` is the last statement of the
constructor, and `StopThread` before it is the destructor that an exception of the
constructor runs. `mutexLeft` is what `Upkeep` may leave behind, the mutex of the SDR
locked for ever (`sdr_leak`); `Answers` says whose lookups then still come back: those
of OEM commands, which do not look a sensor up. `Dispatcher` and `SdrManager` have the
two mutexes in detail.

*ConnectionManager.* Each handle is a variable; `OpenUpTo(n)` is `reconnect()` when
its first n of five calls succeed and the next one throws. Only the provider
thread calls, so an operation is one action. The device and the clocks are the
environment. `idleDue` and `reconnectDue` are the two comparisons with the current
time.

*SdrManager.* An SDR is an *edition* standing for its four header fields; `Content`
gives the sensor keys. `owner` and `depth` are the recursive `epicsMutex`. Calls
of the connection manager that open or lose the cache are `CacheOpened` and
`CacheLost`. An exception that leaves `readSdr()` is `LeaveByException`, with or
without the `unlock()` its caller has. FreeIPMI hands out the four header fields
from an open cache, so they are read together.

*Dispatcher.* `made` numbers the providers constructed. A lookup takes the mutex,
finds, and releases it; `ConnectCall` is `ipmiConnect` with valid arguments. A
constructor that throws before the base class is complete is caught (`ConstructFails`);
one that throws afterwards never gets as far as the catch clause (`ConstructThrows`):
unwinding runs `~Provider`, and the shell stays there with the mutex.

*FruRecords.* The IPMI context's target, the LED loop's `i`, the list of orphans
(all full records, then all compact ones, `IpmiSdrManager.cpp:92-93`) with the
iterator as an index. The code compares the iterator that `erase()`
returned with the erased element even when it is at the end; in every outcome of
that comparison it does not move, which is what `Erase` says.
`ipmi_ctx_set_target(ctx, NULL, NULL)` cannot fail: FreeIPMI only assigns.

*FreeIpmiProvider.* The variables are those of its two instances and three of its
own: the task, what the device has executed for it, and whether it ended in a
catch clause of `tasksThread()` (`caught`), which is not yet an alarm of the record. A step of the thread is an action of one instance with an action of
the other, or with nothing, instead of the free choice each of them has alone:
`CacheLost` and `CacheOpened` happen exactly when the connection closes or
opens its cache (`CacheFollows`), `PollFails` exactly when `readSdrInfo()` throws.
A reply that gets lost may be one to a command that was executed (`Exchange`). The
entity and the callback are `Provider`'s and are left out here. Failures are
counted by the two instances; changes of the SDR and of reads by `SdrFaultsLeft`, so
that failures of the connection can always be counted.

*Links, OemCommands.* A text is a sequence of pieces; the characters at which the
code looks - blank, tab, quote, dot, dash, underscore - are pieces of their own, so
that the parsers work on it as they do on characters. The connection id and the
type at the head of a link are taken as parsed, and so is the link of a sensor. A number is an integer until the
code puts it into a byte (`Byte`).

*ReportSdr.* A step is what a run does between two calls of FreeIPMI that touch the
cache file. `cache` says whose SDR is in the file, which run wrote it and whether it
is complete; FreeIPMI finds a file invalid or out of date by that. A file that was
unlinked is written to no effect. A record that cannot be decoded gets any member
of `Garbage` for its uninitialised members, and one whose type cannot be read is of
the kind of the record before it. `disturbed` is a history variable: another run has
changed the file between the calls of this one, or one of its own calls failed;
deleting the file is one of these calls, and a run that cannot delete goes on.
The lists of a run are sets of objects that carry the number of their record;
`todo` has the FRUs whose `parseAssociations()` is still to come, and a step of
`ParseAssociations` is that call for the first of them. That the loop which erases
while it walks takes all sensors of the FRU is `AttachedAsFiltered` of `FruRecords`.
`report` and `db` have no file or one.

*SensorLimits.* Of the FreeIPMI decoding data: linear sensors of every format, the one
that is not analog included (the code decodes it as 2's complement), and both exponents with the
four bits they have in an SDR. `Linear` is m times the reading plus b in units of its last
decimal, an integer; `Shift` is the power of ten from there to hundredths, and
`Rounded` what `setprecision(2)` does when it is negative. The powers that
occur are a table and its products (`TenTo`). The code computes with doubles: their
rounding errors are not modelled, nor which way a value goes that lies in the middle of two
hundredths. `char` has eight bits and a sign on the platforms of the IOC.

## 3. Runs

| run | instance | shows |
|---|---|---|
| `device` | a sensor, an output and an LED on a connection, ring of 3; three passes, at most two of them of one record | `InFlightOnce`, `EntityExclusive`, `PostedMatchesRead`, `CommandsInOrder`, `EveryPassCompletes`, `StopCompletes`, `KeepsContract` |
| `connection` | four faults | `NoStaleContext`, `ReleasedWhenDisconnected`, `LossDetected`, `Reconnects` |
| `sdr` | three editions, one with a key twice, two record threads, four faults | `LookupExclusive`, `MapOfHeader`, `HeaderFollowsDevice`, `EveryReadReturns` |
| `dispatcher` | two ids, two shells, two record threads, three providers | `OneHome`, `FoundIsCurrent`, `EveryLookupAnswered` |
| `fru_records` | two FRUs and three sensors of four kinds each | `TargetReset`, `LedsAsReported`, `AttachedAsFiltered`, `ReadEnds` |
| `sensor_limits` | five sensors, every format, one with exponents -5 and -4; bytes 0, 127, 128, 255, every readable mask | `LimitsInOrder`, `LimitsIfReadable` |
| `provider` | two editions of an SDR with two sensors, one other thread, five outputs, two failures of the connection and one of the SDR or a change of it | `TaskUsesCurrentSdr`, `ExecutesAsLinked`, `PowerSetOrCaught`, `SdrFollowsDevice`, `LossNoticed`, `EveryTaskEnds` |
| `report` | two runs, six command lines, two hosts, a cache left by a third run, two faults | `DbComplete`, `SomeRunGetsThrough`, `LeftoverHarmless` |

The type invariants of `EpicsDevice`, `ConnectionManager`, `SdrManager`, `Dispatcher`,
`FruRecords` and `ReportSdr` are checked by their first run too. The other four runs
expect a violation (section 4).

**Bounds, and why they are enough.** `MaxPasses` = 2: the second pass of a record
meets what the first one left behind (alarm, value, task), and the third meets
nothing else. `MaxPassesInAll` = 3: both passes of a record meet one of another record
anywhere in the chain, before, between and behind them. `CallbackRing` = number of records is what the size
of the ring means in an IOC that is not overloaded (section 4 says what happens otherwise).
`MaxFaults` counts failures of calls, losses of sessions, outages and changes of
the SDR: three or four allow a failure in the recovery from a failure, and then
another one. The proofs of section 6 hold for all of these bounds.
`MaxProviders` = 3 lets an id be tried again after it was connected. Three
sensors let the element at the beginning, in the middle and at the end be erased,
and two neighbours. The bytes are those next to the sign change and the ends; the
sensors have results that are exact in hundredths and one that has to be rounded.
In `provider`, two failures of the connection are a failing reconnection and a session
lost after it, and one change or failure of the SDR falls into any step of both;
the links have every separator the regular expression lets through, a number with a
sign and with text behind it, one argument too many and too few, and a VAL of 256 is
given to a power command. In `report`, two
faults are a killed run and a failing call of the next; the six command lines are
valid, without a value, with a repeated switch, with a wrong value, with an unknown
host and with `--help`; the two SDRs have two FRUs of one entity, a cooling unit, and
records that cannot be decoded behind a FRU and behind a sensor.

**Deadlock.** The device, FRU, limits and report models end: all passes made and the
connection stopped, the SDR read, the reading made, the runs over. The dispatcher may stop
as well, when a shell hangs in the destructor of a provider with the mutex locked. Their cfgs switch the
check off. The others never stop, and TLC checks that they cannot.

**Fairness.** `WF` of the provider thread, of the callback threads and of a thread
that has begun to process a record: the operating system runs them. A lookup made with `PACT`
set waits for `g_mutex` or `mMutex`, and where one of these is never given back no step
of the record is enabled (`Answers`), so that fairness does not help it:
`EveryPassCompletes` names that outcome (`Blocked`) next to the stop of the connection. No fairness
for processing a record, starting or stopping a provider, a device coming back or an SDR
changing: nobody is obliged to. `SF` of taking a mutex: it becomes free again and
again, and an `epicsMutex` grants it to waiters by priority and age; the code has
no thread that spins on it. `WF` of a construction: FreeIPMI gives up after its
session timeout. One that throws is not assumed to come back, and
`EveryLookupAnswered` names a shell that hangs there (`Stopping`). `WF` of the two timeouts: time passes. The liveness properties
state the rest as assumptions of their own: `Reconnects` assumes a device that
stays up, `LossDetected` that OEM commands do not go on for ever (each of them
restarts the idle time without looking at the session), `HeaderFollowsDevice` a
device that keeps its SDR. In `FreeIpmiProvider` the provider thread has one `SF` for
all its steps: a mutex is the only thing it ever waits for. `SdrFollowsDevice`
assumes a cache that is open again and again, since nobody is obliged to open it
(`WF` of `CacheOpened` is not assumed); `LossNoticed` needs no premise about OEM
commands, since the SDR manager polls the device once a minute whatever the tasks are.

## 4. Disagreements between code and text

| run | property | what happens |
|---|---|---|
| `half_open` | `HandlesReconnection` | a reconnection that fails after `connect()` is never completed (`:439`) |
| `sdr_leak` | `EveryLookupReturns` | a throwing `readSdr()` leaves the mutex locked (`IpmiSdrManager.cpp:230`) |
| `sdr_partial` | `SensorsFollowDevice` | a partial read is taken for complete (`:62`) |
| `throwing_constructor` | `ConnectReturns` | a provider that throws before `start()` is destroyed by waiting for ever for its thread (`provider.cpp:48`), with the map of connections locked |

Each is quoted with the line it contradicts in `PROJECT.json`. Others are modelled
without a run of their own:

* `schedule()` says that it "will invoke record post-processing" (`provider.h:85`). A callback
  ring that is full refuses the request, nobody looks at the status, and `PACT` stays set
  for ever (`epicsdevice.cpp:97`, `InvokeCallback`): with a `CallbackRing` smaller than the
  number of records `InFlightOnce` and `EveryPassCompletes` do not hold.
* A hysteresis is scaled with the offset of the sensor although `IpmiSdrRec.cpp:135`
  says that this "produces the wrong value" (`IpmiConnectionManager.cpp:1000`,
  `ScaleHysteresis`).
* `mCacheFileIsOpen` stays true after a rebuild of the cache that failed
  (`IpmiConnectionManager.cpp:345`, `RebuildSdrCache`), and as long as the session
  lives nothing opens the cache again.
* `connect()` returns true for a device that did not answer (`dispatcher.cpp:67`,
  `Construct`).
* An ai record with a `PICMG_LED` link is accepted and scheduled (`provider.h:82`:
  "retrieving IPMI value"), but nothing is read, and it completes without an alarm
  (`provider.cpp:90-111`, `RunLed`, `DoLedTask`).
* Arguments of OEM commands are split "based on whitespace" (`EntityAddrType.cpp:166`):
  at blanks only, while the regular expression lets tabs through. A tab between two
  arguments makes one of them, and the command throws (`SplitAtBlanks`).
* The site number is "1...16" (`IpmiConnectionManager.cpp:65`): any number is taken,
  modulo 256 (`PowerRequests`). So is VAL: 256 is a zero, which switches a site off
  and does not reboot a chassis (`PowerRequests`, `RebootRequests`). `ExecutesAsLinked`
  states both numbers modulo 256, as the code has them.
* An output that fails is caught and its entity gets SEVR INVALID (`provider.cpp:103`), but the second
  pass of a bo record ignores the entity (`epicsdevice.cpp:241-244`, `SecondPass`): the record
  completes without an alarm. No text promises one.

## 5. Properties that hold although the code looks as if they might not

* A failing read of the SDR leaves the mutex locked, but never lets two threads
  into the maps (`LookupExclusive`): the leak starves, it does not corrupt.
* A partial map never holds a sensor of an older SDR (`MapOfHeader`).
* Failing reconnections never leave a sensor context of a destroyed IPMI context
  behind, because IPMI contexts are only re-created in the disconnected state, in
  which there is no sensor context.
* The unlocked entity is never shared, for any number of records, as long as the
  callback ring has room for all of them (`EntityNeverShared`).

* A turn in which the connection throws skips the SDR manager but not the task, and
  still no sensor is read with a fresh context and old records
  (`TaskUsesCurrentSdr`): a reconnection that throws after `connect()` leaves no
  sensor context, and one that succeeds is followed by the comparison of the headers.
* A thread that has left the mutex of the SDR locked takes tasks to their end
  (`EveryTaskEnds`): it is the thread that owns it.
* A FRU made of uninitialised bytes may take sensors, but none is lost or written
  twice (`DbComplete`).
* Runs of `report-sdr` at the same time can make each other give up, but never all of
  them (`SomeRunGetsThrough`), and never by what a killed one left (`LeftoverHarmless`).

## 6. Proofs

Checked by TLAPS for every value of the constants. Assumptions: the named ASSUMEs of the
modules and, where a theorem says `RingHolds`, that the ring has room for every
record (section 4).

* **`EpicsDeviceProofs`.** `TypeCorrect`. `InFlightOnce` is not inductive: that the
  popped task is in no other place needs that the queue has it once, that
  `pending` has it not, and that a record in one of the intermediate states
  (`sched`, `finish`) has no task anywhere. `ChainInv` says for every record in which
  of these places it is and what `PACT` is then; `RequestsInFlightOnce` and
  `EntityNeverShared` follow. `CommandInv` adds that commands are
  numbered below the pass, strictly while a task is still to be served, which gives
  `CommandsSentInOrder`; `ReadInv` adds what the entity holds between the transfer
  and the second pass, which gives `PostedIsFreshOrAlarmed`.
  `ImplementsAsyncIO`, in the same module, is the safety part of `KeepsContract`, initial
  states and steps. `TakeTask` is a stutter, since the request in service stays the oldest of
  `order`; `ScheduleOk` is `Request`, which needs `InFlightOnce` (the record has no
  task anywhere) and `OpenInv` (a connection that is not being stopped
  accepts tasks); `InvokeCallback` is `Answer`, which needs room in the ring; `BeginCallback` is a
  stutter and `SecondPass` is `Consume`.
* **`ConnectionManagerProofs`.** `HandlesInv` relates the handles: a disconnected
  connection has no sensor context, no cache and no flag; a connected one has an
  opened IPMI context and an SDR context; no sensor context is stale. `ReconnectStep` is the one
  place where five cases matter. `NeverReadsStaleContext` and
  `DisconnectedHoldsNothing` follow, and `TypeCorrect`.
* **`SdrManagerProofs`.** `LockInv` says who may hold the mutex: nobody, a lookup,
  once, or the provider thread, any number of times after exceptions; and always
  the provider thread while it is in `readSdr()`. It gives `TypeCorrect` (the depth never goes below zero) and
  `LookupsExcludeReads`. `MapInv` relates map, header and cache while a read is
  under way and gives `OldSensorsGone`.

* **`DispatcherProofs`.** `OneHome` counts, and a step that stores a provider changes both
  of its terms. `MapInv` says instead that no provider is stored twice
  (`StoredOnce`), that none is lost (`NotLost`), and that a provider in the hands of a shell
  has an id that is still free (`HandInv`); the last needs that only
  the holder of the mutex is at the map (`MutexInv`). `OneOfTwo` turns it into two sets of
  which one is a singleton and the other empty, and `EveryProviderHasOneHome`
  counts them. `FoundStaysCurrent` follows because `Store` writes only to a free id.

* **`FruRecordsProofs`.** The walk erases from the list it iterates over. `Erased` says what
  `erase()` leaves, and `Walking` where the walk of one FRU stands: the orphans are what
  the earlier FRUs left, without what this FRU has taken; what is before the iterator
  does not belong to it. When the iterator is at the end, the FRU has all of its sensors,
  and since all lists stay `Ascending`, in the order the orphans had. `SensorsAttachedOnce`, `TargetIsReset`
  and `TypeCorrect` are conjuncts of one invariant. `LedsAreAsReported` (which LEDs are listed, not their colours) follows from
  where the loop over the LEDs stands: the list has the reported LEDs below its counter,
  and a FRU that the loop is done with has them all, unless it was excluded or a command
  for it failed.
* **`FreeIpmiProviderProofs`.** `ImplementsParts`: every step of the composition is a step of
  `ConnectionManager` and one of `SdrManager`, or leaves them alone, so that putting
  them together adds no behaviour to either. `TaskFindsCurrentSdr` needs three invariants:
  there is a sensor context only in a session that has set `mCacheFileIsOpen` (`ContextInv`); the
  records in memory are those of the stored header, and once `readSdr()` has read it
  that is the header of the cache (`MemoryInv`); where sensors can be read, after the turn
  of the SDR manager the stored header is that of the cache (`CurrentInv`).
  Since the composition implements its parts, the theorems about them carry over by their
  steps: `ConnectionOfProvider` (`NoStaleContext` and `ReleasedWhenDisconnected` of the
  whole) and `SdrOfProvider` (`LookupExclusive` and `MapOfHeader`). `PowerIsSetOrCaught` needs that a power
  command is executed as four bytes only and that a task ends outside the catch clauses only after
  a reply that confirms it, to the request of its own link; its lemma `PowerRequestLength` is about the bytes that are sent.
* **`ReportSdrProofs`.** Any number of runs, any command lines, any SDRs, any leftover. `StageInv` says
  how far a run is that has a valid command line and an open cache. On it stand three
  invariants. `UndisturbedInv`: a run that nobody disturbed finds the file as it left it - absent when
  it is to create it, its own and incomplete when it is to write it, complete when it is to
  open it again - so that its second attempt cannot fail (`LeftoverStopsNobody`). `HopeInv`, as long as
  no call failed: a file that a run has made is being written by it, complete and about to be
  opened by it, or it has been opened; a file of an earlier run meets no run behind
  `delete`; and there is such a file or a run that has not come to `create`. When all have ended, only
  a run that got through is left as an explanation (`OneRunGetsThrough`). `WrittenInv` follows the
  lists: every sensor of the SDR is an orphan or attached, never both, and not an orphan if one of
  the FRUs that are done owns it; what is attached is attached to the first owner; the
  database is what the lists say. `EachSensorOnce` turns it into `DatabaseIsComplete`.
* **`SensorLimitsProofs`.** `LimitsInv`: during the first loop the list has the readable thresholds that EPICS has a
  limit for, as far as the loop is; during the second each of them is still in the list or scaled
  in its field, and the others are unset. It gives `LimitsAsReadable`. `DecodedAsMeant` (the arithmetic
  of a `char` against the meaning of a byte, for every byte and analog format) and `ScaleIncreases` (products
  and quotients of unknowns: `ProductOrder` reduces the ones to the distributive law, `QuotientOrder`
  the others to division with remainder) give `LimitsKeepOrder`, for every m that is not
  negative, every b and all exponents of four bits (`ExponentsFit`).

Every invariant that a passing run checks is a theorem, and so is every action property but one.
Only model-checked: all liveness and the fairness of `AsyncIO`, which are out of the
prover's reach; and `ExecutesAsLinked` of `FreeIpmiProvider`, since `SplitAtBlanks` is a recursive
function along the text, and that it finds the words a link has would need induction over
data.

## 7. Not modelled

The linearisation functions and the rounding errors of doubles; the value of a reading; LED colours;
the parser of sensor links (`EntityAddrType.cpp:128-144`), which masks entity ids to a byte - those in an
SDR are bytes, so that only links written by hand are affected - and takes quotes inside a
name off as well: `report-sdr` writes a name as it is (`LinkOf`), and a sensor with a quote in its
name is not found by that link; a stream that fails while `report-sdr` writes the
database (the disk is full: `write_db_file()` does not look, `WriteDb` writes everything); an
`epicsThreadCreate()` that fails in `start()`, whose result is ignored as well;
logging; the layout of reports (`print.cpp`) and the records of LEDs (`EpBiRecord.cpp`,
made by code that is commented out); the head of a link; the vendored `variant.hpp`,
which is a third of the lines of the repository's source, the stand-alone
`ipmisensor.cpp`, the standard main program. Limits that an earlier reading left in
the entity (`provider.cpp:96`) need a device whose sensor changes under one key, and
no text promises anything about them.

## 8. Plan

1. *(done)* Device support and provider with their contract; connection; SDR;
   dispatcher; FRUs; limits; the proofs of section 6.
2. *(done)* The composition of a provider; links and OEM commands; `report-sdr`.
3. *(done)* The proofs about `FruRecords` and the composition of a provider.
4. *(done)* `LedsAsReported`; the theorems about the parts carried over to the composition;
   `PowerSetOrCaught`; the proofs about `ReportSdr` and `SensorLimits`.
5. The part of `ExecutesAsLinked` that is about the exchange: what is sent is one of the
   `Requests` of the link, each at most once.
