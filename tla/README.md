# Verification of the USBDriver kernel driver

USBDriver is a Windows (WDM) function driver for a USB 2.0 device. It has no
threads of its own: its code runs in the threads that send it requests, in the
completion routines of the requests it passes down, and in callbacks of the power
manager. There is one lock (`myMutex`), held around a few allocations. What can go
wrong is therefore in the order in which these steps interleave and in what is left
behind when one of several steps fails. The modules here model that, TLC checks them
on small instances, and TLAPS proves all the safety properties for all instances.

## 1. Inventory

| Part | Code | State | Operations | Module |
|---|---|---|---|---|
| Synchronous URB submission | `submiturb.cpp` 7-77 | IRP, event on the caller's stack | `SubmitUrbSync`, its completion routine | `SubmitUrb`, contract `SyncCall` |
| Asynchronous URB submission | `submiturb.cpp` 82-139 | the request's own IRP, the URB | `SubmitUrbAsync`, its completion routine | `IrpDispatch`; `Transfer` in `PipeTable` |
| Descriptor cache | `ioctrlhelper.cpp` 190-290, `ioctrl.cpp` 38-60 | `deviceDesc`, `confDesc`, `myMutex` | `GetDeviceDesc`, `GetConfDesc`, the copy in `SendEP0Ctl` | `DescCache`, `Device` |
| Pipe table | `ioctrlhelper.cpp` 328-471, 509-713, 836-910 | `pipeCount`, `pipeInfos`, `myMutex`, `confHandle` | `SelectConfiguration`, `SelectInterface`, `SendNonEP0CtlData`, `AbortPipe`, `ResetPipe`, `GetNumEndpoints` | `PipeTable`, `DescriptorWalk`, `Device` |
| Power management | `power.cpp`, `ioctrlhelper.cpp` 740-783, `ioctrl.cpp` 235-250, 336-351 | `pwrState`, events, IRPs kept in completion routines | the handlers of `DispatchPower`, `SetPwr`, four callbacks | `Power` |
| Request dispatch | `stdroutine.cpp` 142-203, `ioctrl.cpp` | the IRP of each request | `DispatchDeviceIOControl` and 21 handlers | `IrpDispatch`, contract `RequestContract`, `Driver` |
| Endpoint 0 requests | `ioctrlhelper.cpp` 5-187, 293-325, 474-507, 716-738 | none | `GetStatus`, `Feature`, `SetAddress`, `GetConfiguration`, `GetInterface`, `VendorRequest` | `IrpDispatch` |
| Port reset | `ioctrlhelper.cpp` 913-964 | event | `ResetParentPort` | `IrpDispatch` |
| Registry | `ioctrlhelper.cpp` 787-833, `ioctrl.cpp` 252-270 | none | `GetRegister`, `GetFriendlyName` | `IrpDispatch` (what it keeps) |
| Plug and play | `pnp.cpp`, `AddDevice` | the extension, the symbolic link, the stack | start, remove, default, `ForwardAndWait` | `Pnp`, `Driver`; blocks in `DescCache`, `PipeTable` |
| Entry, unload, create, close, cleanup | `stdroutine.cpp` | `registryPath` | `DriverEntry`, `Unload`, `DispatchCreate`, ... | `Pnp`, `Driver` |
| Cancel routine | `stdroutine.cpp` 235-262 | | `OnCancelIrp` | not modelled: never registered |

How they interact: every request enters through the dispatch table and runs in its
sender's thread. The handlers share the device extension: the descriptor cache and
the pipe table are read by all, and replaced by some, of them. Everything that talks
to the device goes through `SubmitUrbSync` or `SubmitUrbAsync`. Removal frees what
the cache and the table own, once the last handle is closed. The power handlers share
only `pwrState` with the rest.

What is hard, and what would make each part correct:

* *submission*: the completion routine races with the return of `IoCallDriver` and
  with the wait; it must never touch a frame that is gone, the wait must end, the
  IRP must be given back;
* *descriptor cache*: pointers are tested, dereferenced and handed to the bus driver
  without the lock that protects their replacement; blocks must be freed once, and a
  cached descriptor must be complete;
* *pipe table*: count and array are two variables, replaced in one critical section
  and filled in another, after the device has already switched; they must agree with
  each other and with the device, and a flag must follow its pipe;
* *power*: a system IRP waits for a device IRP, a thread waits for a callback; each
  must be answered exactly once, and `pwrState` must follow the device;
* *requests*: a handler has many ends, each of which must complete the request, or
  leave it to a completion routine, but not both, and give back what it took;
* *plug and play*: what `AddDevice` and the start acquire must be given back whatever
  fails, and not while a request needs it.

`PROJECT.json` lists the hazards line by line with the properties aimed at them.

## 2. Modules

`MC<X>.tla` gives the constants of `<X>.tla` values for TLC, one `.cfg` for each
question; `<X>Proofs.tla` holds the TLAPS proofs. The operators named `Bug...` are
mutations: plausible mistakes in the definition that follows them, each of which
must break a stated property. They take no part in any specification.

### SyncCall and SubmitUrb

`SyncCall` states what `SubmitUrbSync` promises: the URB is lent at most once per
call, the call does not return while it is lent, and it returns the bus driver's
status. `SubmitUrb` is the code: a thread allocates an IRP (`Allocate`), sets the
completion routine (or fails to) and calls the driver below (`CallDriver`), which
marks the IRP pending, completes it, or both, before or after `IoCallDriver` returns
(`CallReturns`), waits (`WaitDone`) and reads the status (`ReturnStatus`). The
variable `event` is the `KEVENT` on the stack; it is "gone" when the frame is.
`IoFreeIrp` stands under the failure test at the label `Exit`: a call that succeeds
keeps its IRP for ever. The model says so (`leaked`), `FailureFreesIrp` says that
nothing else is lost; a pool of n IRPs is used up by n successes. The checked
behaviours include the exhausted pool.

`ImplementsSyncCall` is the refinement, with `urbOf` as the refinement mapping. A
refinement without fairness allows a call that never returns; `WaitIsWoken` is the part
of the progress that is safety: whoever waits has its event set, or an IRP below whose
completion will set it.

### DescCache

One step for each access to shared state: `Lookup` (the test without the mutex),
`LockAndFree`, `AllocAndUnlock`, `Check`, `Build`, the bus driver's answer,
`ReadTotalLength`, and for the configuration descriptor a second pass of the same
steps; then `Measure` and `Copy` in `SendEP0Ctl`. `SubmitUrbSync` appears as its
contract: between `Build` and `BusCompletes`/`BusFails` the URB is lent, which
`SubmitUrb` justifies. A block holds what has arrived in it: "blank", "head" (the
fixed-size header), "whole", or "junk" (written for something else).

`room` is the length a block was allocated for: that of a device descriptor, of the
header, `wTotalLength`, or garbage that was read as `wTotalLength`, which is unlike any
other length. Two requests that both find NULL free and allocate the block in turn, so
that the URB of the first may be out over memory that is free, or shorter than its
answer (`WritesWild`). Such a write is undefined. The model has both outcomes: it hits
the pool's or another owner's data and the system stops (`BusOverwrites`), or it hits
nothing in use and the request goes on (`BusCompletes`, with what the block then holds
in `Arrived`). Two overlapping requests reach it without any failure. It is a hazard the
code does not exclude, hence no property of overlapping requests does:
`PointerNeverNull` speaks of NULL only, and `RequestReturns` excepts a system that has
stopped. For one request at a time `NoBugcheck` in `Device` excludes it.

NULL, an uninitialised URB pointer and such a write halt the system (`bugcheck`).
Reading freed memory, or beyond the end of a block, gives garbage.

Left out: that such a read faults, and that an overwriting corrupts data without
stopping the system; the parameter `refresh`, which no caller sets. The calls from
`SelectConfiguration` and `SelectInterface` and the contention for `myMutex` by the
pipe table are in `Device`.

### PipeTable

`SelectCompletes` is the moment the device switches; `Publish`, `AllocAndUnlock`,
`TestArray`, `Fill` follow, in two critical sections; readers (`Scan`, `UseEntry`,
`Mark`) read `pipeCount`, `pipeInfos` and the entry anew at each step. A pipe handle
is good for one selection. An entry that is freed or not yet filled reads as
garbage, which may or may not match; a write outside the array halts the system.
`GetNumEndpoints` only reads `pipeCount`; `TableMatchesDevice` says when that is
the number of endpoints of the setting the device is in.

Left out: configurations with several interfaces (`SelectConfiguration` refuses
them, `ioctrlhelper.cpp:377-384`); the synchronous transfers of `SendNonEP0Direct`,
whose use of the table is the same; isochronous transfers, whose URB never gets the
pipe handle (`ioctrlhelper.cpp:664-672`). What a selection does before its URB is in
`Device`.

### Device and DescriptorWalk

`Device` instantiates `DescCache` and `PipeTable` over one mutex, one set of threads
and one life of the device, and adds what the selections do before their URB. A
selection begins (`BeginSelect`) inside `GetConfDesc`, whose steps are those of
`DescCache`; it finds its interface descriptor in the cached block (`FindInterface`),
the device switches (`Select`), and `PipeTable` replaces the table (`ReplaceTable`).
`SelectConfiguration` reads the descriptor twice more, in the loop over the
interfaces (`CountInterfaces`, `CountAgain`). `where[t]` is the byte the URB points
to; a block that is not whole lets the search stop anywhere.

`DescriptorWalk` is the search as a recursive function on byte positions, over the
layouts a device may list its settings in. `SearchFinds` checks it in place against
the definition of what it should find; `SearchInv` adds what the search starts from.

`NoWaitWithMutex` says why one mutex cannot deadlock these functions, although a
selection takes it inside `GetConfDesc` and twice more itself: its owner is always
about to allocate and release it.

`UseEntry` and `FindInterface` each stand for several reads of one entry or block. No
property that is checked or proved for overlapping requests depends on what they read.

Left out: layouts with class-specific descriptors in between, which the search does
not expect; the release of `pdx->confDesc` under a URB that points into it, which
overlapping requests can bring about (`ioctrlhelper.cpp:271` beside 399 and 572) and
which the bus driver would see as garbage.

### RequestContract and IrpDispatch

`RequestContract` states what a dispatch routine owes the I/O manager: a request is
completed once, with a status that stays; the routine returns that status, or
`STATUS_PENDING` just for a request completed with the pending mark, then or later.
`IrpDispatch` is the life of a request in the code. `code` is what it asks for, `pc`
where its thread is: in its handler, waiting for a URB ("bus"), inside another module's component
("away"), inside `IoCallDriver` ("calling"), or about to complete the request
("answer"). One action per handler says whether it waits, what it has allocated
(`held`) and which status it ends with; handlers that do the same to the request
(the eight that are not implemented, the seven that build one URB) share an action.
`SendNonEP0Ctl` passes the request on: then the driver below and the completion
routine race with the return of `IoCallDriver`, the mark `pended` and the returned
status must agree, and nobody frees the URB. `SendNonEP0Ctl` forgets the request
(`Forget`) on three paths. `SendNonEP0Direct` runs in a `__try`: each access to the
application's memory may fault (`Caught`), with what was allocated until then kept.
A status that is read uninitialised is "junk".

`ImplementsContract` is the refinement. Its mapping shows the final status once the
request is completed (`outcome`) and nothing before, although the code writes
`IoStatus` earlier; what the code forgets (`Forget`, and nothing else) is the
contract's `Drop`.

Left out: `IoStatus.Information` (`SendEP0Ctl` reports no data for all requests but
the two descriptors, `ioctrl.cpp:95`); the contents of isochronous URBs; the value
`GetRegister` copies.

### Pnp and Driver

`Pnp` has the life of the device: `own` is what the driver has acquired for it,
`irp`, `at` and `event` are the start request, its thread and the event of
`ForwardAndWait`, whose refinement of `SyncCall` is the property
`ImplementsSyncCall`. Two failures leave something behind, and the model says so:
`AddDeviceFails` (the device object is deleted but not detached) and `EnableFails`
(the start request is never completed). The USBD handle is never closed.

`Driver` composes `IrpDispatch` and `Pnp` through the handle an application opens:
requests need a handle, a handle needs an enabled interface, removal needs that no
handle is left. This is how the I/O manager and the PnP manager behave: the file
object lives until its last request is over, `IRP_MN_REMOVE_DEVICE` comes after the
last close, no handle is opened after a surprise removal. Hence
`DeviceOutlivesRequests` rests on requests not being completed too early, which is
what its mutant does.

### Power

A system IRP is passed down (`SystemQueryPowerHandler`, `SystemSetPowerHandler`), and
kept on its way up by `OnQueryRequestComplete` or `OnSetRequestComplete` until the
callback of a device IRP completes it. `queue` holds the device IRPs asked of
`PoRequestPowerIrp`; the power manager sends the first one, which goes through
`DeviceQueryPowerHandler` or `DeviceSetPowerHandler`, the bus driver
(`DeviceSwitches`) and `OnDeviceSetComplete`. A completed device IRP stays in `calls`
until its callback has run; whether that happens before the power manager sends the
next one is not assumed. `SetPwr` is the thread of
`IOCTL_ADAPT_SET_DEVICE_POWER_STATE`; when its query cannot be asked for it returns
without a trace, which is a stuttering step.

Left out: `IRP_MN_WAIT_WAKE`, the minor functions that are passed through, and the
value of `DispatchPower` (-1 for device IRPs it has marked pending, `power.cpp:13`):
the power manager does not look at it.

## 3. Runs

| Run | Instance | Shows |
|---|---|---|
| `submit_urb` | 2 threads, 3 IRPs | `EventFrameAlive`, `FailureFreesIrp`, `WaitIsWoken`, refinement, every call returns |
| `desc_cache_ownership` | 2 threads, 3 blocks, all failures | `CachedBlocksLive` (nothing is freed twice), `NoLeak`; while memory lasts no request finds NULL, and every request returns unless memory was overwritten |
| `desc_cache_failed_fetch` | 1 thread, bus failures | **violated**: a failed fetch stays cached |
| `desc_cache_overlap` | 2 threads, no failures | **violated**: an overlapping request delivers an incomplete descriptor |
| `pipe_table_ownership` | 2 threads, 2 settings, 2 selections, all failures | `CountMatchesArray`, `NoLeak` |
| `pipe_table_abort` | 1 thread | **violated**: the second abort does nothing |
| `device_serial` | 1 thread, all requests, 3 settings in 3 layouts, 2 selections | what is delivered, cached and held is complete; the search finds; table, URBs and flags follow the device; the system stops only for want of a URB |
| `device_shared` | 2 threads, descriptor requests and selections, no failures | the descriptor is never read through NULL; every request returns |
| `power_irps` | 2 users, system IRPs to sleep and back, all failures | each callback finds its event, its system IRP, once; `SetPwr` and system IRPs end; `pwrState` follows the device |
| `power_set` | 1 user, no failure | **violated**: `SetPwr` returns before the state is set |
| `driver` | 1 request of any kind, 1 asynchronous transfer, all failures | requests keep the contract with the I/O manager, resources returned, device outlives requests; the start request keeps `SyncCall` and its thread is woken; start and removal end |
| `clear_feature` | 1 request | **violated**: clearing a feature sets it |

The violated properties are statements of the repository's own comments (quoted in
`PROJECT.json`, "findings"), and each counterexample is a behaviour of the code as
it stands. Where a property fails for overlapping requests, the run that passes has
one thread: it says what the code does achieve (an application that sends one
request at a time), not that overlap is harmless. Where a property excepts a state
(`Forgotten`, "lost", `Kept`), it is one the code does reach, named in the hazard at
its line: the property says that nothing else goes wrong.

*Bounds.* Two threads are enough for every pair of steps to interleave; the modules
have no step whose effect depends on a third thread, and the proved invariants hold
for any number. Three blocks let each of the two pointers be replaced while both
are in use; with two blocks in the pipe table the array can move to another block or
the same one (in `device_shared`, where the table is not in question, there is one such
block). Settings of no, one and two endpoints, sharing an address at different
indices, make a wrong length, a wrong index and a wrong stride visible, in layouts
that list them in either order or leave one out. `MaxSelects` bounds the
generations of pipe handles: with two, a pipe of the setting before the last is stale.
In `driver` requests are independent but for the handle, so that one of any kind
beside one that is passed down meets every interleaving that matters to the device;
kinds that differ in nothing but their name are sent once. `answers` counts to 2, one
more than is right. Nothing else is bounded.

`CHECK_DEADLOCK FALSE` stands where the system can really stop: a bugcheck is
reachable (for want of memory, or by a URB that was overtaken), a selection count is
used up, a request is forgotten, or the start request is lost.

*Fairness.* A thread inside the driver is scheduled again; the bus driver completes
every URB and power IRP it holds (with a failure when the device is gone), which is
the contract of a lower driver; the power manager sends queued IRPs and runs their
callbacks. After a surprise removal the application closes its handle, and the PnP
manager removes a device that is gone, or whose start failed: so does Windows when it
has sent those requests. All of it is weak fairness. No fairness is given to the
mutex: weak fairness is enough in `desc_cache_ownership` and `device_shared` because
only a request that found the cache empty, or one of a bounded number of selections,
takes it, and these run out as long as allocations succeed (a failed one
empties the cache again, hence `starved` in `RequestReturns`). Nothing makes an
application send requests.

## 4. Proofs

All proofs are of `Spec`, for any value of the constants that satisfies the named
assumptions (the model value `NULL` is nothing else, not even an entry of the pipe
table; flags are Boolean, settings list endpoint addresses, a device lists the setting
`SelectConfiguration` selects first; nothing is assumed finite).

* `SubmitUrbProofs`: `TypeOK`, `EventFrameAlive` and `FailureFreesIrp` alone are not
  inductive. `IInv` adds what each place of the code knows of its IRP (`CallState`),
  that an IRP below belongs to a call that is still in it (`IrpState`), and that no two
  calls have one IRP (`OneCallPerIrp`). That the event is set exactly if the IRP has come
  back marked gives `WaitIsWoken`. The refinement is then proved step by step.
* `DescCacheProofs`: `IInv` adds that a thread between free and allocate owns the
  mutex (`MutexHeld`; not the converse, since `Device` has other owners) and that the
  only pointer that may dangle is the one this thread has just freed (`Dangling`). From
  these follow `CachedBlocksLive` and `NoLeak`: the pointers may be used at the wrong
  time, but the blocks are never lost or freed twice. `HasBlock`, inductive on top of
  `IInv`, says that a request past the allocation has a block while memory lasts;
  `PointerNeverNull` follows from it. `Serial` is the invariant of one request at a time: what
  the thread knows of its block at each place (`FetchState`: its URB is built over the
  cached block, which has room for the answer), and that every other cached block is
  whole.
* `PipeTableProofs`: `IInv` adds that there is no array between free and allocate
  (`ArrayThere`), so that no reader's write can spoil one, and that `Fill` and
  `Mark` do not change an array's length. `Serial` says, for one request at a time, that
  a selection works for the setting the device is in (`SelectState`), that a matched
  entry stays that of its endpoint (`UseState`), and that outside a selection the
  table describes the device.
* `DeviceProofs` takes both as instances. A step of `Device` is a step of one component
  beside a stutter of the other, a step of both (a selection begins, the device comes or
  goes), or the end of a request in one (`CacheProjects`, `TableProjects`). The shared
  mutex is what one component changes under the other: a thread is in one of them at a
  time (`SelectionState`), hence neither releases what the other holds (`OwnerStays`).
  `DescriptorNeverNull` needs two more parts: only a configuration descriptor is
  measured (`SizesConfDesc`), and the pointer a selection has tested stays
  (`DescriptorThere`), because no fetch frees it but one that found it NULL. This holds
  for any number of threads. The properties of one request at a time follow from
  `SerialInv` under the hypothesis `OneAtATime`: one thread, a bus that serves
  descriptors, memory for the table. These are what the violated runs
  `desc_cache_overlap` and `desc_cache_failed_fetch`, and the hazard at
  `ioctrlhelper.cpp:603`, show to be necessary; failures of descriptor allocations, and of
  the bus in everything else, are allowed. `device_serial` is an instance of it.
  `NothingStops` is the theorem that without overlap none of the ways to a bugcheck is
  taken but the missing URB (`ReadsRight`: a selection reads what a device listed).
  `NoWaitWithMutex` needs none of these: a step of either component takes the mutex on the way
  to its allocation, gives it back, or is a step of a thread that does not have it
  (`MutexUse`).

  `SearchFinds` is proved for every device, with any number of settings and endpoints,
  from facts about `DescriptorWalk` alone. Offsets are sums over the layout, so they are
  naturals that increase (`SumsAreNatural`, `Increasing`) and no two interface descriptors
  begin at one byte (`DescriptorPlaces`); the recursive search is forward, hence a function
  (`ForwardSearch`); and from the n-th descriptor it reaches the first place not before n
  that lists the setting, or the end (`SearchIsRight`). The induction is written as a least
  counterexample in a set of numbers (`LeastElement`), which needs no operator as a
  parameter. `SearchInv` is what makes it hold of a step: `SelectConfiguration`
  takes the first descriptor unsearched because it asks for the setting that is listed
  first, and a search begins only in a block that is whole (`SerialInv`). That last
  fact is why the theorem stands under `OneAtATime`.
* `PowerProofs`: a device IRP is in the queue or waits for its callback, and who asked for
  it is in its record. `IInv` adds that only a queued IRP can be below and only a set IRP
  switches the device (`FirstIrp`), that of `SetPwr`'s IRPs only queries have a callback
  that matters (`UserCalls`), and that without a set IRP of `SetPwr` the system's is the
  only one (`SystemSets`), so that while its callback is due nothing moves the device
  again. From this follow `PwrStateFollows` and the action property
  `SystemSetReachesDevice`.
* `IrpDispatchProofs`: that a request is completed once is not inductive, since
  nothing in it says that the handler and the driver below do not both have the
  request. `IInv` adds where a request may be (`WhereItIs`), that the pending mark is
  that of the driver below once it has completed the request (`Marks`), what a
  request holds before it is answered (`Holds`), and that the dispatch routine has
  returned exactly when its thread is gone, with the final status or `STATUS_PENDING`
  (`Returned`). `KeepsContract` then maps each action to the contract: a handler that
  answers is `Answer` (`AnswerContract`), a completion from below is `Complete`, the return
  of `IoCallDriver` is `Return` whichever of the two comes first, `Forget` is `Drop`, and
  all other steps are stutters (`Quiet`). `AnsweredOnce` and `ReturnAgrees` state two
  consequences directly.
* `PnpProofs`: `RoundTrip` ties the start request, its thread and the event together;
  the refinement of `SyncCall` and `StartIsWoken` follow. `Attached` and `Exposed` are
  what `Driver` needs of the device.
* `DriverProofs` takes both proof modules as instances: each step of `Driver` is a
  step, or a stutter, of `IrpDispatch` and of `Pnp` (`Projects`), so that their
  invariants, the refinement of `RequestContract` and the theorems about `Pnp`, carry
  over. `HandleHolds` (a handle stands
  on a device that is there, requests stand on a handle) makes the composition, and
  `DeviceOutlivesRequests`, inductive. `SameRequests` and `SameLife` say only that
  two instances of one module are the same.

Three statements had to be changed before they could be proved:

* "a callback is due for a kept system IRP" is not inductive, and does not exclude that
  a callback of the other minor function completes it. `SystemIrpCompletedOnce` now
  says that exactly one is due and that it belongs to the IRP. It is so because the power
  manager has one system IRP under way, not because of a check in the driver.
* The invariants of `DescCache` and `PipeTable` took the owner of the mutex for a thread
  of their own. TLC refuted them in `Device`, where one mutex serves both.
* `DescriptorNeverNull` was checked without failures only. Proved, it excepts just the
  states after a failed allocation (`starved`), and covers failures of the bus.

Only model-checked: liveness under fairness (`CallReturnsEventually`, both modules'
`RequestReturns`, `EveryRequestAnswered`, `PnpEnds`, and in `Power` `SetPwrEnds` and
`SystemIrpEnds`), which is beyond the prover. `WaitIsWoken`, `StartIsWoken`,
`NoWaitWithMutex`, `SetPwrFrameAlive` and `SystemIrpCompletedOnce` are the safety those
rest on, and are proved: nobody waits for something that is not due. `NoWaitWithMutex`,
`AnsweredOnce` and `ReturnAgrees` have no run of their own, since `RequestReturns` and
`ImplementsContract` fail where they would; TLC found no
counterexample to them on the same instances. The properties of the
violated runs are refuted, not proved. Each `IInv` was also checked by TLC as an invariant
before it was proved: that of `Device` on the instance of `device_serial` and on one with
two threads and every failure, `SerialInv` and `SearchInv` on that of `device_serial`, that
of `IrpDispatch` on that of `driver`.

## 5. Not modelled

* `OnCancelIrp` (`stdroutine.cpp` 235-262): no code calls `IoSetCancelRoutine`, so it
  never runs, although `usbdriver.h` 78-81 describes how it would.
* `IRP_MN_WAIT_WAKE`, which nobody sends to this driver; the power and PnP requests
  that are passed down unchanged; the value of `DispatchPower`.
* Requests with a buffer of length zero, for which the I/O manager passes no buffer.
* Lengths and contents: `IoStatus.Information`, isochronous packets, the registry
  value, the bytes of descriptors beyond what the search reads. No behaviour of the
  models depends on them.
* `IoAttachDeviceToDeviceStack` failing (`stdroutine.cpp:75`): the pointer is not
  tested, everything after it would fail.
* `DisplayProcessName` and the debug output.

## 6. Plan

Every safety property and every refinement of a passing run is proved. What could follow:

1. An abstract specification of the cache (a descriptor that is absent, being fetched or
   complete), implemented by `DescCache` for one request at a time.
2. The same for the pipe table: an abstract table that a selection replaces in one
   step, implemented by `PipeTable` for one request at a time. `Serial` of both modules
   has what the refinements need.
