# A TLA+ model of dk_asio_user

dk_asio_user moves the output of a Windows music program to a play device over
TCP. Three programs take part:

* **AS**, the audio source: `dk_asio_user.dll`, an ASIO driver that a music
  program (the *host*) loads. An ASIO thread asks the host to fill one half of a
  double buffer and sends it, one package per channel.
* **PD**, the play device: `dk_pd_mock.exe`, which asks for the halves one by one
  and writes each channel to a file.
* **ACP**, the control panel: `dk_acp.exe`, where an AS registers and where the
  user enters the address of the PD and clicks Connect.

This directory holds models of the parts of these programs whose correctness
depends on the order of things, TLC configurations that check them on small
instances, and proofs, checked by TLAPS, of what matters most. The repository
has no tests; what the programs promise is taken from `doc/操作流程.txt`
("操作流程", the operating steps 1-14), from comments and assertions, and from
the code itself.

## 1. The system

### Components

| Component | Source | State | Operations |
|---|---|---|---|
| ASIO driver | `dk_asio_user/dk_asio_user.cpp` | flags, two buffer events (auto-reset), stop event (manual-reset), thread handle, double buffers, active outputs | createBuffers, disposeBuffers, start, stop, future, destructor; `DKASIOThreadProc`, `_bufferSwitch`; wantDataBuf0/1 |
| PCM engine | `.../framework/dk_pcm_engine.cpp` | the attached interface, a lock | interface change, WANTDATA 0/1 |
| AS root | `.../framework/dk_asio_root.cpp` | the attached interface, the events that tie the parts together | setASIOInterface |
| PD proxy | `.../framework/dk_pd_proxy_4_render.cpp` | socket client, decoder, send buffer | connect, connected, disconnected, package handler, sendPCMData, sendNewInstance |
| ACP proxy | `.../framework/dk_acp_proxy.cpp` | socket client, decoder | register, report connection and disconnection, CONNECT_PD |
| Play device | `dk_pd_mock/framework/asio/*` | two buffers and two valid lengths per channel, three auto-reset events, files | receive callback, render thread, start-up |
| Control panel | `dk_acp/dk_acp.cpp`, `dk_acp/framework/dk_as_module.cpp` | status, two window texts, socket server, decoder | click, package handlers, window updates |
| Socket client | `dk_common/dk_socket_client.cpp` | socket, destination, lock | connect, closeConnect, send, isConnected, destructor; connect thread, receive thread |
| Socket server | `dk_common/dk_socket_server.cpp` | current connection, lock | start, send, destructor; accept thread, receive thread |
| Package decoder | `protocol/laudio_pack_decoder.cpp` | cache, its valid length | pushback |
| Ring cache, block cache | `dk_common/dk_ring_cache.cpp`, `dk_block_cache.cpp` | buffer, start, length | pushback, pop, copy, flush, reset |
| Lock, events, guards | `LLXTSHelper`, `hmcmn_event`, `FuncPack`, `MemFuncPack` | two events and a flag; a deque | enter, exit, cancel; bind, invoke |
| Buffers, clock and position | `dk_asio_user/dk_asio_user.cpp` | channel tables and their memory, rate, time info, time, position | createBuffers, disposeBuffers, setSampleRate, setClockSource, getSamplePosition, `_bufferSwitch`, `_bufferSwitchTimeInfo` |
| COM server | `common/dllentry.cpp`, `common/combase.cpp`, `.h` | counts of locks, objects and references | DllGetClassObject, class factory, AddRef, Release, LockServer, DllCanUnloadNow |
| Registration | `common/register.cpp` | the registry | RegisterAsioDriver, UnregisterAsioDriver |

### How they interact

    host --calls--> DKASIOUser --packages--> PD proxy ==TCP==> PD receive thread
                       ^                        |                   | events
                       | events                 |                   v
                    PCM engine <--WANTDATA------+  <==TCP==   PD render thread --> files

    user --click--> ACP main thread ==TCP==> ACP proxy --event--> PD proxy
    ACP window <--SetWindowText-- ACP receive thread <==TCP== ACP proxy <--event-- PD proxy

    host --DllGetClassObject, CreateInstance, AddRef, Release, DllCanUnloadNow--> COM server
    regsvr32 --DllRegisterServer, DllUnregisterServer--> registration --> registry

The audio path is a *pull*: PD asks for a half (WANTDATA_BUF0/1), the AS's
receive thread sets an event, the ASIO thread has the host fill that half and
sends its channels, PD's receive thread copies them and, with the last one, sets
an event that wakes the render thread, which asks for the other half and writes
this one. It is started by one NEW_INSTANCE package per connection, which either
the connect thread (a connection comes up while an interface is attached) or the
host's thread (an interface is attached while there is a connection) sends.

### What is hard

* **No lock on the samples.** The double buffers on both sides are protected only
  by the order request, answer, event. Auto-reset events forget a second signal.
* **No lock on a close.** `dk_socket_client`'s receive thread closes the socket
  without the lock the other threads take.
* **Assignments after notifications.** setASIOInterface tells its listeners about
  an interface before it assigns it.
* **Waits that give up.** stop() and the destructor wait a second for the ASIO
  thread and go on in any case. m_uFlag is changed by two threads.
* **Restarts.** All programs reconnect by themselves; decoders, statuses and
  buffers of the earlier connection are kept.
* **A server that starts before its listeners.** The panel's server runs before
  its window, and before its handlers are bound.
* **Threads that outlive their object.** Destructors cancel a lock, close a socket
  and wait without a limit for threads that may be in `recv`, and for some they
  do not wait at all.
* **A lock that a thread cannot enter twice.** Callbacks send, and sending takes
  the lock of the thread that invokes them.
* **Registry calls whose results nobody reads.** A registration may be cut, or one
  of its calls may fail, at any point.
* **Counts that are read twice.** The COM server looks at a count again after the
  interlocked call that changed it, and at two counts one after the other.

### What makes each component correct

* Audio path: at most one request or answer under way, no copy into a half that
  is being written to the files, all channels of a half from one callback, every
  block written once and in order, playing goes on while started, stop() returns.
* Driver lifetime: no signal to a dead object, no buffer freed while it is used,
  one thread per object, no request dropped, every request served.
* Session: after the last connect() and crash both ends agree on a connection,
  and the pull is started on it.
* Panel: a source that runs is shown, a click never hangs, the status is true.
* Decoder: the packages handed over are the packages sent, however recv cuts.
* Caches: a bounded queue of bytes, a bounded queue of blocks; no copy leaves the
  buffer.
* Socket server and client: only the lost connection is closed, calls and
  callbacks return, and so do the destructors.
* Buffers, clock, position: every allocated buffer belongs to one channel, the
  host is told the time and position of its own block, a change stays flagged
  until it is told or the buffers are created anew.
* COM server: no object is destroyed or left without its DLL while it is used,
  and none is leaked.
* Registration: complete after a run in which nothing failed, gone after an
  unregistration, and nobody else's keys are touched.

The components that are not modelled, with the reasons, are listed in
`PROJECT.json` and in section 8.

## 2. The modules

| Module | Models | Composition |
|---|---|---|
| `AsioLink` | the render connection while it is up, and its packages | |
| `AsioDriver` | DKASIOUser, its ASIO thread, its host | EXTENDS AsioLink |
| `PlayDevice` | receive and render threads of PD | EXTENDS AsioLink |
| `BlockPipe` | abstract: a pipe of numbered blocks to several players | |
| `AudioPull` | the audio path | EXTENDS AsioDriver, PlayDevice; refines BlockPipe |
| `AudioPullProofs` | theorems about AudioPull and PullReconnect | EXTENDS PullReconnect |
| `PullReconnect` | the audio path over connections that break | EXTENDS AudioPull |
| `TcpStream` | connections: handles, backlog, bytes under way, ends | |
| `SocketClient` | dk_socket_client | EXTENDS TcpStream |
| `SocketServer` | dk_socket_server | EXTENDS TcpStream |
| `RenderSession` | connecting, attaching, NEW_INSTANCE, crashes | EXTENDS SocketClient, SocketServer |
| `RenderSessionProofs` | its types | EXTENDS RenderSession |
| `DriverLifetime` | objects, threads, buffers, flags of DKASIOUser | |
| `DriverLifetimeProofs` | theorems about DriverLifetime | |
| `DriverCalls` | buffers, clock, position, `_bufferSwitch` | |
| `LLXTSHelper` | the lock | |
| `ServerLife` | dk_socket_server from start() to its destructor | EXTENDS LLXTSHelper |
| `ClientLife` | dk_socket_client from its constructor to its destructor | EXTENDS LLXTSHelper |
| `Registration` | register.cpp on the registry | |
| `RegistrationProofs` | theorems about Registration | |
| `ComServer` | class factory, reference counts, unloading | |
| `PackDecoder` | laudio_pack_decoder on a byte stream | |
| `PanelSession` | dk_acp and the AS's side of it | |
| `PanelSessionProofs` | its types | EXTENDS PanelSession |
| `BoundedFifo` | abstract: a bounded queue of bytes | |
| `RingCache` | dk_ring_cache | refines BoundedFifo |
| `BlockFifo` | abstract: a bounded queue of blocks | |
| `BlockCache` | dk_block_cache | refines BlockFifo |
| `BlockCacheProofs` | theorems about BlockCache | EXTENDS BlockCache |
| `MCLibrary` | the classes of dk_common and the decoder, side by side | EXTENDS RingCache, PackDecoder, ServerLife; INSTANCE of BlockCache, ClientLife |
| `LibraryProofs` | theorems about the ring, the decoder, the server, the client and the run that has them all | EXTENDS MCLibrary; INSTANCE of BlockCacheProofs |
| `MCDll` | what is called in the DLL apart from the audio path, side by side | EXTENDS ComServer, Registration, DriverCalls |
| `DllProofs` | theorems about ComServer and DriverCalls | EXTENDS ComServer, DriverCalls |

### Audio path

`AsioDriver` has one variable per piece of state of DKASIOUser that the pull
depends on: m_uActiveOutputs is `active`, m_hEventBuf0/1 `evBuf`, m_hEventStop
`stopEvt`, the flag STARTED `started`. Where the ASIO thread is in
DKASIOThreadProc is `tpc`: wake (`WakeOnBuf`, which picks the lowest signalled
handle, as WaitForMultipleObjects does), the host's callback (`BufferSwitch`),
one send per channel (`SendChannel`), the end of the loop. A block is the number
of the callback that filled it, modulo `BlockMod`. The host's calls
(`CreateBuffers`, `Start`, `Stop`, `StopReturns`, `DisposeBuffers`) keep to the
ASIO state machine.

`PlayDevice` has the receive thread in three steps - receive, copy, set the
event - and the render thread as the loop of `_pd_thread_4_render`: request the
other half, then write each channel. The valid length of a buffer is 0 until
something is copied (`NoBlock`).

The link holds at most `NetCap` packages; a send blocks while it is full.

`PullReconnect` lets the connection break at any step of that path, while the
interface stays attached. `Break` loses what is under way to the source and all
but a prefix of what is under way to the device, and what is cut may be cut
inside a package. Decoders are never reset (`laudio_pack_decoder.cpp:64`, `:117`), so
that a part of a package stays in them: `heldPD` and `heldAS` are the package each
side keeps a part of, `Stuck` a part of a header, which no later package completes
to a right one. `toPD` and `toAS` are therefore not the bytes under way but
the packages the decoders will find in them. What is sent without a connection,
or to a decoder that keeps a part, is lost (`SendLost`, `RequestLost`) or is taken for
the rest of that part, which is then found as the package it would have been
(`LostToPD`, `LostToAS`); and what is left of the completing package may have a
start flag among its samples and leave the decoder with a new part (`Rest`). An
answer may thus lose any of its packages, or have its rest sent over the next
connection, and NEW_INSTANCE and a request may be swallowed. `PullSurvives` holds
only of behaviours in which no connection ends inside a package (`Whole`);
`OnePullUnlessDoubled` holds of all. Three coincidences are left out: that a part of a
header is completed to one with a right check code, that samples hold a whole
header that is right, and that the bytes which complete the channel number or the
count of a payload make it another valid package - the model has it dropped.
`Announce` is `_on_connected`: NEW_INSTANCE on every connection. A pull outlives
its connection when its request waits in the buffer event, or the ASIO thread is
in the host's callback or between two sends, or an answer has arrived and is not
yet rendered; `doubled` records that NEW_INSTANCE was sent while there was one.
Without that there is one pull and no torn half, and `doubled` is the only way
to a torn one.

### Session

`TcpStream` keeps, for each connection, whether the ends are open, and whether
something was sent that is not yet received. `SocketClient` cuts the sections
under the lock where the receive thread, which does not take it to close, can see
the difference: `ReceiveTest`, `ReceiveClose` and `ReceiveClear` are the three
lines of `_do_close`. `RenderSession` adds setASIOInterface in its three steps
(the engine takes the interface, NEW_INSTANCE is sent, the root takes the
interface) and PD's crash and restart. Connections are used again once no
variable refers to them, so that the state space is finite without a bound on
the number of connections.

### Driver lifetime

`DriverLifetime` relaxes what `AsioDriver` takes for granted. Its variable
`races[o]` records which of three things has happened to an object: a wait gave
up ("late"), start() ran before the thread of the last start() did ("twice"), a
change of m_uFlag was overwritten ("flag"; a read-modify-write is the two steps
`Peek` and `Poke`). Without them everything `AsioDriver` assumes holds; with
them, all but `SignalsLiveObject` is lost. The model thus names the exact
conditions under which the driver is right.

### Buffers, clock and position

`DriverCalls` has the calls of the ASIO interface that the two modules above
leave out, with the ASIO thread in `_bufferSwitch` cut where the host's thread
can see the difference. `table` is m_inMap and m_outMap, `heap` the memory that
is allocated. `new` may fail at every buffer of createBuffers: the exception
leaves the function with what has been allocated in the table, whereas a channel
the driver does not have makes it free everything, after which it answers ASE_OK
all the same (`dk_asio_user.cpp:685`). Time and position count switches since
start(); m_uPosSample is 32 bits wide and wraps. `flags |= change` on the host's
thread and `flags &= ~changes` on the ASIO thread are a read and a write each.
`untold` is the changes that no callback has told. Two sets say why one of them may no
longer be flagged: `raced`, it was made while a callback was telling, and
`dropped`, createBuffers of a host that wants time info has set all flags anew
(`dk_asio_user.cpp:605`). The second needs no race: setSampleRate,
createBuffers, start, and the host is never told that the rate has changed.
disposeBuffers is offered only to a host that has stopped, although `asio.h:1615`
says that it implies ASIOStop: the driver does not stop.

### The lock, the server and the client

`LLXTSHelper` is an auto-reset event that gives access and an event that refuses
it for good. A thread that is inside and enters again waits for itself, and
safeExitFunc sets the event whether or not its caller was inside; both are in the
model. `ServerLife` and `ClientLife` are its callers. They follow the threads step
by step: who is refused ends (the receive threads) or goes on (the accept
thread), the server closes a lost connection under the lock after comparing it
with the current one, the client closes whatever is current without the lock.
`raced` of `ServerLife` names the two ways in which its destructor waits for ever:
the receive thread is in `recv` on a connection that another has replaced
("replaced"), or the accept thread stores one after the destructor has closed
the current one ("late"). The client's destructor does not close m_socketConn at
all, so that it waits for as long as its peer is silent, and it never waits for
its connect thread (`dk_socket_client.cpp:216-238`); what that thread does in a
dead object is undefined, and the model ends there. closeConnect and
isConnected are part of the model although no program calls them.

`SocketClient` and `SocketServer` remain the models of what the render link makes
of its connections; they leave out the ends of the objects.

### Registration

A key is the sequence of the names on its path, and `reg` maps the keys there are
to their values. Every registry call is an action; it may fail, and the process
may be killed between two of them. The native and the 32-bit build have trees of
their own and may run at the same time, and other programs may have put keys
below the driver's. The helpers' results are ignored, as in the code:
RegisterAsioDriver answers 0 in any case (`register.cpp:253`). `sound` records
that no call has failed and that, if the run found an entry of its own directory,
the entry was complete: `register.cpp:145` compares only the path, so that a run
cut just after the path was set (`:189`) is never repaired by another one. That
premise of `RegisterCompletes` is needed.

### COM server

`ComServer` has the two reads of m_cRef in Release, the two reads of
DllCanUnloadNow, and LockServer's plain `m_cLocked++` as two steps. References
are held by threads and handed over. Class factories are not counted by
m_cObjects, as in the code. `races` records the two things that make
`LocksStayUnlessRaced` false: an update of m_cLocked was lost
(`dllentry.cpp:232`, `:237`), or a lock was granted after DllCanUnloadNow had
looked at the locks (`:364`).

### Decoder

A header has three bytes instead of `sizeof(laudio_header)`: start flag, length,
and one byte for end flag and check code. All of `_pushback_1_package` is kept:
filling the header, the search for a start flag, rejection, filling the payload.
`Receive(n)` hands over any number of bytes. `clean` says that every broken
connection broke between packages. If one breaks *inside* a package, the next
package's bytes complete the old header or payload; a header that is rejected is
then searched from its own first byte, so that the same start flag is found
again, and the decoder may never get past it. The comments and docs promise
nothing about this, so that no property states it; the hazard is listed.

### Panel

`PanelSession` has the panel's main and receive threads, the window's two texts,
the AS's link to the panel and the state of its render link. SetWindowText from
the receive thread waits for the main thread (`Pumped`). One CONNECT_PD calls
connect() twice, since its event is bound to the same handler at
`dk_pd_proxy_4_render.cpp:29` and at `dk_asio_root.cpp:19`. Each call closes the
connection there is, and the lock is free in between (`SourceToldToConnect`,
`SourceConnectsAgain`): a connection that comes up there is closed by the second
call before the receive thread has seen it, and nobody tells the panel. That is one of the
two cases of `Unwatched`; the other is a CONNECT_PD that arrives while a connection is
not yet watched. `NetCap` packages fit a connection to the panel, and `::send` waits
while it is full. The races inside dk_socket_client are left to RenderSession.

### Caches

A call is one step, because it does its work under the cache's lock. The
variable `call` records what a call was given and `out` what it copied to its
caller, so that the refinement of BoundedFifo or BlockFifo cannot hide a wrong
byte. In `RingCache` all data of at most a given length is pushed; in
`BlockCache` a number before each block is written and read byte by byte,
wherever the end of the buffer cuts it: `Memory` gives the bytes of each number,
and `NumberOf` the number that some bytes are. No byte order is assumed, as
the code copies the memory of the number and assumes none. The loop that makes
room is `Rest[k]`, what k rounds of it leave, and `Rounds`, how many it takes.
Both caches are compiled into dk_pd_mock, and nothing calls them.

### The library and the DLL

`MCLibrary` puts one object of each of five classes side by side: ring cache,
block cache, decoder, server, client. They share no state, so that each behaviour
exercises one of them (`class`) and the others keep their initial states: the
states of the run are the sum, not the product, of theirs. `MCDll` does the same
with the COM server, the registration and the driver's calls (`part`).

## 3. The runs

| Run | Shows | Distinct states |
|---|---|---|
| `audio_pull` | the audio path is right, with starts, stops and new buffers in between | 73,000 |
| `stale_channel` | finding: a channel no longer sent is written again and again | |
| `session` | the client always ends up with the connection PD uses; NEW_INSTANCE is lost only by `Overlap` or `Leak` | 543,000 |
| `lost_instance` | finding: `Overlap` | |
| `leaked_socket` | finding: `Leak` | |
| `lifetime` | one driver object from construction to destruction, two thread slots | 326,000 |
| `panel` | the panel ends up right unless one of the named races happens | 467,000 |
| `early_registration` | finding: a source is never shown | |
| `library` | caches, decoder, server and client, each on its own | 26,000 |
| `dll` | COM server; three runs of regsvr32, failing, killed and at once; the driver's calls while the ASIO thread switches; each on its own | 1,256,000 |
| `reconnect` | the pull over connections that break: it goes on unless one ended inside a package, and is alone unless NEW_INSTANCE met one that was alive | 609,000 |
| `torn_render` | finding: two pulls, and a half written to a file while it is filled | |

Every property has a mutation of the code, kept beside the definition it mutates,
under which TLC finds it violated; `PROJECT.json` pairs them.

### Properties

* `OneToken`: at most one request, answer or event is under way in the whole
  system, and exactly one if every createBuffers asks for an output.
  `NoTornRender`: the receive thread never copies into the half being written.
  `ChannelsAligned`: the common channels of a half come from one callback.
  `EveryBlockOnceInOrder`: refinement of BlockPipe with depth 2, which includes
  that every block *is* written. `KeepsPlaying`, `StopEnds`: liveness.
* `OnePullUnlessDoubled`, `PullSurvives`: the same over connections that break. The
  former is NoTornRender and the first half of OneToken, wherever they break. The
  latter says that the device renders again whichever packages were lost, as long
  as every connection ended between two packages: a decoder that keeps a part of
  one may swallow the next NEW_INSTANCE, and the device never asks again.
* `Reconnects`, `AskedUnlessRaced`: see section 2. `AskedUnlessRaced` says that
  `Overlap` and `Leak` are the *only* ways to lose a NEW_INSTANCE.
* `SignalsLiveObject`, `NeverFreedInUse`, `OneThread`, `NeverDropped`, `Served`:
  the driver's lifetime. `OneThread` includes that no thread is left when stop()
  has returned or the object is gone.
* `EveryBufferOnce`: no order of createBuffers calls, refused, thrown out of or
  repeated, loses a buffer, frees one twice or gives one to two channels.
  `TimeOfItsBlock`: a callback sees the time and position of its own block, and
  getSamplePosition on the host's thread returns the two of one block unless a
  switch began during the call. `ChangeIsTold`: a change of the rate or the clock
  source stays flagged until a callback has told it, with two exceptions: it was
  made while one was telling, or createBuffers has set the flags anew.
* `ShownUnlessEarly`, `ClickEnds`, `TrueUnlessRaced`: the panel. The races
  `Misordered`, `Untold`, `Overtaken`, `Unwatched`, `Stale` are all needed:
  without any of them in its premise `TrueUnlessRaced` is violated.
* `NothingLost`: what has been handed over, what is in the decoder's cache and
  what is under way is the stream; the former are the first of the packages sent. `AllHandedOver`: no package is kept back.
* `CopiesFit`: no copy of the ring leaves the buffer. `AsFifo`, `AsBlocks`:
  refinement; the latter includes that `dk_block_cache.cpp:197`, which takes a
  block in two pieces from a position it has not reduced, is right, because a
  block whose number is cut never comes in two pieces.
* `ClosesItsOwn`: the server's receive thread closes
  the connection it lost and never one that was accepted meanwhile.
  `DestructorReturns`: the server's destructor returns whatever its peers do,
  unless one of the two races of section 2 happened. `CallsReturn`: a call of the
  client returns while its receive thread waits for a silent peer or a callback
  sends, and so does what a callback sends; its destructor returns unless the
  peer stays silent for good.
* `RegisterCompletes`, `UnregisterRemovesAll`, `OthersUntouched`: section 2.
* `ObjectsStay`: DllCanUnloadNow never says S_OK while an object exists.
  `HeldExists`: no object is destroyed while a thread has a reference.
  `NothingLeaked`: an object nobody can release has been destroyed, also when
  CreateInstance is asked for an interface there is not. `LocksStayUnlessRaced`:
  section 2.
* `TypeOK`, in `library` `TypesOK`: the types; in the latter also that one thread
  at a time is inside a lock until its object's destructor cancels it, and that
  the decoder's cache never fills its buffer between two calls, whatever a broken
  connection left behind.

### Bounds, and why they are enough

* `audio_pull`: three device channels, hosts with two and four outputs: fewer
  and more than the device has, so that an answer ends with the last channel in
  one case and with the device's last in the other, with packages dropped behind
  it. Four block numbers are twice the depth of the double buffer, so that a
  block that is repeated or skipped is never mistaken for the right one. Two
  packages fit the link: sends block inside an answer.
  `stale_channel` uses the device's real two channels.
* `session`: four connections suffice for every variable that may hold one;
  a click calls connect() twice (the event is bound twice); one crash.
  `lost_instance`, `leaked_socket`: the least that shows them.
* `lifetime`: one object; a second thread of it is already one too many. What
  concerns several objects, `SignalsLiveObject`, is proved for any number.
* `dll`, calls: one channel per direction and one the driver does not have, two
  infos, two blocks of memory: the second info of a direction is one too many, and
  memory runs out in the second. Lists of infos end with an output: an input is
  refused by the same tests. Two rates; positions that wrap in the second switch;
  two switches after one start().
* `panel`: one restart each of panel, source and device and two clicks; two
  connections may overlap in the panel and one more follows. One package is
  under way to the panel on each connection and whoever sends the next one waits, as
  a sender does when the buffers are full. With `NetCap = 2` the run passes as
  well; it has 1,054,000 states and takes about five minutes.
  `early_registration` has the same connections and `NetCap`.
* `library`: *ring*, two byte values, buffers up to one longer than the ring of
  three: every split of every length at every position. *block*, a number of two
  bytes and up to two blocks: number and block are cut at every place, alone and
  together. *decoder*, a payload that is empty, one without and one with a start
  flag, the latter as long as a package can be; two packages per connection; one
  broken connection, at any byte. *server* and *client*, two connections, so that
  one may replace another.
* `dll`, registration: three runs of either build from either directory: one that
  leaves something behind, one that meets it and one that runs at the same time or
  undoes it. One run may be killed or one call may fail. The machine has no ASIO
  driver, or this one and that of another program.
* `dll`, COM: two threads, two objects and two references, so that an object may be
  held by both threads or twice by one; two references to a class factory; one
  lock per thread, and m_cLocked at most one from 0. The proofs hold for any
  number of each.
* `reconnect`, `torn_render`: the device's real two channels, and a host with two
  outputs: an answer may lose its first, its last or both packages, or be cut inside
  either. In `reconnect` two connections break, at any step and with any loss, so that
  what a decoder keeps of the first meets NEW_INSTANCE of the second and the
  end of that; in `torn_render` one is enough. One block number, since no
  property here tells blocks apart.

### Fairness

Every thread of a program runs: weak fairness for each. The AS's receive thread
in `RenderSession` has strong fairness, since it waits for an auto-reset event
that other threads take and set again, and such an event, when it is set, wakes
a waiting thread; so have the threads of `ServerLife` and `ClientLife`, for the
same reason. `PullReconnect` has the fairness of AudioPull, where a send that is
lost is a step of its thread too, and that of the connect thread. A call that
has begun returns (`AttachStore`, `FutureWrites`, `StopReturns`), the host's callback returns, `::connect` and `::send` return.
Nobody has to call the driver, to click, to start, to close or to crash anything,
and no peer has to send or close: liveness properties are stated for what happens
once such things have stopped, or hold whether they stop or not. Registration,
ComServer and DriverCalls have safety properties only and no fairness.

## 4. Findings

1. **stale_channel** (`dk_pd_4_render.cpp:139`): after the host has re-created its
   buffers with fewer outputs, `_do_render` goes on writing the last block of the
   channels that are no longer sent, since their valid lengths are never reset.
   The doc says that the files hold each channel's PCM data.
2. **lost_instance** (`dk_asio_root.cpp:32`): an interface is attached while the
   connect thread announces a connection. The host's thread sends NEW_INSTANCE
   before there is a connection, the connect thread sees no interface yet, and PD
   is never asked to ask.
3. **leaked_socket** (`dk_socket_client.cpp:160`): between `closesocket` and
   `m_socketConn = NULL` of the receive thread, a new connection may be put there
   and is forgotten, still open. PD goes on receiving from that one.
4. **early_registration** (`dk_as_module.cpp:21`): the panel's server is started
   by the constructor of a global object. A source that was waiting registers
   before the window is there and is not shown.
5. **torn_render** (`dk_pd_proxy_4_render.cpp:48`): a click on Connect while music
   plays replaces the connection while the ASIO thread answers a request. A send
   that waits for connect() to leave the lock may be let in after the connect
   thread, so that the answer goes on over the new connection, and NEW_INSTANCE
   starts a second pull beside it. From then on two halves are under way at once,
   and the receive thread copies into the one that is being written to the files.

## 5. What is proved

TLAPS checks every proof below for all values of the constants that satisfy the
modules' named assumptions. Every inductive invariant was first checked by TLC
on the constants of the component's run.

### The audio path

`AudioPullProofs`, for any number of channels, any output counts, any block
numbering and any capacity of the link:

* `TypeCorrect`: `Spec => []TypeOK`.
* `Invariance`: `Spec => []IInv`.
* `OneTokenAlways`: `Spec => []OneToken`; `NeverTorn`: `Spec => []NoTornRender`.

`OneToken` is not inductive, because an answer is several packages of which only
one signals. IInv adds `Lifecycle` (where a thread is agrees with its flags) and
`OnePull`: at most one token; `Single` (nothing useful travels behind the package
that signals, and there is one NEW_INSTANCE at most); `Covered` (a package of an
answer is followed by the one that completes it, or by a NEW_INSTANCE, or the
token is gone); and `Agreed` (while a half is rendered, whatever is on its way
concerns the other half). `NoTornRender` follows from `Agreed`. Each conjunct has
a step lemma with one case per action, and lemmas on the queue (`PackageSent`,
`PackageTaken`) and on the count (`Alone`, `SameCount`) carry the rest.

Over connections that break, any number of them:

* `OnePullSurvivesBreaks`: `ReconnectSpec => []OnePullUnlessDoubled`. The
  disjuncts of `Covered` about a lost token and a NEW_INSTANCE behind are there
  for this theorem: `OnePull` is kept by every step of the audio path whether or
  not there is a token, so that what remains is that a break, which cuts an
  answer anywhere, and a send that is lost keep it, and that `Announce` breaks it
  only if it meets a live pull, which is what sets `doubled`. A part that a decoder
  keeps is a package that may still come, so that `PartHeld` is needed: if it would
  be handled by the device, no token is under way, except with the ASIO thread that
  is sending the rest of the same answer, and the part concerns the half that is
  not being rendered; and if the source's decoder keeps a request, no token is
  under way unless it is that of a new instance. It is the `Agreed` and `Single` of what
  is not yet a package.

What the halves contain:

* `AlwaysAligned`: `Spec => []ChannelsAligned`.
* `ImplementsPipe`: `ASSUME BlockMod > 2 PROVE Spec => Pipe!PipeSafety`, the safety
  part of `EveryBlockOnceInOrder`. The assumption is about the model's counting
  alone: modulo 1 or 2 a host that is two blocks ahead and one that is not ahead
  are the same state.
* `FlowInvariance`: `Carried` says that packages, the device's buffers and the
  host's half hold the same block, or that what differs is still to be sent,
  received or copied before the half is taken; `InStep` says which block number
  that is, by what each file has reached. Only the channels that every
  createBuffers asks for (`CommonChannels`) are spoken of: of others it is false,
  which is the finding `stale_channel`.

### The driver

`DriverLifetimeProofs`, for any number of objects and threads, with every race:

* `AlwaysSignalsLiveObject`: `Spec => []SignalsLiveObject`. The inductive
  invariant adds that the attached object and the one about to be signalled are
  not in their destructor: the destructor detaches under the engine's lock before
  it waits for anything. It needs no property of the flags or the waits, which is
  why no race breaks it. `TypeCorrect`, `Invariance`: as above.
* `AlwaysOneThread`: `Spec => []OneThread`; `RequestsAreServed`:
  `Spec => []NeverDropped`; `BuffersOutliveTheirUse`: `Spec => NeverFreedInUse`, an
  action property. All three follow from `OwnThread`: unless a race has touched an
  object, its only thread is the one m_hThreadASIO names, it runs from start() to
  the return of stop() or of the destructor, and m_uFlag has STARTED from the
  thread's first wait until it clears it. Each race is used in one place of the
  proof: "late" where a wait ends, "twice" in start(), "flag" where a change is
  written back.

`DllProofs`, about `DriverCalls`, for any channels, lists of infos, memory, rates, widths of the
position and numbers of switches:

* `EveryBufferIsOnce`, `TimeIsOfItsBlock`, `ChangeIsAlwaysTold`: `CallsSpec => []...`.
* `CallsInvariance`: `Clock` (time and position are those of the block except between
  the first statements of `_bufferSwitch`), `Passed` (m_asioTime agrees with them
  in the callback, and there is a callback only while the driver runs), `Position`
  (what getSamplePosition has read so far is of the current block), `Flagged` (a
  change no callback has told is in the flags, and in the copy of them the host's
  thread is about to write back, unless a race or createBuffers has taken it out) and `Buffered` (the memory that is allocated is
  exactly that of the table, with one block for each entry).

### The DLL

`DllProofs`, about `ComServer`, for any number of threads, objects, references and bounds:

* `ObjectsAlwaysStay`, `HeldAlwaysExists`, `NothingIsLeaked`: `Spec => []...`.
* `Invariance`: m_cObjects is the number of objects that exist (`Counted`), m_cRef
  of each the number of references to it (`Referred`), an object without any is in
  the hands of a thread (`Kept`), and that thread, which is creating it or has
  seen its decrement reach 0, is the only one that knows it (`LastIsAlone`). The
  last is what makes the second read of m_cRef in Release harmless: nobody is left
  who could change it. The comment at `combase.cpp:187-193` warns of that read.
* `LocksAlwaysStay`: `Spec => []LocksStayUnlessRaced`. As long as nothing has raced,
  m_cLocked is the size of the set `Owed` of the locks that the threads have or are
  just giving back, and nobody has one while DllCanUnloadNow is past its test of
  them (`LocksCounted`).

`RegistrationProofs`, for any directories and any number of runs, failures and
kills:

* `OthersAreUntouched`: `RegistrationSpec => OthersUntouched`, an action property. What
  carries over from step to step is that the keys listed for deletion are the
  driver's own; the rest follows from prefixes of sequences.
* `RegistrationCompletes`: `RegistrationSpec => []RegisterCompletes`, and
  `NothingIsLeft`: `RegistrationSpec => []UnregisterRemovesAll`. The invariant `DInv`
  (`RunInvariance`) says that the registry is a tree at and above the driver's
  keys (`Rooted`), that a list is of what is below the key whose deletion is under
  way (`ListedBelow`), and for each place in the two functions what of the entry is
  there, or is gone, so far (`SoFar`). A process of the other build cannot undo it,
  since no key is the own key of both builds (`OneOwner`, `OtherBuildKeeps`). A
  deletion that works empties a tree because the list is gone through from the
  deepest key, which has no keys below it.
* `TypeCorrect`: the types of the processes and of the counters.

### The library

`LibraryProofs`, about `RingCache`, for any size and whatever is pushed:

* `TypeCorrect`: `Spec => []TypeOK`, which is inductive.
* `CopiesAlwaysFit`: `Spec => []CopiesFit`, from TypeOK by arithmetic.
* `ImplementsFifo`: `Spec => AsFifo`. For each operation a lemma says what it
  leaves of the contents: `WrittenBytes` and `ReadBytes` reduce the two copies of
  a range to positions modulo Size, `Shift` and `Apart` say when two positions
  are the same, `PutContents`, `FlushedContents`, `PopContents` put them together.

About `PackDecoder`, for any payloads that fit a package, any number of packages and
of connections, and whatever pieces recv cuts the stream into:

* `NoByteIsLost`: `DecoderSpec => []NothingLost`, from `Invariance`. NothingLost
  alone is not inductive: it does not say that the cache holds no more than one
  package. `Begun` adds that what is in the cache is shorter than the package to be
  handed over next. Since what follows the packages handed over begins with that
  one (`NextPackageLemma`), the header the decoder looks at is that package's
  (`HeaderTakes`): its start flag is the first byte, so that nothing is skipped, it is
  never rejected (`HeaderIsValid`), every call eats something, so that pushback
  drops nothing, and the payload is filled to the end of the package and not beyond
  (`PayloadFilledKeeps`).
* `DecoderTypeCorrect`: `DecoderSpec => []DecoderTypeOK`, whether or not a connection
  broke inside a package: between two calls the cache is shorter than its buffer.
  That is inductive by itself: a header that is accepted has a length of at most
  PackageMax, and a package that is as long as its header says, or longer, is not
  kept.
* The stream of a list of packages is defined by recursion over the list. What the
  proof needs of it, that a package sent is appended to it (`StreamAppended`) and that
  it goes on with the next one (`StreamGoesOn`), holds for lists of any length: if it
  failed for one, it would fail for a shortest one (`LeastNumber`, from the
  well-foundedness of the numbers).

About `ServerLife`, for any number of connections and whatever peers do:

* `AlwaysClosesItsOwn`: `ServerSpec => ClosesItsOwn`, an action property, and
  `ServerTypeCorrect`: `ServerSpec => []ServerTypeOK`, which includes that one thread
  at a time is inside the lock until the destructor cancels it.
* `ServerInvariance`: a thread is inside exactly between safeEnterFunc and
  safeExitFunc (`Exclusive`; three lemmas, `SameSide`, `Entered` and `HasLeft`, cover
  every action), and what the receive thread is about to close is current
  (`LostIsCurrent`). The latter is kept because a new connection is stored inside the
  lock, although the accept thread would go on if it were refused: that it never is
  while the server lives is `CancelledLate`.

About `ClientLife`, for any number of connections and whatever peers do, as the
instance of it in `MCLibrary`, whose number of connections is a constant as well:

* `ClientInvariance`: `Client!Spec => []ClientIInv`: a thread or a call is inside the lock
  exactly at its places between safeEnterFunc and safeExitFunc, and nobody has
  begun before the constructor; `ClientTypeCorrect` follows, and with it that
  one at a time is inside until the destructor cancels all access. Each action of
  the client is one of four moves (`ClientMoves`): it stays on its side of the lock,
  enters, leaves, or is refused.

`BlockCacheProofs`, for any size of the buffer, any width of a number, any blocks, and
wherever the end of the buffer cuts a number or a block:

* `WholeBlocks`: `Spec => []Inv`. TypeOK is not inductive, since what a call does is up to
  the numbers it finds in the buffer. `Holds(b, s, l, q)` says that the l bytes
  from s on are the blocks of the queue q, each behind a number that is its
  length, and nothing else; `Inv` is TypeOK and that the bytes in use are such a
  queue.
* `ImplementsQueue`: `Spec => AsBlocks`. A block that is written is read back, also where
  both copies of it wrap and where the first begins at a position that is not
  reduced (`BlockRead`, for `dk_block_cache.cpp:197`); writing behind the queue
  changes no block of it (`WrittenBehind`); the loop stops after the round that makes
  room, and what is left are the blocks behind it (`DroppedFacts`, `ForgetHolds`).
* What the rounds of the loop leave, and what blocks cost together, is defined by
  recursion over numbers. That there are such functions (`RestsExist`,
  `CostsExist`), and what they are (`RestIs`, `CostsUnique`), is shown without
  induction, from a least number for which it would fail (`LeastNumber`).
* These theorems have `BlockAssumption`, what the constants have to be, as a
  hypothesis: numbers up to the size of the buffer have bytes of their own, and
  no block is empty.

About the run `library` itself, in which the constants of the block cache have values:

* `LibraryImplementsQueue`: `LibrarySpec => AsBlocks`, and `LibraryTypesCorrect`:
  `LibrarySpec => []TypesOK`. `BlockAssumption` is there an assumption of `MCLibrary` that
  TLC evaluates on the run; the steps of the other classes leave the cache alone.

### Session and panel

* `RenderSessionProofs`, for any number of connections, calls and crashes, and
  `PanelSessionProofs`, for any number of connections, clicks and restarts:
  `TypeCorrect`, `Spec => []TypeOK`. TypeOK is not inductive, because it does not say that the
  connections that wait to be accepted, and the packages under way, are
  sequences of such, nor that connect() is under way only if one was still to be
  called; `Types` does. What the sessions are there for is liveness.

## 6. What is only model-checked

* Liveness and everything that needs fairness (`KeepsPlaying`, `StopEnds`,
  `Reconnects`, `AskedUnlessRaced`, `Served`, `AllHandedOver`,
  `DestructorReturns`, `CallsReturn`, `PullSurvives`, `ClickEnds`,
  `ShownUnlessEarly`, `TrueUnlessRaced`, the fairness of BlockPipe in
  `EveryBlockOnceInOrder`), which is out of the prover's reach.

No invariant and no action property of a passing run is only model-checked.

## 7. What the models take for granted

* The host keeps to the ASIO state machine and calls from one thread. `AsioDriver`
  has one object and a stop() that waits for its thread; `DriverLifetime` says
  what happens otherwise.
* `AudioPull` starts with a connection and one NEW_INSTANCE, and `PullReconnect`
  lets it break, between packages or inside one, and come back; neither is composed with `RenderSession`, which has
  the steps in which a connection comes up.
* A sender keeps to LAUDIO_PACKAGE_LEN_MAX: it is assumed of the decoder's payloads.
* There is one destination; a connection is in order and complete while it is up.
* Buffers are below 2 GB, blocks in the block cache are not empty, blocks of
  samples below 32 KB.
* A malloc does not fail, nor does `new` outside createBuffers, and threads can be
  created.
* A class factory is used by the thread that asked for it (the driver registers
  the threading model "Apartment"); nobody aggregates the driver.
* The registry holds only values that the driver writes, and keys others add.

## 8. What is not modelled

* The creation and destruction of caches: destroy gives waiting threads one
  millisecond, and a thread can enter a ring cache that is being destroyed,
  because its wait looks at the access event before the exit event. Nothing
  creates a cache.
* `LLXTSHelper`'s own destructor, which closes its events: no caller is left then.
* The end of the owners of the sockets: objects of static storage, whose decoder
  and lock are destroyed before the server or client whose threads still use them
  (`dk_as_module.h:45-49`, `dk_pd_proxy_4_render.h:36-37`, `dk_acp_proxy.h:31-32`).
  When the host unloads the DLL the threads are waited for under the loader's
  lock. What follows is undefined, and nothing is promised.
* A NEW_INSTANCE sent by both senders at once, when an interface is attached while
  a connection comes up: the interface stays attached in `PullReconnect`, and
  `RenderSession` only counts whether there is one at all. What it leads to is
  what `torn_render` shows.
* A promise about the decoder after a connection broke inside a package
  (`laudio_pack_decoder.cpp:117`): `PackDecoder` and `PullReconnect` reach such states,
  and `AllHandedOver` and `PullSurvives` except them, since neither holds there.
* `hm_event`'s deque, which the panel changes while its server's threads run, as
  memory; that early packages have no listener is in `PanelSession`. unbind would
  not compile and is used by nobody.
* PD's stop: `dk_pd_stop` does nothing, as m_eSort is never set, so that
  `dk_pd_4_asio_stop` and `dk_pd_channel_stop_4_asio` (whose guard lacks a
  negation) never run. FIND_PD, which nobody sends. Capture, whose callbacks are
  empty.
* The ASIO queries that answer from constants; DKTriggleThreadProc, which is never
  started; GUIDs as text; `laudio_pack_encode`, which is empty; the empty shells of
  the panel; declarations of the ASIO SDK, debug macros, debug builds; aggregation
  (`dk_asio_user.h:53-64` never delegates); DllGetClassObject's class identifier,
  which it ignores (`dllentry.cpp:269`).
* The uninitialised path that ReadPath compares when its value is missing
  (`register.cpp`): the comparison is a choice over both outcomes.

## 9. Plan

Done: the audio path with its inductive invariant, the session, the driver's
lifetime and its calls, broken connections, the decoder, the panel, both caches,
the socket server and client with their lock, registration, the COM server; proofs
of the safety of the audio path with and without broken connections, of what it
carries, of the driver's lifetime and calls, both caches, the decoder, the lock of
the socket server and client, registration and the COM server, and of the types of
session and panel.

Worth doing next, in this order:

1. The creation and destruction of the caches, once something uses them.
2. What the decoder must do after a connection that broke inside a package, once
   it is decided.

## 10. Running the checks

    tlc -config AudioPull.cfg AudioPull
    tlc -config StaleChannel.cfg AudioPull
    tlc -config Session.cfg RenderSession
    tlc -config LostInstance.cfg RenderSession
    tlc -config LeakedSocket.cfg RenderSession
    tlc -config Lifetime.cfg DriverLifetime
    tlc -config Panel.cfg PanelSession
    tlc -config EarlyPanel.cfg PanelSession
    tlc -config Library.cfg MCLibrary
    tlc -config Dll.cfg MCDll
    tlc -config Reconnect.cfg PullReconnect
    tlc -config TornRender.cfg PullReconnect
    tlapm AudioPullProofs.tla
    tlapm DriverLifetimeProofs.tla
    tlapm DllProofs.tla
    tlapm RegistrationProofs.tla
    tlapm LibraryProofs.tla
    tlapm BlockCacheProofs.tla
    tlapm RenderSessionProofs.tla
    tlapm PanelSessionProofs.tla

The panel, library and dll runs take about two minutes each, the others less.
`PROJECT.json` lists all runs with their properties, the lines each definition models, the mutations,
the findings and the hazards.
