# A TLA+ model of microADB

microADB is a small ADB daemon (`adbd`) in C on libuv: a host connects, does a
handshake, and opens *streams* to *services* of the device: a shell, the file
service (`adb push`, `pull`, `ls`) and forwarded TCP connections.  This
directory models its core for TLC and proves part of it with TLAPS.

Paths below are relative to `src/`; `f.c:12` is line 12 of `f.c`.

## 1. Inventory

### Components

| Component | Code | State it keeps | Operations | Modelled by |
|---|---|---|---|---|
| connection and protocol | `adb_client.c`, `adb.h` | `is_connected`, list of services, `next_service_id` | dispatch of CNXN, AUTH, OPEN, CLSE, WRTE, OKAY; open, find, close, kick services; destroy the client | `ServiceTable`, `AdbClient`; with a host at the other end: `HostSession` |
| frame pool and reader | `hal/hal_uv_packet.c`, `hal/hal_uv_priv.h` | `frame_count`, `cur_packet`, `cur_len` | allocate, release, receive a frame in pieces, after-write callback | `PacketPool`, `AdbClient`, `FrameReader`; their promises: `FramePool`, `FrameStream` |
| TCP transport | `hal/hal_uv_client_tcp.c`, `hal/hal_uv.c` | the socket: open or closing, reading or not | accept, start and stop reading, write, kick, close | `Setup`, `PacketPool`, `AdbClient` |
| USB transport | `hal/hal_uv_client_usb.c` | two pipes | as TCP; an assertion in the kick; two closes | `PacketPool`, `AdbClient` with `Transport = "usb"`; set-up: no |
| QEMU transport | `hal/hal_uv_client_qemu.c` | the polled descriptor; a pipe per client | set up the server, hand its descriptor to a client, set up again; as TCP | `QemuServer`; `Transport = "qemu"` |
| frame validation | `adb_frame.c` | none | check header, AUTH header, checksum | `FrameReader` |
| shell service | `hal/shell_service_uv.c` | the pty stream, the child process, `wait_ack` | set up, read, write, acknowledgement, kick, close | `Setup`, `StreamServices` |
| forwarded TCP | `tcp_service.c`, `hal/hal_uv_socket.c` | the connection state F_..., the socket | set up, connect, announce or refuse, read, write, acknowledgement, kick, close | `Setup`, `StreamServices` |
| file service | `file_sync_service.c` | `state`, `cmd`, `namelen`, `size`, the union (descriptor, directory, path), `packet_ptr`, `write_len` | the loop over a frame, the handler of each state, acknowledgement, close | `FileSync` |
| banner | `adb_banner.c` | none | print the parts of the banner one after the other | `Banner` |
| keys, main program, logcat | `adb_auth_key.c`, `adb_main.c`, `logcat_service.h` | none | | no |

### How they interact

Everything runs in one thread: libuv calls one callback at a time, and a
callback runs to its end.  Components call each other directly:

- The transport reads into a frame of the pool, hands it to
  `adb_process_packet()`, and that either answers *in the same frame*, gives it
  to a service, or releases it.  A frame that was written to the host is
  released by the after-write callback.
- When the pool is empty (`CONFIG_ADBD_FRAME_MAX`, 4 by default) the caller is
  refused and stops reading.  The pool remembers by setting `frame_count` to
  `FRAME_MAX + 1`.  The next release *kicks*: the socket of the host and every
  service restart reading, and a forwarded connection that has news for the
  host takes the frame that was just freed, within the same call.
- Services own frames while libuv writes them to a pty or a local socket; the
  write callback turns the frame into the OKAY of the stream.
- A stream that sent data stops reading until the host's OKAY.
- Closing is spread over callbacks: `uv_close()`, then the cancelled write
  callbacks, then the close callback, which frees the memory.

### What is hard here

The interleavings of callbacks around a pool at its limit; the re-entrance of
the kick (release, kick, allocate, refuse, in one call); objects that are closed
while writes or connects are pending; a host that may send any frame for any
stream at any time; in the file service, requests cut into frames anywhere,
several requests in one frame, and replies composed in the frame that is still
being read; in the reader, frames cut anywhere and memory whose size was chosen
before the handshake; in set-up, ladders of calls each of which may fail.  The
repository has no tests.  `PROJECT.json` lists the hazards with their lines and
the properties that watch them.

### What correctness means

- *pool*: at most FRAME_MAX frames in use; none counted twice, shared, or freed
  under a writer, and none lost but by the one path that is known to; whoever is
  refused is woken up.
- *connection*: no challenge after the banner; every OPEN is answered.
- *streams*: no data is read before the last one is acknowledged; nothing is
  sent for a stream that is not announced yet.
- *both ends*: every WRTE has one answer and all data one acknowledgement; when
  nothing is under way the ends agree about which streams exist.
- *reader*: no read passes the memory of a frame; frames are processed whole,
  once and in order.
- *set-up*: nothing is released twice; what fails half-way or is closed leaves
  nothing behind, and memory outlives the handles in it, with exceptions that
  the properties name; every descriptor has one owner.
- *file service*: descriptors, directories and paths are released exactly once;
  fields fit their buffer; for a host that sends one request at a time replies
  fit their frame, a file is whole when it is DONE, and transfers end.

Where the code does not do what it ought to, a run shows the counterexample or a
property names the exception; section 3 lists both.

## 2. Modules

```
ServiceTable          the list of services: pure operations
  PacketPool          variables of a connection; pool, release + kick, writing
    StreamServices    callbacks of shells and forwarded connections
      AdbClient       reading, protocol handlers, close; Next, properties
        AdbClientProofs, StreamProofs      (TLAPS)
        MCAdbClient                        (TLC instances)
        HostSession   AdbClient composed with a conforming host
          HostSessionProofs, MCHostSession
  FramePool           what the pool promises; AdbClient implements it
FrameReader           frames in pieces, header checks, sizes of their memory
  FrameReaderProofs, MCFrameReader
  FrameStream         what the reader promises; FrameReader implements it
FileSync              one session of the file service
  FileSyncProofs, MCFileSync
Banner                the banner in the buffer of a frame
  BannerProofs, MCBanner
Sums                  running sums, for FrameReaderProofs and BannerProofs
Setup                 set-up and end of connections, shells, forwarded connections
QemuServer            the server of the emulator's pipe
  ServersProofs       Setup and QemuServer
MCServers             Setup and QemuServer on one loop
```

**ServiceTable, PacketPool, StreamServices, AdbClient** are one state machine,
split by component.  One action is one libuv callback, with all it calls:
`HostReadBegin`/`HostReadPark` are the allocation callback of the host's socket,
`Recv...` the read callback that completes a frame with the handler of its
command, `HostWriteDone`/`HostWriteFailed` the after-write callback, `Svc...` the
callbacks of a service's stream, `ConnectDone` the connect callback,
`HostClosed` the close callback with `adb_destroy_client()`.

- `frame_count` is the code's counter; `live` is what malloc knows; `wq` is
  libuv's write queue, in order.  `svc` maps the id of a service to its record.
  New services are pushed in front with a larger id, so list order is descending
  id, and `Newest` picks the first match of a list walk.
- `Release(f, t, q)` frees frame `f` when the services have become `t` and the
  queue `q`.  Its three disjuncts: nobody was refused; the kick restarts readers;
  the kick reaches a connection with news, which takes the frame (a second one
  is refused again, which is why `frame_count` may be `FRAME_MAX + 1` after a
  release).
- `fault` records what the process cannot recover from (closing a libuv handle
  twice, a freed service or client, walking an empty list); every action needs
  `fault = "none"`, so the model stops there.
- A session of the file service is never asynchronous; seen from the connection
  it answers a WRTE with OKAY, with OKAY followed by data, or by ending, and an
  OKAY with data, with nothing, or by ending.  `AdbClient` uses these outcomes,
  `FileSync` is the machine behind them.
- `Transport` is the transport of the client.  They differ where they meet a
  socket that is closing: TCP ignores that reading does not restart, USB and
  QEMU assert that it does (`KickAborts`), and USB has a second pipe
  (`UsbClosed`).
- `Misfortunes` says which failures of the environment an instance includes, so
  that a property can be checked under exactly the failures it survives.

**FramePool** is the abstract specification of the pool: a set of frames in use
and a set of users that wait; a frame that comes back wakes everybody.
`AdbClient` implements it with `inuse <- live` and `waiting <- Waiting`, the
readers that stopped and the connections with news: `ImplementsPool`.

**HostSession** puts the host at the other end of the socket, with the frames
under way in both directions (`toDev`, `toHost`) and its end of every stream
(`hs`).  The device is `AdbClient`, its actions unchanged, fed with what the host
really sent.  The host is the one the protocol asks for: it connects first, has
one WRTE of a stream unanswered at a time, acknowledges what it gets, may close
at any time, and may give up a stream before it is opened, which it then closes
when its OKAY comes.

**FrameReader** is what lies between `HostReadBegin` and `Recv...`: libuv asks for
a buffer (`Asked`) and reads any part of it.  The bytes of the host are positions
in the concatenation of its frames (`Starts`), so that a buffer is a range
(`from`, `len`) with `cap` bytes of memory for the payload, and bytes that do not
start at a frame are `Nonsense` with a bad magic.  The pool is seen from outside:
it may refuse and kicks later.  **FrameStream** is its abstract specification:
the frames of the host are processed in order up to the first that must be
rejected, which ends the connection; `ImplementsFrameStream` is the refinement,
with `processed` the announced contents of the buffers handed on.

**Banner** is the function step by step: each `snprintf()` (`Snprintf`) writes
what fits and a null byte and returns the whole length; `written` is a ghost
that remembers how far the buffer was written.

**Setup** describes a set-up as the list of its calls (`ShellCalls`,
`ConnectCalls`, `ForwardCalls`, `AcceptCalls`): what each gets, which handle it
puts in the queue of the loop, and what the code releases when it fails, the
labels of `shell_service()` being sets that include the next one.  Calls are
executed one at a time, each may fail.  An object ends in one of two ways.
`Close` is `uv_close()` and the chain of close callbacks (`HandleClosed`): shell
pipe, then process, then memory.  `Abandon` is what `atcp_stream_on_close()`
(`tcp_service.c:190`) does with a forward that is still connecting (`Complete`) or
was refused (`Connect`): its memory is freed at once, its handle stays in the queue
of the loop (`Dangling`) and its socket open.  A set-up that fails leaves the handle
as well, and the socket if `uv_tcp_connect()` had opened it (`Leftovers`).

**QemuServer**: a host that connects takes over the descriptor the server polls;
the poll handle is closed and its close callback sets up the server again.
`polled`, `clients` and `open` say who owns which descriptor of the process.

**FileSync**: one step is one pass of the loop in `file_sync_on_write()`
(`Pass`), the answer when the frame is used up, a frame of the host, or an
acknowledgement.  Contents are chosen when they are read (`Header` is what the
eight bytes of a header say), lengths are in words of four bytes, so a header is
2, a STAT reply 4.  `held` is what the union of the service owns, `rest` what is
left of the open file or directory, `pos` and `wlen` how far the frame was read
and how far it was overwritten by replies, `sending` and `unacked` what the host
is doing, `lockstep` which kind of host it is (see below).  A directory is
reported complete, `"LISTED"`, when its entries are used up, and also when
`readdir()` fails, when it cannot be opened, when there is no memory for its path
or the path is too long: the code makes no difference (`ListResults`, `InitList`).
The model stops when a reply is longer than the payload (`wlen >
Payload`): what the code would do after writing behind its buffer is undefined.

## 3. Runs

| Run | Shows | States |
|---|---|---|
| `storm` | with all failures and all frames: types, accounting, ownership, no lost wakeup, gating, order of the handshake and of announcements; no frame is lost but by cancelled writes; `ImplementsPool` | 145,000 |
| `live` | on USB, a host that may go away, connections that may be refused: readers that stopped resume, forwarded connections are announced or refused | 140,000 |
| `host_session` | both ends, frames crossing in both directions: one answer per WRTE, one acknowledgement per data frame, agreement when all is quiet | 1,830,000 |
| `host_live` | with a single frame in the pool, the host's writes are answered and its closes arrive, whatever the streams have to say | 213,000 |
| `reader` | all cuts of three frames, good and bad, before and after the handshake: reads and answers fit their memory; `ImplementsFrameStream`; everything is processed | 100,000 |
| `banner` | the length that is sent is the length of the parts, cut at the buffer, and was written; unless the device does not fit | 11,000 |
| `servers` | two objects and the emulator's server on one loop, any call fails: nothing released twice, nothing left but the sockets of forwards that never connected, known dangling handles only, one owner per descriptor; closing ends, the server returns | 41,000 |
| `file_session` | any host: types, resources and fields; one request at a time: replies, complete files, progress | 509,000 |

Four more runs each show a disagreement between the code and what it says of
itself, with a counterexample (see "findings" in `PROJECT.json`):

| Run | Counterexample |
|---|---|
| `hangup` | the host hangs up while a write is pending; the cancelled write closes the socket a second time (`hal/hal_uv_packet.c:101`) |
| `usb_close` | the close callback of the read pipe frees the client while its write pipe is closing (`hal/hal_uv_client_usb.c:114`) |
| `null_walk` | nothing fails: the host closes a stream, or it ends, while a write to it is pending; the write is cancelled and its callback closes the service again, walking a list that is empty (`adb_client.c:411`) |
| `input_intact` | a frame holds a STAT request and the start of another; the reply to the first overwrites the second before it is read (`file_sync_service.c:299`) |

### What the model knows to go wrong

The models contain further behaviours that the code does not prevent.  None is
assumed away: a property that they touch names them.

- A write that is cancelled after its service was closed (`SvcWriteFailed`; no
  failure is needed for that, `uv_close()` cancels what is pending) walks an empty
  list, fault `"null_services"` (run `null_walk`), or, when another service is open,
  drops its frame (`adb_client.c:419`): `FramesKept` lets exactly these frames go.
  With a frame lost the pool is smaller for ever, and with all lost everybody
  waits; the liveness properties end at `Broken`, a fault or a lost frame.
- The faults `"freed_service"` (a refused forward frees itself within the walk of
  the kick, `adb_client.c:449`, or within its connect callback; the connect callback
  of one that was closed, and freed, before it connected) and `"freed_client"` (`adb_client.c:480`).
- A frame that is released while the pipe of a USB or QEMU client is closing
  kicks, and the assertion that reading restarts fails (`ReleaseAborts`).
- OPEN, WRTE, OKAY and CLSE before CNXN are served (`adb_client.c:511`); `storm`
  includes them.
- A set-up that fails behind `uv_tcp_init()` or `uv_pipe_init()`
  (`hal/hal_uv_client_tcp.c:152`, `hal/shell_service_uv.c:411`,
  `tcp_service.c:251`) and a forward that is closed before it connected, or
  refused (`tcp_service.c:198`), leave a handle without memory in the queue of the
  loop; the forward leaves its socket too.  `DanglingKnown` and `OnlySocketLeft`
  say that these and no others do.
- When the emulator's pipe cannot be opened again, the device takes no more
  connections (`hal/hal_uv_client_qemu.c:122`): server `"none"` of `ServesAgain`.
- A device name that does not fit the banner makes `adb_fill_connect_data()`
  return -1, which `send_cnxn_frame()` sends as a length of 2^32 - 1
  (`adb_client.c:104`): the exception in `OnlyBannerSent`.
- A directory that cannot be read to its end is reported like one that was
  (`file_sync_service.c:325`, `file_sync_service.c:374`), so `DoneMeansComplete` is
  about files.
- In a file session, an acknowledgement that arrives within the next request
  resets the session (`file_sync_service.c:813`), although the comment at
  `file_sync_service.c:797` says that there is nothing to do; the model has it
  (`AckMeans`), no property is about it.

### Bounds, and why they are enough

- `FrameMax = 2`, three frames: two are enough for one to be in use by each of
  two parties, and for a kick that grants the freed frame and refuses the next
  user.  The third frame would show an allocation beyond the limit.  Liveness
  uses two frames, as symmetry is not sound there.  The code's default is 4.
- `MaxOpens = 2`: two services at a time, of all pairs of kinds, or one after
  the other.  Two is what the list walks need: the service that is closed and
  one that remains.  `Peers = {1}`: both streams may have the same remote id,
  the harder case for the lookup, which also matches ids.
- `HostSession`: two peers, so two streams at once, of any two kinds, or one
  after the other; one WRTE per stream (`MaxWrites = 1`) suffices for it to cross
  with the data, the acknowledgement and the close of the same stream.  The
  frames under way need no bound: the host has one WRTE unanswered, and the
  device two frames.  `host_live` has a single frame and forwarded connections
  only: the smallest pool, in which whoever gets the frame keeps all others out.
- `FrameReader`: a header of three units, so that it is cut in its middle too;
  room for three units of payload before the handshake and for two after it, as
  the frame before the handshake is the larger one in the builds that
  `README.md` and the CI of the repository configure; lengths 0 to 4 lie on both
  sides of each limit.  Three frames: the handshake, data before or after it, or
  a bad frame at any place.
- `Banner`: a buffer of six; parts whose lengths reach up to and beyond the end
  of the buffer; `Words = 16` for the 2^32 values of a length, more than a buffer
  has.
- `servers`: two objects, so that one may fail while the handles of the other are
  in the queue; three descriptors and two clients.
- `Payload = 8`, `PathMax = 9` words: as in the default build, a path may be
  longer than a payload.  Lengths 0, 1, 8, 9 and 11 lie on both sides of each.
  `MaxRest = 7` exceeds what one frame carries (6 words of data), so files and
  directories take several frames.  `MaxUnacked = 2`: an acknowledgement may be
  behind one later answer.
- Symmetry (`Frames`) is used in runs without liveness only.

### Fairness, and its justification

`AdbClient`: weak fairness of `ConnectDone`, `SvcClosed`, `HostClosed`, and for each
write that it is reported, as done or as failed (`HostWriteDone \/ HostWriteFailed`,
`SvcWriteDone \/ SvcWriteFailed`): the loop in `adb_hal_run()` reports each request
it accepted once the kernel finished it, and what is closing.  It assumes a host
and local programs that keep reading; a stream that never drains keeps its
frames.  Nothing forces the host or a stream to send.

`FileSync`: `Pass` and `Answer` are the loop itself; `HostAcks` is a host that
acknowledges what it receives, as the ADB protocol requires.

`HostSession`: what is sent is received, in both directions (`HostHears`,
`DeviceReads \/ DeviceProcesses`, `DeviceWrote`), and libuv reports what it was
asked to do (`Reports`).  Nobody has to open, write or close, and streams need
not have data.

`FrameReader`: the pool that refused kicks in the end (that is `HostResumes`);
strong fairness of `Receive`, as other users may take the frame first, but not
for ever: `WritesAnswered`, checked with a single frame, shows that hosts do get
theirs.

`Setup`, `QemuServer`: calls return, and close callbacks run.
`uv_poll_start()`, when it fails, is retried through the close callback; strong
fairness says that it does not fail for ever.

Deadlock is not checked: in every run a connection or a session may end, the
objects, streams or frames of the bound be used up, or a fault stop the model.
That nobody waits for ever is what the liveness properties say.

### The hosts of FileSync

`Hosts` says which hosts there may be; the variable `lockstep` is chosen among them
and kept.  `FALSE` is any host.  `TRUE` is one that sends well-formed requests with
a path, one at a time, starting the next when it has acknowledged every answer to
the last, and nothing behind DONE.  It keeps sending a transfer that failed until
it hears of it; what it sends then is read as requests, taken for unknown ones.
`file_session` has both; `ReplyFits`, `DoneMeansComplete` and the liveness properties
are about the second.  `input_intact` has the first, as a host that sends one request
at a time leaves nothing to overwrite.

## 4. Proofs

All for every value of the constants; the only assumptions are the named
`ASSUME`s of the modules (types of the constants, `FrameMax > 0`, payload large
enough for one directory entry), which TLC evaluates in the runs, and where a
theorem says so the set of misfortunes or the kind of host it is about.  Each
inductive invariant was checked by TLC before it was proved.

**The connection** (`AdbClientProofs`, `StreamProofs`) - one invariant in three
layers, each needing the one before:

- `IInv` is `TypeOK`, `IsFiniteSet(live)`, `FrameAccounting`, `SingleOwner`; the
  theorems are `TypeCorrect`, `AccountingCorrect`, `OwnershipCorrect`.  None is
  inductive alone: that `frame_count` stays above zero needs that the frame
  released is in `live`, which needs its owner; that the owner is the only one
  needs that a frame handed out is not in `live`; and counting needs finiteness.
  The proof is by the parts of a handler (allocate, release, send, take from an
  owner), then one step per action.
- `RInv` adds that each service's reader is gated, and `NoLostWakeup`:
  `WakeupCorrect`, `GatingCorrect`.  The wakeup argument needs the accounting (a
  refusal implies a full pool) and the gating (a reader that is stopped may only
  be parked or wait for an acknowledgement).
- `SInv` adds the history of the services.  `TableOK`: ids that were not given
  are unused, and only a stream that was opened has writes of its own.
  `QueueOK`: whatever is under way to the host names a service it may know, and
  the banner is only there after the handshake, followed by no challenge.  This
  gives `QuietnessCorrect` and `HandshakeCorrect`.
- `FramesKeptCorrect`: no step loses a frame but the cancelled write of a closed
  service, whatever fails and whichever host it is.  The proof follows each frame
  through the parts of a handler: a frame that leaves its owner is in the queue of
  the host, is freed, or was one of `Doomed`.
- `PoolImplemented`: `Spec => ImplementsPool`.  Every action is shown to be an
  allocation, a refusal, a release or a stutter of `FramePool`; a release
  empties the set of who waits except for who is refused in the same kick.

**Both ends** (`HostSessionProofs`, on top of `StreamProofs`) -
`WritesAnsweredOnceCorrect`, `DataAckedOnceCorrect`, `EndsAgreeCorrect`, for any
number of frames, streams and writes, under the hypothesis that no allocation
fails (`"malloc"` not in `Misfortunes`, as in the run `host_session`): a failed
one closes the connection, and the host of `HostSession` is not told of that.

- `Flow` counts the frames of a stream that are under way, by command and
  direction; a frame in the write queue and one the host has not seen yet count
  the same.  A handler moves a frame, turns it into its answer, or adds one
  together with the change of an end that accounts for it (`SendFlow`, `ReadFlow`,
  `QueueFlow`, `HearFlow`, `WriteFlow`).
- `StreamOK` says what the counts are for each pair of states of the two ends:
  who asked for a stream (`AskingOK`), what an open one owes the host (`OpenOK`),
  and what a service is owed (`ServiceOK`).  The properties alone are not
  inductive: that an answer is not counted twice after a close, for example,
  needs that a service that runs has no CLSE under way.
- `Typed` adds that ids are given once (`ids`: which id the stream of a peer
  got), which makes the counts of two streams independent; `InOrder` that the
  host sees the OKAY of a stream before its data, without which data would meet
  a host that does not know the stream.
- `HInv` joins them and uses the gating and the queue of `SInv`.  Each step
  changes one stream (`OneStream`); what remains is arithmetic on its counts.
- `SessionImplementsConnection`: `SessionSpec => Spec`, the composition implements
  `AdbClient`, whose theorems therefore hold of it too.

**Reception** (`FrameReaderProofs`, with `Sums`)

- `ReaderInv` says that a buffer whose header is complete was allocated for what
  the header announces: a frame is checked against the limit it was allocated
  for, because the handshake can only be done by that frame itself.
  `ReaderTypeCorrect` and `WritesFitCorrect`: no read passes the memory of its
  frame, for all sizes, cuts and hosts.
- `Aligned` says where the reader is in the bytes of the host: at the start of
  the frame that is due plus what its buffer holds, the frames before it having
  been processed.  `AnswerFitsCorrect` and the refinement
  `FrameStreamImplemented` (`Spec => ImplementsFrameStream`) follow.  That a
  position lies in one frame only needs that `Starts` grows.

**Banner** (`BannerProofs`, with `Sums`) - `BannerSent`: what is sent was written,
unless the device does not fit; `Printed` says that, while parts are printed, the buffer is written up to and
including the null byte behind the last one.  `BannerCompleteCorrect`: its length is the
sum of the parts, cut at the buffer.

`Total` and `Starts` are recursive functions.  That such a function exists, and
never decreases, is proved in `Sums` by well-founded induction over a *set* (the
numbers up to which it does), as the induction theorems with an operator
parameter cannot be used.

**File sessions** (`FileSyncProofs`)

- `ResourcesCorrect`, `FieldsCorrect`, for any host and all sizes.  `SessionInv`
  joins both with the types they need: a reset releases what the state says only
  if the state says what is owned, and the field being collected is known by the
  state.  `FileTypeCorrect`: the other variables stay in their bounds too.
- `RepliesFit`, `DoneComplete`, for hosts that send one request at a time.
  `LockInv` relates what is left of the frame, what was replied and what such a
  host still waits for: once something was replied, the frame is used up and the
  session rests, or what is left is taken for unknown requests.

**Outside connections** (`ServersProofs`)

- `SetupInv`: what each object holds is what its progress says.  Its first half is
  about the tables of calls: at every call, what the error path undoes is what the
  calls before it got (`CallOK`).  `OnlySocketLeftCorrect`, `ReleasedOnceCorrect`,
  `DanglingKnownCorrect` follow, for any number of objects.
- `OneOwnerCorrect`: each descriptor of the emulator's pipe has one owner.

Only model-checked: all liveness, with the fairness it needs, which is out of the
prover's reach, as is `ENABLED`.

## 5. Not modelled, and why

- In `AdbClient`, the *pieces* and sizes of a frame: reception is two steps, its
  first bytes and its last.  `FrameReader` is what lies between; the two are not
  composed, they share `cur_packet` and the promise that a refused reader is
  kicked.
- Payload contents, checksums (a frame's is right or wrong), logging, formatting.
- An allocation that fails *inside a kick*: a frame has just been freed.
- The overflow of `next_service_id`: ids are cut at `MaxOpens`.
- The one-shot data path at `adb_client.c:147`: no service of this repository
  sets it.
- A read callback without data (`nread == 0`) gives its frame back at once for
  the host and for a socket: a stutter.  A shell takes it for the end, which
  `SvcReadEnd` covers.
- `uv_is_active()` is taken as "reading", which is what libuv's Unix streams
  make of a stream without pending writes.
- In `AdbClient`, creating a service is one outcome, success or refusal; its
  calls are in `Setup`.  There, the raw mode of the terminal, the flags of the
  child and builds without `O_CLOEXEC` are left out.
- `uv_spawn()` is taken to register its handle only when it succeeds.
- The set-up of the listening TCP socket and of the USB endpoints: both run once,
  before the loop, and the program ends when they fail.
- The assertions in the set-up of a QEMU client are taken to hold.
- Several connections at a time: connections share no state but the loop.
- `FrameReader` takes `size_t` for 64 bits wide, so that the sum at
  `hal/hal_uv_packet.c:196` does not wrap; `AnswerFits` assumes a host that does
  its handshake first and once.
- An empty path in a file request is processed only with the next byte
  (`file_sync_service.c:737`): `FileSync` has it, no property is about it.

## 6. Plan

1. *(done)* `ServiceTable`, `PacketPool`, `StreamServices`, `AdbClient`,
   `FramePool`: the connection, its pool and its streams; runs `storm`, `live`,
   `hangup`, `usb_close`, `null_walk`; proofs of accounting, ownership, wakeup,
   gating.
2. *(done)* `FileSync`; runs `file_session`, `input_intact`; proofs of resources
   and fields.
3. *(done)* `FrameReader`, `FrameStream`: reception in chunks; run `reader`; proofs
   of types and of `WritesFit`.
4. *(done)* `HostSession`: both ends of the streams; runs `host_session`,
   `host_live`.
5. *(done)* transports: `Transport` of `PacketPool`; `QemuServer`; `Setup`; run
   `servers`.
6. *(done)* `Banner`; run `banner`; proof of `BannerSent`.
7. *(done)* proofs of `ImplementsPool`, `QuietBeforeConnect`,
   `NoChallengeAfterBanner` and `FramesKept`; of `ImplementsFrameStream` and
   `AnswerFits`; of `BannerComplete`; of `ReplyFits` and `DoneMeansComplete`; of
   `Setup`.
8. *(done)* proofs of the invariants of `HostSession`, by counting the frames of
   a stream that are under way.
