# A TLA+ verification project for edge_embeddedLinux

The repository is a course in embedded Linux programming: some sixty small C
programs under `src/practice/practice_device_bd/`, each in a directory
`EXcc-nn_name`. Most of what can go wrong in them goes wrong BETWEEN processes or
threads: message queues, semaphores, shared memory, mutexes, sockets, devices.
This directory models those programs in TLA+, checks them with TLC on small
instances and proves all safety properties and refinements with TLAPS for every instance;
liveness is checked with TLC alone.

Run a check with `tlc -workers 2 -config MCFileServer.cfg MCFileServer`, a proof with
`tlapm MsgQueueProofs.tla`.

## 1. Inventory

| component | state | operations | interaction | hard behaviour | what makes it correct |
|---|---|---|---|---|---|
| EX03-13 file server | one SysV queue; per process its `msgbuf` and `id_msg` | client: msgget, msgsnd, msgrcv(own pid), print; server: msgrcv(1), stat, msgsnd; operator: IPC_STAT, IPC_RMID | all processes share one bounded queue, replies are addressed by pid | kills between two calls, pid reuse, full queue, removal, several servers | no request lost or answered twice, own and true answer, no blocked sender, every client answered |
| EX03-12 calculator | the same queue, one reply type | the same, reply type `MTYPE_S2C` | the same | two clients take each other's replies | replies conserved (holds); own equation (does not hold) |
| EX03-11 typed messages | a queue of ten messages | msgsnd x 10, msgrcv IPC_NOWAIT, msgctl | none beyond the queue | - | FIFO per type (assumed of the kernel) |
| EX03-08 `rw` | a SysV semaphore with SEM_UNDO, a file, a letter per process | 50 rounds of semop -1, write, sleep, read, compare, semop +1; semctl SETVAL, IPC_RMID | semaphore and file shared by any number of processes | a process ends between the semops | the unit survives, nobody reads another letter, everybody finishes |
| EX03-07 `rw` | the same without the semaphore | | | interleaving | nothing can be promised |
| EX03-10 `shmput`/`shmget` | a record in shared memory (status, buf, cs), a semaphore | produce until TIMEOUT, then mark invalid; check and print until invalid | record and semaphore shared | both loops are left between the semops; kills in the middle of a record | whole records, unit conserved, consumers end |
| EX03-09 | the same without the semaphore | | | torn reads | nothing can be promised |
| EX04-06 bread factory | bread_count, box_count, mutex | two makers, a boxer, main creates and joins | mutex | reads outside the mutex, exit by equality, sleep under the lock | no overproduction, nobody leaves early, the process ends unless the boxer keeps the mutex from all makers |
| EX04-05 counting threads | g_count, mutex, semaphore | two threads count to n, the second after 100 | mutex, semaphore, join | load-sleep-store, one-shot post | no lost increment, start after 100, the process ends |
| EX04-01..04 threads | g_count, with and without mutex | count | | lost updates (02) | |
| EX07-08 device server | listening socket, a child per client, GPIO lines | commands of two 32-bit words: LED on/off, key | TCP, one LED for all children | fragmented and merged reads, fork failure, kills, two closes of each descriptor at different times | a command is carried out at most once and answered with its own result; each connection has one holder; whole commands are answered |
| EX07-07 ftp server | a child per client, a data connection per LS or GET, the child's descriptor table | QUIT, PWD, LS, GET | two TCP connections, popen, random ports that all children draw alike | accept without time-out, descriptors that are never closed, port clashes, calls that fail when the table is full | every line answered or its connection ended, nobody gets another client's data, lost descriptors are the known ones |
| EX07-02 ftp server | a control connection | QUIT, PWD | TCP | | the same handlers as in EX07-07, without fork |
| EX07-01, 03, 04, 06 echo servers | sockets, fd_set, threads | accept, select, read, echo, close | TCP | thread argument passed by address (06), one client that does not read blocks all (04) | bytes come back whole, in order and once; every client is served |
| EX07-05 forking echo server | as EX07-08, with an echo loop in the child | accept, fork, read, echo | TCP | as EX07-08 | as EX07-08's connections |
| EX07-09, 10 UDP servers | a socket, a log file | receive, log, reply | UDP | length of the reply (10) | |
| EX06-04 camera | buffers mapped from the driver, the framebuffer | queue, stream on, select, dequeue, convert and draw, queue again, stream off | V4L2 driver fills the same memory | EAGAIN, EINTR, time-out, short frames, a picture larger than the screen, padded lines, a panned screen | a buffer is drawn only while the program owns it, what is shown on a plain screen is one frame in its place, the program ends when the camera stops |
| EX06-01..03 devices | none | straight-line I/O | device files | - | |
| EX02-06 mgrep | the children's pids | fork per pattern, exec grep, wait | processes | fork failure, uninitialised entries | each pattern searched once |
| EX02, EX05 processes | none | one system call each | | | |
| EX03-01..06 pipes, FIFOs | a byte stream | read, write, open | | non-blocking read of an empty FIFO | |
| EX01 exercises | none | tool chain, file copy | | | |

`PROJECT.json` lists the same components with their files and status, and the
hazards of the code with the line where each one bites.

## 2. Modules

| module | what it is |
|---|---|
| `MsgQueue` | the SysV message queue as the programs use it: FIFO per type, bounded, removable (kernel code, external) |
| `FileServer` | EX03-13 on `MsgQueue`: clients, servers, kills, pid reuse |
| `RpcService` | the abstract request/reply service that `FileServer` implements |
| `CalServer` | EX03-12 on `MsgQueue` |
| `SysVSem` | the SysV semaphore with SEM_UNDO (external), and `semctl.c` |
| `SemRW` | EX03-08 on `SysVSem` |
| `ShmSem` | EX03-10 on `SysVSem` |
| `BreadFactory` | EX04-06; `Factory` is what it implements |
| `PthreadSem` | EX04-05 |
| `TcpSock` | listening socket, connections, byte streams and descriptors as the TCP servers use them (kernel code, external) |
| `ForkServer` | the accept loop with a child per client of EX07-05, 07 and 08, on `TcpSock` |
| `DeviceServer` | EX07-08: `ForkServer` and the children's commands; `RemoteDevice` is what it implements |
| `Ftp` | EX07-07: `ForkServer` and the children's sessions with their data connections |
| `EchoServer` | EX07-01, 03, 04 and 06 on `TcpSock`; `Init` chooses the program |
| `Capture` | EX06-04: the program and the camera driver |
| `MsgQueueProofs` | theorems about `MsgQueue`, `FileServer` and `CalServer` |
| `ForkServerProofs` | theorems about `ForkServer`, `DeviceServer` and `Ftp` |
| `BreadFactoryProofs`, `PthreadSemProofs`, `SemRWProofs`, `ShmSemProofs`, `EchoServerProofs`, `CaptureProofs` | theorems about the module in the name |
| `MC...` | instances for TLC |

Correspondence with the code. A process or thread has a program counter (`pc`,
`spc`) whose values are named after the call it is about to make (`snd`, `rcv`,
`dec`, `lock`, ...). One action is the code from one call that other processes
can observe to the next, so every interleaving of such calls is a behaviour. A load
and a store of a shared variable are separate actions. Where a call may block, the
action has the condition as its guard; where it may fail because its object was
removed, a second action (`...Error`, `DecFails`) takes the code's error path. An
uninitialised field is the model value `Junk`. `Kill` and `Die` actions end a process
between any two actions; in `SemRW` `Die` also stands for a failed write, read or
close, which the code treats alike (a failed open it does not, see below). The identifier returned by msgget or semget
is a number that the operator's IPC_RMID increments; a process keeps the one it got.

Names beginning a comment with "Mutant" are deliberately wrong variants of the
definition that follows them. They are in no specification; replacing the definition
by its mutant must make a property fail, which shows that the property says
something about that definition.

### FileServer

`ClientExec` is `main` up to the msgget and the filling of `msgbuf`
(file_client.c:24-45), `ClientSend` and `ClientReceive` the two calls, `ServerReceive`,
`ServerStat`, `ServerReply` the loop of file_server.c. A pid is reused when its
process has ended, so a reply for a killed client may meet its successor.

* `Conservation` bounds the messages by the waiting clients and the waiting clients by
  the messages, each up to the kills. It is the property that error paths and
  IPC_RMID could break.
* `NoSendBlocks`: with room for one message per client and one per killed client no
  msgsnd blocks. The bound is tight: with one less, TLC finds the state in which the
  servers and the queue wait for each other and `Answered` fails.
* `OwnAnswer`: without kills of clients the answer is about the file asked for. With
  kills this is false in the code, and `TrueAnswer` says what remains: a true answer
  about SOME file that a process of this pid asked for.
* `Answered` (liveness) and `ImplementsService` (refinement).

Assumptions: no client has pid 1 (`MTYPE_C2S` would be its reply type; pid 1 is
init), a file does not change while the system runs (`Stat` is a constant), names are
shorter than `MAX_FNAME` (the client exits on longer ones), msgget succeeds, and a signal
does not interrupt a call without ending the process (the programs install no handler).

### CalServer

The names of its definitions begin with `cal`, so that its proofs can stand beside those of `FileServer`; `Multiplied(m)` is
what the server makes of a request. A client is one run of cal_client. `EquationsOnce` counts, for each pair of operands, the
clients that sent it, the messages underway and the clients that printed it.
`OwnEquation` is checked in a run of its own and is violated: two clients, no kill.

### SysVSem, SemRW, ShmSem

Both programs use SEM_UNDO on both semops, so `semadj` is 0 outside the section and 1
inside, and the kernel gives the unit back whenever a process ends there: on the error
paths, on the `break`s of shmput.c:75 and shmget.c:57,65 and on a kill. Most properties are
stated for an operator who opens the semaphore at most once and does not remove it
(`OperatorOnce`): SETVAL during a section and IPC_RMID do break mutual exclusion in the
code, and the models contain those behaviours.

* `UnitConserved` of `SemRW` has a second part without that condition: whatever the operator does and
  when, the value and the processes in the section of the present semaphore are at most as many as the SETVALs. An exit after
  a SETVAL in the section gives back a unit that is not its own, or takes one; never does that let in one more.
* After open() `rw` tests the result of the call BEFORE (rw.c:51, 69). `OpenFails` lets either open fail without anyone noticing, and
  `BadFile` is the write or read with fd -1 that ends the process one call later, still inside the section.
* `ConsumersEnd` of `ShmSem` excuses `Orphaned` only: the last producer was killed, or lost its semaphore, while the record was
  valid, and no other one has come. A consumer then prints for ever; that is the code.

In `ShmSem` the bytes of buf are one value of `Time` and the checksum is the pair of status and
buf: it is right exactly when the record is whole. The real byte sum may collide, in
which case the code prints a torn record after a kill that the model would report.
A kill in the middle of sprintf is a kill before or after it. The age of a producer
counts the seconds since its first round, up to the one in which it times out.

### BreadFactory, PthreadSem

`bread_count++` is a load and a store. The tests at pthread_bread.c:38 and 58 are made
without the mutex: they are atomic reads that may fall between any two actions of the other
threads. `box_sem` is never used and left out. Creation may fail, and then main returns and
nothing moves any more; `JoinFails` is the same for a failed pthread_join.

* `EndsUnlessStarved` assumes only that threads that can run do. A default pthread mutex promises no order, and the
  boxer's loop locks, finds nothing to do, unlocks and locks again without sleeping (pthread_bread.c:50-60), so it may keep the mutex from
  all makers for ever (`Starving` again and again): then nothing is baked and the process does not end. The property says
  that this is the only way not to end. A maker cannot starve the others for ever: it leaves when all the bread is baked.

### TcpSock and ForkServer

A socket lives while some process holds a descriptor of it. `Hold` computes what a change of the
holders does: connections without a holder are `over`, the queue of a listening socket without a holder is
refused. fork copies the holders, exit removes a process everywhere, `close` removes one. A stream is a
sequence from which a read takes any non-empty part at the front, so messages split and merge. `AtEnd` (a
read returns 0 or -1) and `BrokenPipe` (a write ends the process with SIGPIPE) are possible from the client's
close on, whether or not data is left, because a reset may overtake it.

`ForkServer` is main of the three forking servers. `Accept`, `Fork`, `ParentClose` are the
steps of the parent (device_server_bd.c:237-268), `ChildStart` the child's close of the listening socket, `ChildEnd`
its close and exit. A child is named after its client. `MainFails` is the return on a failed accept or
fork: the parent ends, the children go on. `Kill` ends any process anywhere. What a child does between
`ChildStart` and `ChildEnd` is in the modules that extend this one.

### DeviceServer

The unit of the streams is the 32-bit word. `Receive` takes exactly one command, `Drop` is the `continue`
for a read of any other length (line 153), `Do` the ioctl with its possible results (`Outcome`), `Reply`
the write. All children change the same `led`, through the line handles main requested before it forked.
A client asks again only after its last answer, since it has no other way to know which command an answer is for;
the first read may still come when only one word has arrived.

* `OwnConnection` is `OwnDescriptors` of `ForkServer`: a forgotten close would leave a client waiting
  for the end of its connection, or in a queue nobody accepts from.
* `AskedIsAnswered` has the exception the code has: a command whose words were read apart
  is dropped, and the client waits for ever (`Dropped`).
* `ImplementsDevice`: `asked`, `done` and `told` refine to the request, result and answer of
  `RemoteDevice`; `Do`, `Answered` and `Ask` are its three actions and every other step is a stutter. `done` is a
  history variable: the result the child has computed, also when the child is gone before it wrote.

Failures before the accept loop (open of the GPIO device, socket, bind, listen) end the program and are left out.

### Ftp

`Session` holds the variables of a child. Every client's child draws its ports from the same sequence `Rand`,
because nobody calls srand; a bind to a port that another child has bound but does not listen on succeeds
(SO_REUSEADDR) and the later of the two listens fails. `nfd` counts open descriptors and `lost` those no variable
names any more: the file of GET (never closed), the socket of a failed bind, setsockopt or listen, the pipe of a PWD
that read nothing. When `nfd` reaches `FdMax` the next socket, accept, popen or open takes its
error path; the error paths differ, and popen's NULL goes into fread and ends the child (`NoPipe`). `OptFails` is the `return
EXIT_FAILURE` (1) that the callers take for a descriptor. Two history variables name clients: `broken` those whose own session
broke down (its child was killed, took SIGPIPE, had no descriptor left, or took that 1 for a socket), `crossed` those
whose child took another client from its data socket.

* `DescriptorsAccounted`: the descriptors open are those of variables plus `lost`.
* `OwnData`: a client is sent what its own child sends, whatever becomes of the sessions of others, unless its own session
  broke down or its child took another client for its own; and the latter happens to nobody before some session has broken
  down. Both excuses are needed. A client whose child died after `OK port` connects there when another child already listens on
  that port, and that child takes it for its own client (TLC finds this with two clients); then that child's own client, whose
  port was told and is free again, may come to a third child (with three).
* `LineIsAnswered`: with a client that may never make its data connection, for all other clients, and for it when it does.

A read is one line: the client sends the next line when it has its last answer, and a line is shorter than a
segment. The failure return of signal(SIGCHLD, SIG_DFL) in a child (myftp2_server_bd.c:360-364) is left out: it cannot fail for
this signal. A GET that the server reads in parts, and names longer than the buffer, are left out. Killing the parent
is left to `DeviceServer`, whose accept loop is the same.

### EchoServer

The four programs share accept and the loop read - write and differ in who runs it: main for one client at a time
(`tcp`, `timeout`), main for one read of each ready descriptor (`multi`), a thread (`thread`). Descriptors
are the lowest free numbers, as accept returns them, so a number is used again by another client.
`ThreadStart` reads main's variable `sfd_client` through the pointer when the thread runs, which may be after main has
stored the next client's descriptor (a data race; `raced` records it). Both threads then serve one connection, the
first to see its end closes it, and the other gets EBADF (`WriteClosed`).

* `EchoBack`, what the comment at thread_server_bd.c:41 says, fails for `thread` (section 4).
* `WholeEcho`: without that race a client's bytes are, at all times and in order, on the way back, in its loop or on the
  way there.
* With the race less is true than it seems. `TypeOK` once said that a client receives at most `Bytes` bytes. It cannot be proved,
  and with three clients TLC shows why (two clients are too few): a thread that raced keeps a number after the other
  thread of the connection has closed it, accept gives the number to the third client, and the thread goes on with what it
  holds of another client. The third client gets its own bytes and more. `got` is therefore any natural number.
* `Served` names what each shape allows to hold a client up: another connection (`tcp`, `timeout`), another client
  that does not read (`multi`), and nothing in `thread` but the race.

EX07-05 is not a fifth program here: its accept loop is `ForkServer`, its child's loop `Echo` with one client.

### Capture

A pixel is the triple of the frame it was taken from and the row and column where the camera saw it, so that a
screen shows of each pixel whether it is in its place and of which frame. `owner` says who may touch a buffer; the
program gets one from `Dequeue` and gives it back in `Requeue` after the drawing. The driver (external) fills rows while
the program runs, loses frames when no buffer is queued, and may end a frame early. Every failing call ends the program
(`CallFails`); a select without a frame for two seconds ends it (`SelectTimeout`). `Interrupted` is EINTR, after which
`Retry` makes the call again, any number of times; `SelectSpurious` is a select that reports a frame for which DQBUF answers
EAGAIN, any number of times too. A negative `-c` would make the loop run until the counter wraps and is not modelled, nor is the
colour conversion of capture_to_fb.

The addresses are the code's, counted in pixels. draw_rect clears with `line_length`, `xoffset` and `yoffset`
(v4l2test.c:65, 105; `Cleared`); capture_to_fb strides by `xres` on the screen (159, 163; `Location`) and by the width in the
buffer (138; `Source`), where the driver's rows are bytesperline apart (`Stride`). What the screen shows is at `Shown`, with the
screen's line length and offsets. A store outside the mapping, which has xres * yres pixels, changes something else or ends the program;
the model ends it (`StoreOutside`) or ignores the store, so it does not follow what other memory would then hold.

* `ShownIsFrame`, first part: where lines and rows are not padded, the screen is not panned and the picture fits (`Plain`), each
  pixel of a row that the frame brought is that frame's pixel of this place, a row it did not bring is older, since bytesused is not looked
  at (v4l2test.c:235), and around the picture it is black.
* Second part, for any screen and position and a picture no wider than the screen: at the code's addresses, as far as they are in the mapping,
  lies what the buffer held when DQBUF handed it out, each cell once, and the rest is as draw_rect left it. On a padded or
  panned screen, or with padded rows, these addresses are NOT where the picture belongs: the code then shows it sheared, displaced, or with what was
  on the screen before beside it. The model has those behaviours (second geometry and second picture of `MCCapture`), and no property calls
  them right.
* `Ends`: the program ends when it has drawn its frames, a call fails or the camera stops. Neither loop counts its rounds,
  so a driver that reports for ever frames it does not have, or signals that keep coming, can keep it; the property names
  exactly these two.

## 3. Runs

| run | instance | shows |
|---|---|---|
| `file_server` | 2 pids, 2 servers, 2 names (one exists), capacity 3, 1 removal, 1 + 1 kills; deadlock checked | all properties of FileServer |
| `cal_server` | 2 clients, 2 servers, 2 operands, 4-bit int, 1 removal, 1 + 1 kills | `EquationsOnce` |
| `cal_server_own` | 2 clients, 1 server, no kills | `OwnEquation` violated |
| `bread_factory` | 2 makers, 6 loaves, 3 boxes of 2 | safety, the end unless starved, refinement of `Factory` |
| `pthread_sem` | n = 8, post at 4 | safety, termination |
| `sem_rw` | 3 processes, 2 rounds, 1 kill, 2 SETVALs, 1 removal | safety, `Finishes` |
| `shm_sem` | 2 producers, 1 consumer, 2 times, TIMEOUT 1, 1 kill, 1 SETVAL, 1 removal | safety, `ConsumersEnd` |
| `device_server` | 2 clients (2 and 1 commands), words 1 and 2, backlog 1, 1 kill | types, `OwnConnection`, `AskedIsAnswered`, refinement of `RemoteDevice` |
| `ftp` | 2 clients (2 lines and LS), 2 ports, 2 tries, table of 5 with 0 or 4 inherited, 1 kill of a child, 1 unexplained failure | types, `DescriptorsAccounted`, `OwnData`, `LineIsAnswered` |
| `echo_servers` | 4 programs, 2 clients of 2 bytes, a write blocks at 1 byte | types, `WholeEcho`, `Served` |
| `echo_thread` | the same, EX07-06 only | `EchoBack` violated |
| `capture` | screen 3 x 3, plain or padded to 4 and panned by 1 and 1, pictures 2 x 2 and 3 x 2 with rows of 4, 3 positions, 1 to 3 buffers granted, 3 frames, 0 or 2 to draw | types, `ShownIsFrame`, `Ends` |

Why the bounds are enough: two clients and two servers are the least with which replies can be
exchanged and answered out of order; one kill is enough for a stale reply and
for a lost request, and restarts after it are unbounded (a pid or a server starts again as often as
it likes). Two names tell one answer from another, one of them does not exist.
One removal gives an old and a new queue at once. Three processes on the semaphore are one
in the section, one that waits and one that is killed. Two rounds and `TIMEOUT` 1
reach the loop's head again, with both outcomes of its test. Six loaves are three boxes,
so that both counters pass through every phase more than once.
Two clients of a server are enough for everything one can do to another: its place in the queue, the LED, a port,
a descriptor number, main's variable. Words 1 and 2 form every command there is and one that is unknown; two
commands of one client show that nothing of the first is left over. In `ftp`, two ports and two tries let both children
meet on the first and part on the second, or run out; with 4 of 5 descriptors inherited every call that
needs one fails once, with 0 none does. Two bytes and a stream that takes one make a write block between them. In `capture` two
buffers are the least the program accepts, three leave one for the driver while one waits and one is drawn, three frames
for two drawings let a buffer be filled again; the three positions fit, run over the right edge and off the bottom, on a plain screen
and on one with padded lines and offsets.
Deadlock checking is off where the programs end by themselves.

Bounds that exist only for TLC: `MaxRmid`, `MaxClientKill`, `MaxServerKill`, `MaxKill`,
`MaxSetval`, `MaxSemRmid`, `MaxAsk` and `Script` (what clients send), `MaxBusy`, `Bytes`, `MaxFrame`. `Cap` and `Backlog` are limits of the kernel made small. None of them is a number the proofs fix.

Fairness. `FileServer`: weak fairness of each process' next step, that is, the scheduler runs
every runnable process; nobody has to start, to be killed or to remove the queue. Weak
fairness is enough because a reply with a client's pid stays enabled for it alone, and the
server that waits may be any. `BreadFactory` and `PthreadSem`
need weak fairness only: nothing is assumed of the order in which a mutex is given. `SemRW` and `ShmSem`: strong fairness of `Dec`, since the kernel serves
those who wait for a semaphore in the order they came. `Tick`: time passes.
`OpenFails` is not fair: no open has to fail.
`DeviceServer` and `Ftp`: weak fairness of main, of each child and of a client that has an answer to read or a data connection to
make; nobody has to connect, ask, close or be killed, and main may fail instead of going on. `EchoServer`: weak
fairness of the threads alone, clients may stop reading. `Capture`: weak fairness of the program; nothing obliges a call to
fail, select to be right or signals to stop, and the driver may stop for ever.

## 4. Findings

`cal_server_own`: cal_client.c:44 receives the first message of type `MTYPE_S2C`. Of two clients
that run at the same time each can print the other's operands and product, against its
usage `{op1} {op2}` (cal_client.c:23). EX03-13 repairs this by addressing replies by pid.

`echo_thread`: thread_server_bd.c:105 passes the address of main's variable `sfd_client` to each thread, and main goes on to
the next accept, which stores into it. A thread that starts late (line 23) reads the next client's descriptor. Two threads
then serve one connection: each reads a part and writes it when it is scheduled, so that the client's bytes come back in another
order than they were sent, against the comment `echo back` (line 41); the other client is never served.

## 5. Proofs

All proofs are checked to the last leaf and hold for every value of the constants that
satisfies the named assumptions (`QueueAssumption`, `FileServerAssumption`,
`BreadAssumption`, `PthreadSemAssumption`, `SemAssumption`, `RWAssumption`, `ShmAssumption`, `SockAssumption`,
`ForkAssumption`, `DeviceAssumption`, `FtpAssumption`, `CalAssumption`, `EchoAssumption`, `CaptureAssumption`).

* `MsgQueueProofs`, the file server. `TypeCorrect` is inductive with the field types of messages alone. `TrueAnswer`
  follows from `MessageInv`: a message whose type is not `MTYPE_C2S` is the `Answer` of a request,
  wherever it is. `Conservation` and `NoSendBlocks` are about cardinalities: the set of waiting
  clients and the set of handling servers change by one element in a step, and `RemoveAtProperties`
  says what msgrcv does to the queue's length and elements. `OwnAnswer`
  needs more: while no client was killed, a client that waits is `Awaited` by at most one message in the
  queue or in a server (`Solo`), and that message names its file (`OwnInv`). Without uniqueness a second
  message could answer the next client of the same pid.
* The refinement (`ServiceImplemented`). The mapping counts: `Pending(p, n)` is the number of places in the queue and of servers
  that hold a message of pid p about file n. `Positions` turns the places into a finite set, so that a send adds one to one count,
  a receive takes one from it and adds a server, and a removal of the queue clears all of them. Every action is then
  `Ask`, `Reply`, `Lose`, `Leave`, `TakeDown` of `RpcService` or a stutter, each by a lemma in terms of the mapped state.
* The calculator. `CalInv` is types, `EquationsTrue` and `EquationsOnce`; the last is inductive with the others. Its terms are
  cardinalities of the clients that sent a pair of operands, of the clients that printed it, of the places in the queue and of the servers
  that carry it; a step moves one element from one set to another (`Balanced`), and a server that multiplies keeps the
  operands (`MultipliedType`). `EquationsTrue` says what remains of `OwnEquation`: the equation printed is true.
* `BreadFactoryProofs`. `LockInv`: a thread between lock and unlock holds the mutex. `LoadInv`: the value
  loaded is still the counter's value, and the test made before the load still holds. `JoinInv`:
  main joins in order. Together they are inductive and give `StockOK`, `NobodyLeavesEarly` and
  that every step is a step of `Factory` or a stutter.
* `PthreadSemProofs`. The same two, and `PostInv`: until thread 1 has stored `Signal` it counts alone
  and g_sem is 0; from then on exactly one of the post and thread 2's start exists.

* `SemRWProofs`. Neither `UnitConserved` nor `NeverNotSame` is inductive. `UnitInv` says where the unit is
  (not made yet, in the semaphore, or with the one process in the section), that `semadj` is 1 exactly for the process in the
  section, so that an exit gives back exactly what is missing, and that the file is what the process between write and
  read wrote. It is implied by `OperatorOnce`, which no step makes true again. `BoundInv` carries the second part of
  `UnitConserved`, without that condition: `semadj` of a process is at most 1 and positive only inside the section of its semaphore, so
  that an exit raises the value by no more than the place it leaves (`ExitBound`), and only a SETVAL raises the sum.
* `ShmSemProofs`. The same `UnitInv`; `RecordInv` is what the process in the section knows of the record (the consumer that
  prints: its checksum is right NOW); `WholeInv` says that while nobody was killed only a producer between
  its first and its last store leaves the record other than whole. The process alone in the section (`Alone`) is what carries
  them over a step of any process.
* `ForkServerProofs`, for all three servers: `ForkInv` adds to `OwnDescriptors` that main has a client's descriptor exactly from
  accept to its close (`MainInv`): only so does fork give the child the one connection that is its own. `OwnDescriptors` is proved with
  the children's work left open except that it keeps the descriptors.
* The device server. For the refinement `Underway` follows a command: its words not read yet,
  the child's copy, or the answer, never two of them; a client that has not asked has nothing underway. The
  three visible steps then are steps of `RemoteDevice`, and the rest change nothing it sees. The reads and writes rest on four lemmas
  about sequences of one and two elements.
* The ftp server (`FtpInv`). `OnceInv`: a client is in the queue once and its child is started once; without it an old session could be
  started again. `Phases` ties what a session holds to where it is in process_command. With it `Balances`, which is
  `DescriptorsAccounted`, is inductive; it is not by itself, for example at the close of the data socket. `OwnData` needs most.
  Two children may be bound to one port but never listen on it (`PortsApart`), and of the port a child has told there is one copy:
  in the stream, with the client (`told`), or turned into the client's place in the child's queue (`PortIsKept`). While it is there the child
  waits in accept on that port with itself not in the queue (`Waits`), so the client that connects there comes to its own child. All this is said of
  the sessions that are not `Astray`, one by one (`OwnSession`), so that it stays true of them when others break down: a child that
  listens keeps all others off its port (`OthersKept`), and a client of a broken session that connects there is the one `crossed` records.
* `EchoServerProofs`. `TableInv`: a descriptor that is taken is of an open connection, and no other is of it. As there are as
  many descriptors as clients, and the client in the queue has none, one is free (`FreeLeft`, by the pigeonhole theorem); the lowest is one
  of them (`MinIn`, by the well-foundedness of <). `OwnLoop`: unless raced, a thread's descriptor is its client's; when it is closed
  no other loop has it, so that a number is used again only after the last loop that knew it has ended. `Buf(c)` is
  then the only buffer that holds bytes of c, and `PiecesInv` says that a, b and r, the bytes on the way back, in
  `Buf(c)` and on the way there, are numbered one after the other from `got` to `sent`; each action moves
  bytes from one to the next (`ReadPieces`, `WritePieces`, `SendPieces`, `ReceivePieces`). `EchoWhole` follows with `HeldIs`.
  `EchoInOrder` is `EchoBack` unless raced, and `EchoAlone` says that only EX07-06 can race: for the other three programs
  `EchoBack` and `WholeEcho` hold as they stand. The code assumed for it is that clients are finitely many (`EchoAssumption`).
* `CaptureProofs`. `TypeInv` needs that the driver touches nothing before STREAMON (`Quiet`) and that the row to draw is a row of the
  picture (`Drawing`). For `ShownIsFrame`: frames are numbered upwards (`Stamped`), and where the program's rows and the driver's are of one length a
  buffer not with the driver holds its frame in the rows that were filled and older ones in the rest (`Filled`), each cell of its own
  row and column; the rows drawn so far are at the code's addresses (`Drawn`) and nothing else was drawn (`Dark`). That a picture no wider than xres
  never has two pixels on one address (`OtherPixel`), that a cell of a buffer is of one row and column (`OtherCell`), and that on a plain
  screen the code's addresses are the screen's and draw_rect has cleared all of it (`PlainPlace`, `PlainCleared`) is arithmetic on rows of
  one length (`RowsApart`, `RowOf`). No theorem says that a picture is in place on a padded or panned screen: it is not.

Every safety property and every refinement that a run checks is a theorem, except the two that the runs of section 4 violate.
Only model-checked: liveness (`Answered`, `EndsUnlessStarved`, `Terminates`, `Finishes`, `ConsumersEnd`, `AskedIsAnswered`, `LineIsAnswered`, `Served`, `Ends`), which
TLAPS cannot prove under fairness. Each inductive invariant was checked with TLC as an invariant before it was proved, that of
`EchoServer` on three clients too. The constants are not bounded by what the runs use; `IsFiniteSet` in `CalAssumption`, `EchoAssumption` and `RWAssumption` is
what cardinalities need, and the code has finitely many processes.

## 6. Plan

1. Done: the queue programs, the semaphore programs, two thread programs, the TCP servers, the camera; proofs of the safety of
   all of them and of the three refinements.
2. `OwnEquation` of `CalServer` with one client at a time, which is how the program is meant to be used.
3. `CountThreads` (EX04-02 to 04): the same counter without a mutex, where `CountsAddUp` must fail, with it, and with a
   shared bound; EX07-05's echo loop on `ForkServer`.
4. `Mgrep` (EX02-06): children and waits, a fork that fails and the -1 that waitpid takes for any child.

Not modelled, and why. EX07-02: its two handlers are those of `Ftp` and its server serves one client after another as EX07-01
does; it would repeat both. EX03-07 and EX03-09: `SemRW` and `ShmSem` without the semaphore promise nothing; the
mutants `DecNoWait` and `DecMissing` are those programs. EX07-09 and 10: a loop of receive and reply without state. EX03-11,
the pipes and FIFOs: one writer and one reader, nothing decided from what is received. Straight-line programs
of one process (EX01, EX02 except mgrep, EX05, EX06-01 to 03) and generated files (`.o`, `.i`, `.s`, binaries).
