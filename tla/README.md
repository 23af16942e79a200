# TLA+ models of the DAP server

DAP is a set of C daemons that collect what PC agents report and keep it in a
MariaDB database. This directory holds TLA+ modules that model the parts of it
whose correctness depends on the order in which processes, threads and signal
handlers run, the TLC configurations that check the modules, and proofs for
TLAPS. Paths below are relative to `src/`. The repository has no tests and no
design document; where a model compares the code with an intention, the
intention is a comment of the code (in Korean) or a log message.

Contents: 1 the system, 2 the modules, 3 spools, 4 the queue in memory,
5 forked children, 6 the supervisor, 7 the threads of dap_pcif, 8 runs,
9 fairness, 10 proofs, 11 findings, 12 what is not modelled, 13 plan.

## 1. The system

`proc_src/Makefile` builds the daemons master, prmon, sysman, vwlog, alarm,
dblog, pcif, proxy, schd, report, frd and policy_fw. (`dbif` is in the tree and
not built: dap_frd took its place.)

```
 PC agents --TCP--> dap_pcif --+-- unix datagrams --> dap_policy_fw --- spool FW_POLICY  ---+
                    (forks,    |                      (2 children)  \-- spool FW_SERVICE --+ \
                     threads)  +-- spool DT_xx ------------------------------------------+  v  v
 every daemon --unix datagrams--> dap_dblog                                              dap_frd (n + 2 children)
                                     |                                                        |
                                     +---------------------> MariaDB <------------------------+
 dap_master starts all of them, and starts them again when they are gone.
```

| component | state it keeps | operations | interacts by | what is hard | what makes it correct |
|---|---|---|---|---|---|
| Spool (`policy_fw/fw_fork.c`, `frd/frd_file.c`) | files `<kind>.00001` ... `<kind>.nCfgMaxFileIndex` in a directory; index, stream and position of the writer and of the reader | append a record, move to the next name; read, move to the next name, unlink; start of either | nothing but the directory | no lock: each decides by names the other creates and removes; indexes wrap; either may stop anywhere | no mutual wait; no file unlinked while written, or emptied unread; files in their order; records in their order and once |
| Forking parents (`policy_fw/fw_main_task.c`, `fw_util.c`, `frd/frd_main_task.c`, `frd_signal.c`, `frd_util.c`) | `Pid[]`, `g_nForkIdx`, `g_ChildExitFlag` | fork one child per role, fork a dead one again (SIGCHLD), stop all (SIGTERM) | fork, signals, wait | handlers interrupt the startup loop and each other and share its globals | the child of a slot has the slot's role; one child per role; a dead one is replaced; none is forked by an exiting parent |
| Ring queue (`lib_src/ipc/dap_sQueue.c`) | `g_nFront`, `g_nRear`, `qsiz + 1` slots | put, get, save to a file, load | two threads share plain ints | no lock; the slot is freed before it is copied | bounded FIFO, no slot written while copied, as far as the two stores of an index allow |
| dap_dblog (`dblog/dblog_main.c`) | the ring, its save file, `retryCnt` | receive and put, get and insert, put again, save at a signal, load at a start | datagrams in, SQL out | main thread becomes a second producer; handler saves while the receiver puts; kills during save and load; a pid file left behind | rows in order, none twice; what was saved is inserted; no thread stuck |
| dap_alarm, dap_vwlog | the same ring | receive, get, send | datagrams; TCP to the console | as the ring | as the ring |
| dap_master (`master/`) | process table, `RestartFlag` | start what is missing; restart all at a time of day; dump of dap_frd | /proc, fork/exec, kill, pid files | restart thread and main loop both start daemons | at most one instance of each, and at least one in the end |
| Pid files (`lib_src/com/dap_pidfile.c`) | `<process>.pid` | check, make, clean up | file system | left over after a kill; two starts at once | only one instance; a start succeeds in the end |
| dap_pcif (`pcif/`) | thread slots, `mutexFile`, DT spool writers | accept, hand to a thread, write the spool | TCP, threads, spool | slot number passed by the address of a local; lock held while waiting for a name | each connection one slot; no slot and no agent waits for ever |
| dap_frd data handling | none | SQL per record type | SQL | - | - |
| Datagram queue and linker (`lib_src/ipc/dap_fQueue.c`) | a kernel socket buffer | send, receive | unix datagrams | full buffer | order per sender |
| dap_prmon, dap_sysman, dap_schd, dap_report, dap_proxy | little | periodic reads, batch SQL, HTTP relay | /proc, SQL, HTTP | thread slots of the proxy (as pcif; the search for one in `proxy_fork.c:29` has no bound) | - |
| libraries (com, db, crypto), vendored code, tools | - | - | - | - | - |

PROJECT.json lists the same components with their source files and status, and
every hazard with the line where it bites.

## 2. The modules

```
LossyFifo  <-- implemented by --  SpoolRing  <-- extended by --  PolicySpool -- implements --> LossyFifo
                                      ^
                                      +--------- extended by --  DetectSpool

BoundedFifo <-- implemented by -- SQueue <-- extended by -- DbLog -- implements --> LossyFifo

ForkRoles     Master     PcifPool

SpoolRing_proofs  <-- PolicySpool_proofs, DetectSpool_proofs
SQueue_proofs     <-- DbLog_proofs
ForkRoles_proofs      Master_proofs      PcifPool_proofs
```

`X_proofs` extends `X` and holds the theorems about it; the lower arrows are
EXTENDS too. `MC*.tla` are the modules TLC is started on; constants are numbers,
Booleans and one name of a daemon, given in the `.cfg` files. Operators marked "Mutant" are wrong
variants of the definition after them. They stand for plausible slips in the
code; with one in the place of the definition, the property it was written for
must fail. No behaviour of the modules uses them.

`LossyFifo` and `BoundedFifo` are the abstract specifications: what a spool and
what a queue promise to those who use them.

Data is abstract throughout. A record is its number in the order of arrival; a
file is the number of the first record in it and its length; a child is whether
it lives and which role it took.

## 3. Spools: SpoolRing, PolicySpool and DetectSpool

**State and code.** `dir` is the directory: which file a name stands for. Names
are kept apart from files, because a stream that is open outlives its name and
`fopen(..., "wb")` empties a file under everyone who has it open. A file is an
entry of `base` (how many records had been begun when it was created or
emptied) and of `size`.

| model | code |
|---|---|
| `wpc`, `widx`, `wfp`, `wleft` | the writer's place in `fw_WriteDataFile`, its `nLastFileIdx`, `Fp`, and what is left of the record |
| `Receive`, `WriteChunk` | `fipc_FQGetData`; `fwrite`, `fflush`, `ftell` and the test of the size in `fw_GetNextFileSize` |
| `NextNameFree`, `OpenNextForWrite` | the loop of `fw_GetNextFileSize` until the name is gone; `fclose`, `fopen "wb"` |
| `rpc`, `ridx`, `nidx`, `rfp`, `rpos`, `reof` | the reader's place in `frd_FileRead` and `frd_GetNextFile`, its `szFileFullPath`, `nNextIdx`, `Fp`, `ftell`, and `feof` |
| `ReadRecord`, `ReadPart`, `ReadNothing` | the three results of the `fread` in `frd_FileRead` |
| `CheckNext`, `NextNameExists` | the test in `frd_FileRead` after an empty read: is this file full, or is there a next one; the loop of `frd_GetNextFile` |
| `Drain`, `UnlinkRead`, `OpenNextForRead` | `frd_CheckEofFile`, `fclose`; `unlink`; `fopen "rb"` of the next |
| `WriterStops`, `WriterStarts` | a child of dap_policy_fw dies anywhere; `fw_ForkWork`, `fw_GetLastFileName` |
| `ReaderStops`, `ReaderStarts`, `ClearOldFiles`, `NameFile`, `OpenAtEnd`, `OpenFails` | a child of dap_frd dies; `frd_InitClearFile`, `frd_ClearPolicyFile`, `frd_GetFileName`, `frd_ForkWork` |
| `asked`, `waiting`; `Ask`, `LockAndWrite`, `GiveUp` | the threads of dap_pcif in `fpcif_FileMutexLock`: 500 tries of `pthread_mutex_trylock`, then a failure for the agent; the thread that writes (`Writing`) keeps the lock over the wait for a name, and its agent is answered when `fpcif_WriteDataFile` returns |
| `PcifStops`, `PcifStarts` | the child of dap_pcif exits; `fpcif_FileWriteInit`, `fpcif_GetLastFileName`: the name after the highest |
| `saved`; `FrdStarts`, `OpenAtPosition`, `FirstFileMissing` | `FW_DT_LAST_<n>`; `frd_GetFirstFileIndex`, `fopen`, `frd_GetLastPosition` and `fseek` |
| `FrdStops` (`SavePosition`, `SavePositionBehindRecord`, `SaveNothing`), `FrdIsKilled` | `frd_HandleSignal` in a child with `frd_SetLastPosition`; SIGKILL. `gone`: the parent was killed as well, its pid file keeps dap_frd away until the dump |
| `dumping`, `dname`, `dpos`; `DumpBegins`, `DumpOpens`, `DumpRecord`, `DumpUnlinks`, `DumpEnds` | `dap_frd dump` between the nightly kill and start: the name `frd_DumpDtLoop` has from `readdir` and `ftell` in it, one `fread` with `frd_BufferToDBMS`, `unlink`; `frd_DumpDeleteDtLast` |
| `segvs`; `DumpSegv`, `DumpStops` | `frd_HandleSignal` in the dump: at SIGSEGV it unlinks the file being read and leaves `DumpFlag`, for which `fmaster_FrdDumpExec` runs the dump again, `MaxCheckCnt` times; at any other signal the dump is over |
| `emptied`, `cut` | history: a start of dap_pcif has met a name in use; a dump has ended before its time |

Two system calls of one process are two steps wherever the other process can
tell; a look at the directory and what is decided by it are one step, and what
is done because of it the next.

**Assumptions.** The end-of-file flag of a stream stays up after a later read
that succeeds and until the stream is closed (`fread` of glibc before 2.28
reads on in spite of it, which `frd_FileRead` depends on: it polls the same
stream). A policy record of about 300 bytes is one `write(2)` with stdio's 4096
byte buffer; detect data may take several, `Chunks` of them. The file system
does not fail.

**What is shown.** In the steady state every safety property is proved, for
every number of names, file size, record length and number of records: writer
and reader never wait for each other (`NoMutualWait`); the writer blocks only
when all names are in use (`BlocksOnlyWhenFull`); a file the reader is about to
close and unlink is never the writer's (`WriterHasLeft`), though the reader
knows only that the next name exists; no file is emptied (`NeverTruncates`);
the reader takes the oldest file there is (`FilesInOrder`); with records cut in
pieces anywhere, no chunk is handed over twice or after a later one
(`InOrder`: `out` holds where each block ends, and the block after it begins no
earlier). Where records divide the limit of a file, also proved: a full
file is left only when all of it is read (`FullFileIsRead`). With records of one
chunk the spool implements `LossyFifo`, which is proved too. Model-checked only:
the writer gets its name and the reader comes to the file being written again
and again (`WriterGoesOn`, `ReaderFollows`).

With more than one chunk a reader that met a part of a record has dropped it
(`ReadPart`), and every block it reads from there to the end of the file begins
in the middle of a record and ends in the middle of the next, of which the rest
may not be written yet. The code hands such blocks to the DBMS like any other,
so no property says that only whole records arrive; `InOrder` covers these
blocks too.

The channel may **lose** records, and `LossyFifo` says so because the code
does it: see `spool_loss` among the findings.

With stops and starts (`PolicySpool`, before the names have wrapped): a reader
that starts names the newest file (`NamesNewestFile`), hands over nothing
written before its start (`OnlyFromNowOn`), nobody empties a file that holds
unread records (`NothingUnreadEmptied`), and the whole still implements
`LossyFifo`: all proved for any number of stops of either side at any step.
Model-checked: however often the two stop the reader comes back to the file
being written (`ReaderCatchesUp`, infinitely often). After the wrap the first of these is false: the reader takes the
highest index for the newest file (`frd/frd_file.c:84`, while `frd_fork.c:70`
says "the newest file"), and unlinks the newer one under the writer.
`PolicyWrap.cfg` shows it.

**Detect data** (`DetectSpool`) is different: it must be neither lost nor
doubled, so a reader that starts takes the first file there is, from the
position the last one saved. The position is a bare number. Of the following
the safety properties are proved for records of one chunk and any number of
threads, stops, kills and dumps, and model-checked together with the liveness
properties where each of the two processes is stopped once by a signal, the
reader is killed once and one dump is made that may raise SIGSEGV twice or be
ended by another signal, at any step:

- `NothingSkipped`, `NothingDoubled`: for readers that were stopped by signals
  only. What a signal catches between `fread` and the end of the insert
  (`inHand`) is not handed over: the position behind it is saved.
  `NothingDoubled` also needs the signal to find the stream open
  (`closed = 0`): between two files `Fp` is NULL, `FW_DT_LAST` has been emptied
  already, and the next reader begins at 0.
- Both leave out what follows a start of dap_pcif on a full ring (`emptied`):
  `fpcif_FileWriteInit` opens the name after the highest with "wb" whether a
  file has it or not, and empties a file that nobody has read. The model makes
  that start. `DetectFull.cfg` checks `NothingUnreadEmptied`, and TLC finds it
  violated; it is no property of this spool.
- `NothingSkipped` also leaves out what follows a dump cut short (`cut`), by a
  signal or by more SIGSEGV than it is run again for: `FW_DT_LAST` is still
  there then, and belongs to a file that may be gone.
- After SIGKILL the saved number may belong to another file. `DetectStale.cfg`
  checks the sentence of `frd_fork.c:188`, that the position is the one "it was
  reading before", as `PositionOfItsFile`, and TLC finds it violated.
- `DumpIsComplete`: a file that the dump unlinks has been handed over, read by
  read; the handler of SIGSEGV loses what lies behind the last read of the file
  it unlinks, and no more.
- `DetectCatchesUp`: as for policies, with restarts. A full ring at a start of
  dap_pcif, and a dump cut short, are left out here too: the first puts the
  newest file before the oldest, the second leaves a gap in the names, and after
  either reader and writer can wait for each other.
- `AgentsAreAnswered`: though one thread holds the lock for as long as the ring
  is full, the other threads give up, and no agent of theirs waits for ever,
  also if no reader ever comes.
- `WritersAgentIsAnswered`: the agent of the thread that has the lock has no
  such limit. It waits until the reader has freed a name, and is answered as
  long as a reader is there or is started again.

`Ordered = TRUE` restricts starts to times when a higher index is a later file;
the name after the last need not be free. This is an assumption on when restarts
happen; the code does not ensure it. With `Ordered = FALSE` TLC finds
`NothingSkipped` and `NothingDoubled` violated: the reader takes the lowest
index for the oldest file, and reader and writer can wait for each other
(`NoMutualWait`).

## 4. The queue in memory: SQueue and DbLog

`SQueue` is `dap_sQueue.c` with its two threads: the receiver puts (`PutCheck`,
`PutFill`, `PutLoad`, `PutStore` are the test, the memcpy, the read and the
write of `g_nRear`), the main thread gets (`GetCheck`, `GetAdvance`, `GetTake`:
`SQGet` moves `g_nFront` *before* it copies the slot). `data` has cells beyond
the array, so that an index that is not wrapped in time does what it does in
C. The model is that of the build the makefiles make (`gcc -g`, no `-O`):
`g_nRear++; g_nRear = g_nRear % g_nQnum` stores the index twice, and the other
thread, or a signal handler, can see it unwrapped. For the moment between the
two stores a full ring looks like one with room, or an empty one like one with
records. `misled` notes that a thread has acted on it, or that a save has begun
with such an index. `g_nWidth` and `g_nCwidth` are only printed and are left out.

`DbLog` extends it to the life of dap_dblog: `Insert`, `InsertFails` and the
put-again of `fstFromQToDBMS`, where the main thread is a second producer
(`MainPuts`, `MainFindsFull`); `Signal`, `SaveBegins`, `SaveOne`, `SaveEnds`,
`Exit` of `fstHandleSignal` and `fipc_SQSaveQ`, which interrupt the main thread
anywhere while the receiver goes on; `Crash` (SIGKILL); `Start`, `LoadOne`,
`LoadWraps`, `RemoveFile` of `fstMainTask`, `fipc_SQLoadQ`, `fipc_SQRemove`.
`SaveOne` may be cut off after any record by `Crash`: what had reached the file
then is what is loaded. `pidfile` is the pid file of dap_dblog: `Exit` removes
it, `Crash` leaves it, and so does a start that finds no database
(`StartWithoutDb`, `exit(0)` at `dblog_main.c:87`). While it is there every
start returns at `dblog_main.c:78`. dap_master removes such files for other
daemons at night and not for this one, so that `PidFileRemoved`, by hand, may
happen and need not.

**Assumptions.** Signals are handled in the main thread, as Linux does while it
does not block them. `sleep(2)` in the handler takes no particular time.

**What is shown.** Proved for every `qsiz`: until a thread is misled, the two
memcpy never touch the same slot (`NoSharedSlot`), though `SQGet` frees the slot
first, and the ring implements `BoundedFifo`; and only a full or an empty ring
can mislead a thread (`BoundedFifo!Mislead`). A misled put fills the slot
being copied and leaves a full ring that looks empty; a misled get leaves an
empty one that looks full. From there on records are lost and repeated, and
`BoundedFifo` promises nothing (`Anything`). What is still proved of it, with
one producer, is that the memcpy keep to the array (`InArray` in SQueue_proofs).
Model-checked: every record put is got (`AllAreGot`), until a thread is misled.

For dap_dblog with a database that takes every row, proved for every `qsiz` and
any number of signals and kills at any step, until an index is taken between its
two stores: rows reach the database in order and none twice (`ImplementsRows`),
and what a stop saves is all that waited in the ring when the save began
(`SavedFromOldest`); a record the main thread had just taken is not in the ring
and is not saved. Model-checked: what was saved reaches the database, unless a
pid file that was left keeps the process down (`SavedIsInserted`, `KeptDown`).

With a database that refuses rows the main thread becomes a second producer, and
the ring loses and repeats records; what is checked there is that neither thread
ever stays in its retry loop (`MainGoesOn`, `ReceiverGoesOn`). The main thread
gets out only because it gives up, since nobody else empties the ring. That it
does give up is proved: it puts again only while it has tries left, and it has
`nCfgRetryQCount` of them in its life (`TriesLeft` in DbLog_proofs).

Two things the code does have configurations of their own, which are not among
the runs and end with a counterexample. `DbLogRetry.cfg` (`RefusedIsRetried`):
`retryCnt` is set once, before the loop (`dblog_main.c:217`), so that after
`nCfgRetryQCount` failed puts in the life of the process no refused record is
put again. `DbLogRace.cfg` (`PutIsKept`): the main thread puts a refused record
into the ring the receiver puts into (`dblog_main.c:306`); two puts return 0
and one record is gone.

`ImplementsRows` counts a row for every record inserted and does not look into
it. The rows of agents' logs are blank: `dblog_main.c:347` inserts the cleared
structure of another branch. What a row says is not modelled.

## 5. Forked children: ForkRoles

One module for both daemons; `Daemon` chooses between what differs.
`stack` holds what the parent was doing when a handler interrupted it, and the
handler that was interrupted by the other. A handler keeps its own signal
blocked, and that of SIGTERM never returns (it ends in `exit`).

| model | code |
|---|---|
| `StartRole`, `StartFork`, `StartForkFails`, `StartStore` | the fork loops of `fw_MainTask`, `frd_MainTask`: set `g_nForkIdx`, fork, store the pid |
| `HandlerIsCalled`, `Reap`, `HandlerReturns`, `SkipSlot`, `ForkAgain`, `ForkAgainFails`, `StoreAgain` | `fw_SigchldHandler`, `frd_SigchldHandler`: `waitpid` until there is none, the search of `Pid[]`, fork and store |
| `Terminate`, `TellChildren`, `SetExitFlag`, `WaitForOne`, `ParentExit` | `fw_HandleSignal`, `frd_HandleSignal`: `kill` of each pid, the flag, one `wait`, `exit` (dap_policy_fw kills first, dap_frd sets the flag first) |
| `ChildEnds` | a child dies or exits; SIGCHLD becomes pending |

A child copies the parent's globals, so its role is `g_nForkIdx` at the fork.
`kill(0, SIGTERM)`, for a slot with no pid yet, tells the whole process group;
the children are the part of it the model has.

**What is shown**, for dap_frd with two forks for detect data, one fork that
fails anywhere, and both signals between any two steps: `RoleOfSlot`,
`OneChildPerRole`, `NoneBornAtExit`, `RoleComesBack`. The first three are proved
for any number of roles, forks and failures. The limits of it are
stated in the properties and in the configuration, and each is a real weakness
of the code:

- `EarlyDeaths = FALSE`: no child dies before the startup has forked all. With
  TRUE, `RoleOfSlot` fails, because the handler sets the `g_nForkIdx` that the
  startup counts on.
- `missing = {}`: a failed fork of the startup shifts the roles after it.
- `s \in lost`: a failed fork in the handler leaves the slot without a child.
- A child forked but not yet stored when SIGTERM comes is told nothing
  (children are only told through `Pid[]`), and the parent waits for one child,
  not all. No property claims otherwise.

For dap_policy_fw `RoleOfSlot` is violated (`fork_fw`), and `NoneBornAtExit`
would be: it tells its children before it sets the flag.

## 6. The supervisor: Master

dap_master has two threads that start daemons. The main loop looks into /proc
every 10 seconds and starts what is not there; the restart thread kills the
daemons at 04:00 with SIGKILL, has `dap_frd dump` run, removes the pid files
and starts the daemons. `RestartFlag`, a plain char, keeps the main loop away,
which reads it twice a round and acts on it later. The module follows one of
the daemons restarted so, dap_frd, with its pid file.

| model | code |
|---|---|
| `proc[i]` | a process of the daemon: before it looked for its pid file (`start`), before it made one (`make`), before it noted its number as the parent's (`made`; a signal then ends it with the file left behind), serving, in its handler, and what is left when the parent is dead: children nobody knows of (`orphan`) or that were told to stop (`told`) |
| `CheckPidFile`, `MakePidFile`, `NoteParentPid`, `ParentExit`, `ChildrenEnd` | `fFile_CheckMasterPid`, `fFile_MakeMasterPid`, `parentPid = getpid()`; `frd_ParentExit` with its one `wait` and `fFile_cleanupMasterPid` |
| `Crash`, `Kill` | a signal the daemon handles; SIGKILL of the parent |
| `Terminated`, `AfterSignal` | `kill(pid, 15)`: it reaches one process, the parent, or of several orphaned children one |
| `mpc`, `status`, `pid`; `LookUp`, `MasterStarts` ... `Rescan` | the main thread in `fstMainTask`; `g_stProcessInfo` as last looked up; `fmaster_SaveProcessInfo`, `fmaster_InvokeProcess`, which tells the process it knows to end before it starts one |
| `MasterSignal`, `MasterExits` | `fmaster_HandleSignal`, `fmaster_KillAllProcess` |
| `tpc`; `RestartBegins`, `KillAll`, `DumpEnds`, `CleanPidFile`, `StartAgain`, `RestartEnds` | the restart thread in `fmaster_RestartProcess` |

**What is shown.** `OneInstance`: at most one dap_frd serves; two would read the
same files and unlink them under each other. `DumpAlone`: none serves during
the nightly dump. Both are proved for all bounds. `NightBringsBack`: a night
brings the daemon back, also one that a pid file left over from a SIGKILL has
kept away all day. `ComesBack`: by day a daemon that removed its pid file is
started again.

The limits are in the properties, and each is a weakness of the code:

- `crossed`. The look at `RestartFlag` and the start are two steps, so that a
  night can begin between them; and the main loop may start a daemon while
  another that it started is between the look for its pid file and the making
  of it. After either, two daemons may run. Neither exception can be left out:
  without it TLC finds `OneInstance` violated.
- Children that were told to stop while their parent waited for only one of
  them (`told`; `frd_util.c:88`) are not counted as serving. Counted, they
  violate `OneInstance`.
- `DumpAlone` is about the nightly dump. The dump at the start of dap_master
  can run beside a daemon left by the previous dap_master.

Not modelled: SIGKILL of dap_master, a pid that the kernel gives to a foreign
process, daemons that are not restarted at night (they take the same steps
without the restart thread), the process table in the database.

## 7. The threads of dap_pcif: PcifPool

One child process of dap_pcif: its accept loop, its connection threads, and the
hang check.

| model | code |
|---|---|
| `thrFlag`, `young`, `manager`, `cli_sock` | `g_stThread_arg[]`: slots taken (`'Y'`); those taken less than 300 s ago, in their order (`thrTimer`); those whose `threadStepStatus` is 99; their sockets |
| `cli_thread` | the field of `local_stThreadArg`, one local variable of the accept loop, whose *address* every thread gets |
| `fds`, `asock` | open descriptors; `accept` returns the lowest free number, so that a number closed is soon another connection's |
| `Clear`, `Accept`, `TakeSlot`, `PoolFull`, `CreateThread`, `CreateFails` | one round of `fpcif_ForkWork`: the structure is cleared, a connection accepted, a slot taken (`fpcif_ThreadGetIdx`) or the process ended, a thread created |
| `ReadArg`, `ReadSocket`, `ServeManager`, `CloseSocket`, `FreeSlot` | `fpcif_PcifThread`: the slot number is read, then the socket of that slot; the session served, the socket closed, the slot given back |
| `Age`, `HangCheck`, `WaitForSessions` | 300 s pass; `fpcif_ThreadHangCheck`; the wait of `fpcif_ThreadLoop` before `exit` |
| `ForkedAgain` | `exit`, and the child that `fpcif_SigchldHandler` of the parent forks: it starts from nothing, its `local_loop_count` at 0 too, while the listening socket stays |

**What is shown.** `OwnConnection`, proved for every number of slots and
threads: each thread has its slot and an open socket to itself, and a slot that
is taken is a thread's or on its way to one, *as long as every thread has read
its slot before the accept loop came round* (`~late`). Nothing in the code
ensures that (`pcif_fork.c:182`); without `~late` the property fails at once,
with two connections in one slot. `SlotsComeBack` holds with late threads too:
whatever number a thread worked with, the hang check or the end of the process
frees each slot, except one that a manager's old session has or that lies above
it (`Masked`). `AcceptsAgain`: after "Thread Is Full" and after a hanging
session, connections are accepted again.

`NThreads` bounds the threads alive at one time, those of late readers
included, and is not a number of the code; a thread that would be one more is
not created.

## 8. Runs

| run | module, cfg | bounds | distinct states | shows |
|---|---|---|---|---|
| spool_ring | MCSpoolRing, SpoolRing.cfg | 3 names, 3 chunks a file, 2 chunks a record, 10 records | 270,396 | the steady state of a spool, safety and liveness, with half-written records and blocks out of step |
| policy_spool | MCPolicySpool, PolicySpool.cfg | 7 names (no wrap), 4 records, 1 writer stop, 2 reader stops | 201,961 | stops and starts of both; the refinement of LossyFifo |
| detect_spool | MCDetectSpool, DetectSpool.cfg | 2 names, 2 records a file, 3 records, 2 threads, each process stopped once, 1 kill, 1 dump run twice at most | 603,756 | positions, lock, dump |
| spool_loss | MCSpoolRing, SpoolLoss.cfg | 3 names, 5 records | violation | finding 1 |
| squeue | MCSQueue, SQueueFifo.cfg | `qsiz` 2, 6 records | 7,163 | the ring is a bounded FIFO until a thread is misled |
| dblog | MCDbLog, DbLog.cfg | `qsiz` 2, 5 records, 1 signal, 1 kill or start without a database | 141,574 | stop, save, kill, load, pid file |
| dblog_refused | MCDbLog, DbLogRefused.cfg | `qsiz` 2, 4 records, 5 gets, 2 refused | 804,019 | no thread is stuck, whatever the race does |
| fork_frd | MCForkRoles, ForkFrd.cfg | 4 slots, 6 forks, 1 failure | 501,144 | roles, replacement, exit |
| fork_fw | MCForkRoles, ForkFw.cfg | 2 slots, 4 forks | violation | finding 2 |
| master | MCMaster, Master.cfg | 4 processes, 2 nights, 1 crash, 1 kill, 1 stop of dap_master | 84,049 | one instance, the dump alone, the daemon comes back |
| pcif_pool | MCPcifPool, PcifPool.cfg | 2 slots, 2 threads, 1 round of waiting | 479,173 | slots, sockets, hang check |
| pcif_hang | MCPcifPool, PcifHang.cfg | the same | violation | finding 3 |

Five more configurations are kept beside them; each ends with a counterexample
to the one property it names: PolicyWrap.cfg, DetectStale.cfg and DetectFull.cfg
(section 3), DbLogRetry.cfg and DbLogRace.cfg (section 4).

*Why the bounds are enough to be of use.* In spool_ring records of two chunks do
not divide a file of three, so that a record is written past the limit and read
in parts. A file is left with two records in it, and ten records fill five
files: writer and reader go round three names once and more, with a full ring,
an empty ring and everything between. Three names is the smallest ring in which
the reader's name, the next and a free one differ. In policy_spool seven names
take every file that four records and one restart of the writer can make, and
one more that a reader may look for, so the names cannot wrap: an instance of
the proofs' `FewFiles`. The other case is PolicyWrap.cfg. In detect_spool two records
fill a file, and a stop of dap_pcif takes a name for each start, so that three
fill both names: the writer waits with the lock while the second thread gives
up, and a start meets a full ring. Each stop, the kill and the dump may come at
any step and in any order, SIGSEGV in any file and again when the dump is run
again. Six records go round the ring of three slots twice, with it full and
empty. In dblog the signal and the kill may come in either order and at any
step, so that save and load are each cut off. Six forks for four slots leave two
to replace children, also two of the same slot, one of the replacements dying in
turn. Four processes are the daemon that serves, one told to stop, one being
started and one of a start that crossed it; two nights let what the first left
meet the second. Two slots are enough for a connection in another's slot and for
a hanging session above a manager's; the run has no bound on the number of
connections.

`CHECK_DEADLOCK FALSE` is said where the bounded system stops: no more records
for the queues, a parent that has exited, a detect spool whose processes are
kept down. In the other spools the reader polls for ever, dap_master looks for
ever and the accept loop waits for ever, and TLC does look for deadlocks.

Bounds are constants named as such (`MaxRec`, `MaxGets`, `MaxRefused`,
`MaxStops`, `MaxCrashes`, `MaxWriterStarts`, `MaxReaderStarts`, `MaxStarts`,
`MaxKills`, `MaxDumps`, `MaxForks`, `MaxFailures`, `MaxProcs`, `MaxNights`,
`NThreads`) and are guards of the actions they bound. `MaxThreads`, `NSlots` and
`MaxLoops` are numbers of the code (`cfgThreadCnt`, and the 60 rounds of
`fpcif_ThreadLoop`), made small.

## 9. Fairness

All waiting in this code is `sleep` or `usleep` of a fixed time and another try;
the one lock modelled, `mutexFile`, is tried 500 times and given up. A process
or thread that has a step to take is running, and so takes it: weak fairness on
the steps of each, as one action, and never strong fairness. Nothing makes a
datagram arrive, a child die by itself or a signal come. Starts are fair
because somebody does them: the parents fork dead children again, dap_master
starts daemons that are not there (it polls for them). A start that a pid file
prevents is no start: nothing makes somebody remove the one of dap_dblog. `RoleComesBack` assumes
the handler of a pending signal is called.

DetectSpool: the child of dap_pcif, that of dap_frd and the dump each go on, and
a thread that cannot lock comes to its last try. Master: the main thread, the
restart thread and each process of the daemon go on, and an operator starts
dap_master again after its stop; no night, crash, kill or stop need come.
PcifPool: the accept loop goes on where it does not wait in `accept`, threads
read their argument and give their slot back, time passes, the hang check goes
round. A peer need not connect and a session need not end.

## 10. Proofs

| module | assumption | inductive invariant | theorems |
|---|---|---|---|
| SpoolRing_proofs | `SpoolAssumption` | `RingInv`, `NamesFollow`, `FifoInv` | SpoolTypeCorrect, SpoolNoMutualWait, SpoolWriterHasLeft, SpoolNeverTruncates, SpoolFilesInOrder, SpoolBlocksOnlyWhenFull, SpoolInOrder |
| | and `MaxSize % Chunks = 0` | `FifoInv` | SpoolFullFileIsRead |
| | and `Chunks = 1` | `FifoInv` | SpoolImplementsFifo |
| PolicySpool_proofs | `SpoolAssumption`, `PolicyAssumption` | `PolicyTypes` | PolicyTypeCorrect |
| | and `FewFiles` | `PolicyInv` | PolicyFullFileIsRead, PolicyNamesNewestFile, PolicyOnlyFromNowOn, PolicyNothingUnreadEmptied, PolicyImplementsFifo |
| DetectSpool_proofs | `SpoolAssumption`, `DetectAssumption` | `DetectTypes` | DetectTypeCorrect |
| | and `Chunks = 1` | `DumpInv` | DetectDumpIsComplete |
| | and `Ordered`, `Chunks = 1` | `LayoutInv`, `PlaceInv`, until `Astray` | DetectNothingSkipped, DetectNothingDoubled |
| SQueue_proofs | `QueueAssumption` | `QueueInv` | QueueTypeCorrect, QueueInArray, QueueNoSharedSlot, QueueImplementsFifo |
| DbLog_proofs | `QueueAssumption` | `TriesLeft` | DbLogTriesLeft |
| | and `MaxRefused = 0` | `SaveInv`, `RowsInv`, until `misled` | DbLogSavedFromOldest, DbLogImplementsRows |
| ForkRoles_proofs | `ForkAssumption`; but for the first, `Daemon = "frd"`; for the two of roles, `EarlyDeaths = FALSE` | `ForkBasics`, `FrdInv` | ForkTypeCorrect, FrdRoleOfSlot, FrdOneChildPerRole, FrdNoneBornAtExit |
| Master_proofs | `MasterAssumption` | `MasterInv` | MasterTypeCorrect, MasterOneInstance, MasterDumpAlone |
| PcifPool_proofs | `PoolAssumption` | `PoolInv`, `Ages`, `LoopTypes` | PoolTypeCorrect, PoolOwnConnection |

*RingInv.* Even the type invariant is not inductive alone: it holds only if the
`fopen "wb"` of the writer never meets an existing name, which depends on where
the reader is. `ReaderPlace` and `WriterPlace` say which file each has open and
how its index relates to the name; `Ring` says that names in use hold
consecutive files from the reader's to the writer's, in the order of names
round the ring; `NextSeen` that the next name the reader has seen stays until
it opens it; `AtEof` that the end-of-file flag is up whenever the reader leaves
a file, so that `Drain` hands over nothing. From these: the head of the ring is
behind the writer's file (`HeadIsBehind`), the writer appends (`OpenAppends`),
and the theorems follow action by action.

*NamesFollow.* A writer that waits has found one name in use; that then all are
is a statement about the whole ring. `Offset(i)` is the distance of a name from
the reader's, and `NamesFollow` says that the names in use are exactly those up
to a distance of `wfp - dir[ridx]`, in the order of their files. It is inductive
beside `RingInv`, so that `BlocksOnlyWhenFull` needs no induction over names:
when the reader moves on, every distance shrinks by one (`OffsetMoves`).

*FifoInv* adds what the files hold: `Contents` (the files hold the records in
the order of their creation, all but the writer's end with a complete one, the
writer's up to the last record), `ReadUpTo` (what was handed over is before the
reader's position) and `Bounded` (where records divide the limit, no file is
larger than it). Then every block read lies behind what came before. Positions
are counted in chunks from the first record on (`Origin`), so that it holds for
every number of chunks and for blocks that are out of step with the records; a
few lemmas on quotients and remainders say how many records a file holds.
`Bounded` is about chunks that divide the limit (`DivBelow`:
below a multiple of the length of a record there is room for one more), and
`FullFileIsRead` follows; TLC finds it violated for 2 chunks and files of 3.
`Chunks = 1`, the case of policy and service records, is needed for the
refinement: TLC finds it violated for 2 chunks and files of 4.

*PolicyInv.* While the names do not wrap, a file has its own number for a name
(`OwnNames`), and both sides can be described by numbers alone (`WriterAtEnd`,
`ReaderOnFile`). `FewFiles` says just that: each record and each start of the
writer creates one file at most, and the reader on the last name looks one
further. It is an assumption on how long the system runs, not on when
anybody stops, and it cannot be dropped: PolicyWrap.cfg shows `NamesNewestFile`
violated in a ring that has gone round. `Written` is `Contents` with stops: a
record the writer was stopped in is missing. `BehindStart` keeps all that was
written before the reader's start behind it or in a file it has read to the
end. `HandedBefore` bounds what was handed over last by where the reader is, and by
the end of the newest file, where it starts next. The refinement maps a stop of
the writer within a record to the loss of it.

*LayoutInv* is what remains of the ring when processes start and stop in it and
a dump takes names in any order: `NamesDistinct`; `NamesFollowOn`, from the
oldest file to the newest each next name is the next file's; `ReaderOnHead`, the reader is on
the oldest file or about to open it; `WriterOnNewest`. A start finds the oldest
file under the lowest index exactly under `Ordered`, and with `Ordered = FALSE`
TLC breaks the theorems. When a start empties a file, or a dump is cut short,
the layout is lost, and `Astray` remembers that one of them has happened: what
is inductive is `Astray \/ LayoutInv`. That a highest
and a lowest index exist at all is proved from the well-founded order of the
numbers (`LeastOf`, `GreatestOf`, by `WFMin`).

*PlaceInv* adds what was read. `NoSkip`: of the file being read all up to the
reader's position was handed over or was in hand at a signal, and while no reader
runs the saved position is one in the oldest file for which the same is true
(`SavedAtHead`), or none, or 0. `Once`: nothing was handed over that lies behind
these places. Both hold for as long as their causes to fail have not occurred
(`kills`, `closed`, `dumps`, and `Astray`).

*DumpInv* needs none of this: what the dump has read of the file it is in has
been handed over. While it runs nobody else does (`OnlyDump`), so the file does
not grow, and one read to its end is handed over whole.

*QueueInv.* `Types`, which holds always; and, until a thread is misled, `Ring`.
`Vacant` and `Oldest` are the slots the two indexes stand for before their second
store. `Filled`: the slots from one to the other hold, in order, the records put
and not got; `Putting` and `Getting`: what each thread has computed
and not yet stored agrees with the ring. A get counts from the moment `g_nFront`
moves, though the slot is copied later: the refinement maps `got` so, and the
invariant shows the slot still holds the record when it is copied. A test that
meets an unwrapped index decides wrongly only where the ring is full or empty,
which is the step `Mislead` of the refinement. What `Types` says by itself is
that a thread's own index is in the array whenever it is about to copy
(`InArray`). With a second producer, the main thread of dap_dblog, not even that
is so.

*SaveInv* (DbLog) holds until `misled`. A stop cuts a get or a put off in the middle and a kill may
follow, so the invariant speaks of the ring as it lies: `RingHolds`, the slots
from `g_nFront` to `g_nRear` hold the last records of what was put;
`ReceiverPutting`, a put that found room still has it while the handler saves;
`MainGetting`, how far `g_nFront` and what was taken can be apart, one record at
most; `Saving`, the file is a prefix of the ring, and the end the handler goes
to (it read `g_nRear` once, while the receiver went on) lies in the ring, where
all that was owed when the save began ends. For
rows `RowsInv` adds that the last row is older than what waits in the ring
(`RingOrder`) and in the save file (`FileOrder`), and that a load which is cut
off has left the rest of the file behind what it put. With refused rows it fails:
the main thread puts beside the receiver, and a record put again is behind newer
ones.

`TriesLeft` is inductive by itself with the places threads can be at. It is the
half of `MainGoesOn` that is not liveness: the loop that puts again is entered and
repeated only while `retryCnt < nCfgRetryQCount`, and the count only grows.

*FrdInv.* The globals are shared by the startup and both handlers, so the
argument is about who can be where. `StackFits`: a handler is at a step only
while it is on the stack, and that of SIGTERM never leaves it, so the startup
stands still from then on. `SlotsFit`: the startup fills the slots in order and
`g_nForkIdx` does not run ahead of it; these two and the types are inductive for
both daemons (`ForkBasics`). `FlagFirst`: dap_frd tells nobody before the flag
is up, which alone gives `NoneBornAtExit`. `DeathsFit`: while the startup is not
done and the flag is down every child lives, so that the handler forks only when
the startup has left `g_nForkIdx` alone; this is where `EarlyDeaths = FALSE` is
needed. `RolesFit`: a child lives in the slot of its role or is about to be
stored there. The stacks are short tuples; a few lemmas say what `Append` and
`SubSeq` make of them.

*MasterInv.* `OneInstance` speaks of processes that serve, but whether a second
one comes to serve is decided earlier, when it finds no pid file. `Single`:
at most one process is starting and at most one serves or has made the pid file,
for such a one the file is there, and while one is about to make it there is no
such one. `Flag`: `RestartFlag` is up exactly
while the restart thread works. `Apart`: while it is up the main loop is not
about to start anything, and between the kill and the start there is no
process. `Flag` holds always, `Apart` and `Single` until starts cross.

*PoolInv.* `OneBorn`: at most one thread has not read its slot, and the accept
loop has not gone on. `AcceptedIsFree`: a socket just accepted, and a slot being
handed over with its socket, are nobody's yet. `Owned`: no two threads have the
same slot or socket, where a thread that has read its slot and not yet its
socket counts with the socket of that slot (`Socket`). `NoneLost`: a slot taken is somebody's. All of it until a
thread reads late. `Ages`, that the slots listed by age are taken ones and each
is listed once, holds with late threads as well, though these free slots that
are not theirs; it is the part of `PoolTypeCorrect` that has to be argued.

TLC evaluates the named assumptions in every run. The type invariants are
proved (that of DbLog as a part of `SaveInv`, for a database that refuses
nothing) and not repeated in the runs; the other proved properties are, but for
`InArray` and `TriesLeft`, which say something of the threads and databases the
other theorems exclude.

*Only model-checked:* liveness. `WriterGoesOn`, `ReaderFollows`,
`ReaderCatchesUp`, `DetectCatchesUp`, `AgentsAreAnswered`,
`WritersAgentIsAnswered`, `AllAreGot`, `SavedIsInserted`, `MainGoesOn`, `ReceiverGoesOn`, `RoleComesBack`,
`NightBringsBack`, `ComesBack`, `SlotsComeBack` and `AcceptsAgain` rest on
fairness and ENABLED, which are outside the prover. Every invariant and action
property of a run that passes is a theorem.

## 11. Findings

Each is a run that TLC must end with a counterexample.

1. **spool_loss** (`frd/frd_file.c:465`). A record written after the reader met
   the end of its file and before the writer moves on is unlinked unread. The
   comment of `frd_file.c:658` means `frd_CheckEofFile` to read it; but it reads
   only while `feof` is false, and the flag has just been set.
2. **fork_fw** (`policy_fw/fw_util.c:100`). The handler forks without setting
   `g_nForkIdx`, so a policy child forked again becomes a second service child.
3. **pcif_hang** (`pcif/pcif_thread_work.c:4052`). The comment at line 4049
   makes sessions of managers an exception of the hang check. The code returns
   at the first old one, and the slots above it are never looked at: an agent's
   session that hangs there is not noticed while the manager stays. With the
   slots above a manager's excepted as well the property holds.

Observations without a run: the five further configurations of section 8, and
the one `wait` of `pcif_signal.c:184` and `frd_util.c:88`, whose comments speak
of waiting for the end of the children while it waits for one.

## 12. Not modelled

The SQL of every daemon, parsing, JSON, crypto, reports: sequential data
handling, and the bulk of the tree together with the vendored libraries and
headers. The kernel's queues: a datagram that is dropped is a record that never
arrives. File system errors: a failed `fopen` makes the process crash on the
next record, and crashes are modelled. Config reload and reconnecting. The
messages between dap_pcif and agents. The parent of dap_pcif with its pid table,
which has the shape of ForkRoles. dap_proxy, whose slots are those of dap_pcif
with a search that has no bound. What a failed fork of the parent does to
processes outside its own children (`kill(0, SIGTERM)` reaches dap_master's
whole group) is noted as a hazard.

## 13. Plan

Done: SpoolRing, PolicySpool, DetectSpool (the paths all data takes), SQueue,
DbLog (the path all logs take), ForkRoles and Master (who runs it), PcifPool
(where it enters). Left, in the order of importance:

1. Proofs: the detect spool with records of several chunks; what holds of it
   after kills, and after a start on a full ring; what holds of the queue after
   a thread was misled (how much is lost and repeated).
2. The parent of dap_pcif as a third daemon of ForkRoles.
3. The pool of dap_proxy, as an instance of PcifPool without the hang check.
4. Master with several daemons, of which some are not restarted at night.
