# A model of the file transfer system (C2, FTS, FSS)

The system moves one file from a client (C2, `src/bin/C2.py`) through a multithreaded
relay (FTS, `src/src/sources/fts.c`) to a store (FSS, `src/bin/FSS.py`). C2 and FSS are
sequential Python programs; the FTS is a C program with a thread for the command prompt,
one listener, and one thread per datagram. Nothing ties the three together but five
UDP packet types and two TCP connections.

This directory models the thread pool of the FTS, the end-to-end protocol, what the FSS
promises of its directory, the bytes of files and packets, the two encoders, the log and
the whitelist. Line numbers are those of the source files.

## 1. Inventory

| component | state | operations | hard part |
|---|---|---|---|
| FTS command prompt, `fts.c` 53-207 | `ready`, `tids`, `numthrds`, locks | start, status, exit, search, head, help | joins with a lock held, overwritten handles |
| FTS listener, `fts.c` 210-297 | `sockets`, global `fds`, `tids`, `rcvd` | make 1001 sockets, build the set, select, scan, receive, dispatch | descriptor used after the unlock, `fds` not locked |
| FTS session, `fts.c` 300-801, `udpHandler.c`, `tcpHandler.c` | descriptor taken from `sockets`, tries left, two TCP sockets, a temporary file | parse, forward 0x01, wait for 0x02/0x04, 0x03, accept, spool, dial, send, `threadClose` | 15 exits, three time-outs, waits with none |
| FTS log, `fts.c` 808-841, 105-129 | the log file, `log_lock` | append, head, search | static buffers of `ctime` and `inet_ntoa` |
| FSS, `FSS.py` 100-193, `tcpHandler.py` 53-72 | directory, UDP socket, one TCP listener | receive 0x01, answer 0x02/0x04, accept, receive the file | one request at a time, uncaught time-outs |
| C2, `C2.py` 99-155, `udpHandler.py` 127-174, `tcpHandler.py` 28-51 | port tried, name, socket | scan ports, validate 0x03, connect, send | late answers of earlier ports |
| C2 whitelist, `C2.py` 158-222, `fileHandler.py` | `IPAddWhiteList` | contains, add, choose | rewriting instead of appending |
| Encoders, `encoder.c`, `encoder.py` | - | parse a pattern, encode, decode, base64 | two implementations that must agree |
| Packet formats, `udpHandler.c`, `udpHandler.py` | - | craft, unpack | - |

How they interact:

    C2 --0x00 request--> FTS port --0x01 phrase(encoded), name--> FSS
    C2 <--0x04 name exists-- FTS <--0x04-- FSS
    C2 <--0x03 phrase, TCP port-- FTS <--0x02 phrase(encoded), TCP port-- FSS
    C2 ==TCP, the file==> FTS (temporary file) ==TCP, the file, encoded==> FSS

Inside the FTS, listener, sessions and prompt share `sockets` (under `sockets_lock`, but for
the second read of an entry at 267), `fds` (written under no common lock), `tids` (no lock for
readers), `numthrds` (under `numthrd_lock`) and `ready` (under `ready_lock`).

What makes each part correct:

* listener and sessions: a port's descriptor is never in two hands and comes back; a
  datagram on a free port is read; array indices stay in bounds;
* prompt: `status` shows the sessions there are, `exit` ends them and the server;
* session: the wait for the FSS is bounded; only the answer to its own request is taken;
* FSS: a file once stored is never changed; what arrives is what was sent; it comes back
  to its UDP socket after every transfer;
* C2: it ends, once it has its connection too; it connects to the session that answered it; its
  file is stored under the name it gave; the FSSs it found good stay in the whitelist;
* log: each session's entry is there, with its own client and time;
* encoders: each decodes what the other encodes.

The hazards of the code, each with its line, are listed in `PROJECT.json`.

## 2. Modules

| module | models |
|---|---|
| `FtsPool` | prompt, listener and sessions of the FTS over their shared state |
| `FtsPoolProofs` | theorems about `FtsPool` |
| `MCFtsPool` | the symmetry set for TLC |
| `Transfer` | C2, the FTS sessions, FSS and the packets between them |
| `WriteOnceStore` | abstract: a directory whose files are written once |
| `TransferProofs` | theorems about `Transfer`: it implements `WriteOnceStore`, and whose data it stores |
| `MCTransfer`, `MCTransferWhitelist` | passphrases and file sizes for TLC; `Transfer` and `Whitelist` in one run |
| `EncodeLoop` | which option codes which byte: the loops of `encode` and `decode`, C and Python |
| `PhraseEcho` | what an option does to a byte in each language, and the echo of the phrase |
| `EncoderProofs` | theorems about `EncodeLoop`, `PhraseEcho` and `LogLine` |
| `PatternParse` | the four parsers of a pattern, and `strtok` shared by the sessions |
| `PatternParseProofs` | theorems about `PatternParse` |
| `LogLine` | `encode64` and `decode64` on a line of the log |
| `MCEncoder`, `MCPhraseEcho` | the four modules of the encoder files for TLC |
| `DataPath` | the bytes of a file from C2's connection to the FSS's file |
| `DataPathProofs` | theorems about `DataPath` |
| `Packets` | the layout of the four packets of a request |
| `PacketsProofs` | theorems about `Packets` |
| `SessionLog` | the log: entries, `search`, `head`, static buffers |
| `SessionLogProofs` | theorems about `SessionLog` |
| `MCWire`, `MCDataPath` | files, requests and numbers for `head` for TLC; three modules in one run |
| `Whitelist`, `MCWhitelist` | the file `IPAddWhiteList` under several runs of C2 |
| `WhitelistProofs` | theorems about `Whitelist` |

`FtsPool` and `Transfer` are the core and overlap on the session: the first has its threads,
locks and descriptors, the second its protocol. The others take one thing that the two leave
abstract and model it in detail: `Packets` the datagrams of `Transfer`, `DataPath` its units
of a file, `PatternParse`, `EncodeLoop` and `PhraseEcho` the encoding of a phrase, `SessionLog`
what a session does after `threadClose`, `Whitelist` what C2 does around the protocol. None of
them adds a way for a session or C2 to go on that the core does not have.

### FtsPool

Threads are program counters: `mpc` (main), `lpc` (listener), `pc[s]` (session `s`).
The granularity is that of the locks: a section under a mutex is one step when it touches
one shared variable that nobody reads outside the mutex. It is split where the code is not
protected:

* `threadClose` holds `sockets_lock` over two writes (794, 795); the second, `FD_SET` on
  the global `fds`, is a load and a store (`Restore`, `Rearm`), since the listener writes
  `fds` with no lock (`BuildArm`, `Select`, `CheckReady`) and either store may be lost;
* the listener reads a descriptor (`ScanRead`, 251), tests its bit (`ScanTest`, 253) and
  receives on it (`ScanReceive`, 259) in three steps. In a fourth (`ScanName`, 267) it asks the
  kernel for the port's number, through `sockets[x]` again, without the lock: once a session has
  taken the entry that is descriptor 0, the call fails, and `dport` is whatever was on the stack;
* `numthrd_lock` is taken and released in two steps (`LockCount`/`Recount`,
  `SpawnLock`/`Spawn`), since `exit` unlocks it without holding it (157) and then holds it
  through all its joins (159-163).

The life of a session is `spawned, counting, counted, taken, sending, waiting, connected,
closing, restoring, restored, uncounting, closed`, then `detached, done` when it failed and
`logged, finishing, finished, done` when it succeeded. Undefined behaviour is a choice: a
join on the handle of a thread that is gone, or on the 0 of a slot that was never filled, fails
or crashes, and a `dport` that was not set is any port or none. `pthread_join` on slot 0, the
detached listener, fails at once and does not wait, unless a session was started in slot 0.

The environment may send a request to any bound port at any time, and the FSS at most one
reply for each request forwarded, or none. One constant bounds it: there are as many
datagrams as elements of `Session`.

### Transfer

One action per handler: C2 (`Request`, `RequestTimeout`, `Response`, `Handshake`,
`SendFile`, `SendNothing`, `SendBreaks`), the session of FTS port `p` (`Dispatch`, `Forward`,
`Silence`, `Hear`, `SpoolFails`, `Dial`, `Relay`, `RelayEnds`), FSS (`Serve`, `Accept`,
`AcceptTimeout`, `ReceiveUnit`, `ReceiveEnds`). Datagrams are queued per receiver and may be
lost when sent; a receiver may be arbitrarily late, so that an answer may come after its asker gave up - the interesting
case of this protocol. A port has one session at a time here: what two sessions on one port
do to each other is `FtsPool`. A file is a number of units (packets of 1450 bytes); of its
content only the owner, the length and whether the FSS can decode it matter, and `Kept` is
what `fputs` writes of it, up to a NUL byte. Phrases are not encoded, but compared as
`unpackResponse` compares them: only as many bytes as the session's own phrase has, so that
a phrase is a sequence and the test is that one begins the other (`Begins`). The TCP
port of a 0x02 is the number of the FSS's listener (`conn`); kernel port numbers are not
reused. The number of the session's own TCP port is taken to be right; when it is not is in
`FtsPool` (`ScanName`). `connect`, the temporary file and `makeTCPSocket` may fail.

`sendFile` has three outcomes: the first `send` takes the whole file, or fails, or takes a part
of it, since the socket has a time-out. In the last case C2 is at `resend`: the next `f.read()`
is empty, `send(b'')` returns 0, `sent` stays below `size`, and so on (`SendNothing`). It may be
stopped there by the user, a reset, or five seconds in which the socket is not writable
(`SendBreaks`), but need not be. Only `Size` tells a whole file from a part, so that a file of one
unit has no part. C2's scan of 1001 ports is the scan of `NumPorts`. An interactive C2 that asks to
try again is another client. C2, FTS and the FSS's peers share one address, as the
hard-coded `ftsAddr` makes them.

### EncodeLoop, PhraseEcho

`EncodeLoop` is the loop that both files write twice: `Outer` is the test `done < size`, `Byte`
one pass of the inner loop, `Stop` the early return (C) or `break` (Python), `OptionEnds` the
step to the next option with its wrap, which in C is one too late and goes through an option
that parsing left at length 0. `out` records which option coded each byte, `nul` whether
`encoded[size] = '\0'` was reached. What an option does is left out: encode and decode differ
in nothing else, so one loop stands for the four.

`PhraseEcho` is what an option does to a byte, in eight bits in C and on the digits of `bin()`
in Python, which has no leading zeros, and the exchange that depends on it: `Encode` (the 0x01),
`Decode` and `Recode` (the FSS's check of its own decoding), `Unpack` (the FTS's check of the
0x02). C2 and FSS have one option each, equal or not.

### PatternParse

One action per call of `strtok`, since its place (`saved`) is one per process and sessions
share it: `SplitOptions` for the options, `TakeOperator`, `TakeLength`, `CheckOption` for the
fields of each, `NullOperator` for the comparison of an operator that is not there, which ends
the server. Before it C2 validates the pattern (`PyValid`); after it C2 builds its `Encoder`
(`Connect`), which wants exactly two options. Texts are symbols: an operator, a number, digits
with something behind them (`3x`), what only `atoi` takes for a number, anything else. `3x` passes
`re.match`, which is not anchored at its end, and `atoi` reads the digits; `Encoder` keeps the
text, and `C2.py` never codes with it, so that its `int()` never raises. Texts are ASCII and the
numbers fit an `int`. What `str.split` and the C parser make of a text
(`Split`, `Fields`) is said by the places where pieces begin, without recursion, and the code
walks the buffer with `strtok` token by token: that the two agree is what is checked and proved.

### LogLine

`Encode`, `Allocate`, `Decode`: 6-bit groups, the pads, the number of bytes `decode64`
allocates, which tells one pad from two at the wrong index, and those it writes. A character
of the dictionary is its index.

### DataPath

The loops at fts.c 634-664 (`Read`, `ReadEnds`), 721-757 (`Send`, `SendEnds`) and `recvFile`
(`Receive`, `ReceiveEnds`), a byte being its place in the file. TCP keeps the order and cuts
anywhere. The receive buffer keeps what `memset` over `strlen` bytes leaves; `fputs` and
`fgets` stop where they do; both ends start the pattern at each send and each recv.

### Packets

One action per function that lays out or takes apart a packet, on real bytes: `CraftRequest`,
`ScrapeAddr`, `ScrapePattern`, `ScrapeMessage`, `UnpackInit`, `Respond`, `UnpackResponse`,
`CraftValidation`, `RequestTransfer`, `UnpackValidation`. `RequestTransfer` is C2 when the 0x03
comes: still at the port it asked, or, after its 0.2 s, at a later one, and then the packet is
thrown away. `recvfrom` cuts at 1450 bytes and the lengths inside the
packet are believed: a request that was cut goes on with a wrong name, or with a negative
length, which is the state `overrun`. A 0x02 may come from anywhere: of the two halves of the
test of its source, the address compares a buffer with itself.

### SessionLog

Sessions keep two pointers into buffers of others, `saddr` into the listener's `inet_ntoa`
buffer and `start_str` into the process's `ctime` buffer: `Dispatch` and `GrabStart` write them,
`CutNewline` cuts the last character off, `BuildCtwo` and `Format` read them. `LockLog`,
`WriteLog` and main's `Command`, `CountLines`, `ReadLine`, `EndOfLog` are the file under
`log_lock`. `shared` is auxiliary: the sessions whose buffers another one wrote in time. The
process may end at any prompt (`Exit`, which does not ask for `log_lock`) and by SIGPIPE in any
session that sends (`BrokenPipe`), and entries not written by then are lost. Whom `exit` waits for
first is in `FtsPool`, so that here it may come earlier than there.

### Whitelist

Runs of C2 share the file and nothing else: `Choose` (with `ChooseNone`, `ChooseMissing`,
`CreateFile` and `Enter`), `Ask` for the validation, which works or not, then `Look`, and for a
new FSS `Open`, which empties the file, and `Write`. A port that was chosen ends with the newline
of the file, so that its line is written as two (`Cut`).

## 3. Runs

Every property of a passing run has a mutant in `PROJECT.json`: a wrong form of one
definition, next to it in the module, under which TLC must find the property violated.

| run | checks | bounds |
|---|---|---|
| `pool_safety` | `TypeOK`, `NumthrdsAccounting`, `FdInOnePlace`, `PortLostOnlyByOverlap`, `PortKnownIfAlone`, `ExitLeaves`, `StatusCoversLive` | 2 ports, 2 sessions |
| `pool_liveness` | `PortReturns`, `DatagramRead`, `WaitEnds` | 1 port, 2 sessions, fairness |
| `transfer_and_whitelist` | `TypeOK`, `PhraseGuards`, `InStep`, `WriteOnce`, `ConnectFinds`; `CutOnlyIfDisturbed`, `EndsOnlyIfGiven` | 2 clients, 2 ports, 2 names, files of 1 and 2 units, one phrase the beginning of the other; 3 runs of C2, 2 addresses, one found in the other, 2 patterns |
| `transfer_liveness` | `FssReturns`, `C2EndsOrResends` | 2 clients, 2 ports, 1 name, fairness |
| `encoder` | `TypeOK`, `Scheduled`, `Complete`, `Returns`; `NoEchoRefused`, `ReadRight`; `RightAlone`, `AgreesWithPython`; `EntryShown`, `RoomEnough` | 2 or 3 options of length 0 to 4, strings up to 6; all printable bytes and pairs of options; all patterns of up to 5 symbols and longer ones, two sessions; strings of up to 7 bytes |
| `wire_and_log` | `TempIsRead`, `WrittenOnce`, `StoredIfAligned`, `SendLoopEnds`; `Arrives`, `OverrunOnlyIfCut`, `RoomEnough`, `InTimeTaken`; `RightUnlessShared`, `ShowsWhole`, `Logged` | files of up to 5 bytes, reads of up to 3; packets of the sizes of the code, phrases around 255 and 1450 bytes; 2 sessions, 2 ports, head of 1 to 3 lines; fairness |
| `pool_exit_closes`, `transfer_owner`, `transfer_send_returns`, `phrase_echo_errors`, `data_path_saves`, `whitelist_adds` | one claim of a comment or help text each, found violated | up to 2 ports, clients and runs; one byte; files of 5 bytes |

`encoder`, `wire_and_log` and `transfer_and_whitelist` check several modules that do not share
state: in each behaviour one of them runs and the others rest, so the run is the sum of what the
modules do and not the product.

What the properties say:

* `TypeOK` (pool): array indices within bounds; the wait counter stops at three.
* `NumthrdsAccounting`: `numthrds` is exactly one for the listener, two for each session,
  less what each has given back; no update is lost while the program serves. It also says
  what is wrong with the counter: a failed session leaves 1 behind.
* `StatusCoversLive`: whatever `status` shows is never less than the live sessions.
* `FdInOnePlace`, `PortLostOnlyByOverlap`: a descriptor is in the table or with one
  session; a port is out of the table only with its holder or after a double dispatch.
* `PortKnownIfAlone`: the port number a session reckons its TCP port from is right when no other
  session was ever dispatched to its port, although the listener looks it up a second time
  without the lock (267). With another one it can be wrong, even long after that one has ended:
  what it takes is that it held the port when the listener asked.
* `ExitLeaves`: whom `exit` leaves running: sessions that detached, whose handle was
  overwritten, or in slot 0, and no others as long as nobody unlocks the mutex that main holds.
  The exception is real: main unlocks it first without holding it (157), the listener may be
  inside, and unlocks it in its turn when main has taken it.
* `PortReturns`, `DatagramRead`: with fair threads a port does come back and a queued
  datagram is read, in spite of lost bits in `fds`, unless the port was dispatched twice or
  its session waits on a peer. Both are stated for the time the prompt is open.
* `WaitEnds`: requests that hit the port of a waiting session cannot keep it waiting.
* `WriteOnce`: `Transfer` implements `WriteOnceStore`: the check of the name (FSS.py 132)
  and the truncation (tcpHandler.py 57) are far apart, with a datagram, a time-out and a
  connection between them.
* `PhraseGuards`: the phrase in the 0x02 is the only thing that ties it to a request: a
  session that takes the 0x02 of the FSS's listener has a client whose phrase begins that of
  the client that asked. Stored data is guarded twice, by `unpackResponse` and by C2's look at
  the 0x03, so the property speaks of both: dropping the first check breaks the first part.
* `InStep`: what the FSS wrote plus what is under way is what the session sent.
* `ConnectFinds`: a C2 that took a 0x03 finds at the port it asked the session that sent it, in
  `accept()`, for this client and nobody else. Only the 0.2 s and the test of the source
  (udpHandler.py 145-149) keep it from the late answer of another port.
* `FssReturns`, `C2EndsOrResends`: with no assumption on the FTS, the FSS leaves every transfer,
  and a C2 comes to an end or into the loop of `sendFile`, where it may stay.
* `Scheduled`, `Complete`, `Returns`: the C loop and the Python loop are written differently
  and code the same byte with the same option; no return leaves a byte uncoded; what is
  returned ends with a NUL, except where the NUL itself was coded with the rest of an option;
  and the loop returns, if the pattern codes anything (`~:0;~:0` is accepted and does not).
* `NoEchoRefused`, `ReadRight`: an FSS with any pattern that answers is not refused by the
  FTS; one with the C2's pattern reads what C2 wrote where the option does not rotate, or the
  byte has no leading zeros.
* `RightAlone`, `AgreesWithPython`: a session that is alone in `strtok` gets the options of its
  own pattern and never a NULL operator; a pattern that C2 takes and can build its `Encoder`
  from is taken by the FTS, as the same options.
* `EntryShown`, `RoomEnough` (log): the byte `decode64` loses is never one of an entry, and it
  writes inside what it allocated.
* `TempIsRead`, `WrittenOnce`, `SendLoopEnds`: without NUL bytes the temporary file is what was
  read, and is sent to its end; with them, no byte is written twice.
* `StoredIfAligned`: the FSS stores what was sent if each recv gets the bytes of one send.
* `Arrives`, `OverrunOnlyIfCut`, `RoomEnough`, `InTimeTaken`: what fits in one read arrives
  field by field, and only what was cut is read past its end; the buffers the FTS allocates are
  what it fills; C2 throws away a 0x03 that comes too late, and takes every other.
* `RightUnlessShared`: the entry of a session is right, and its answers go to its client, unless
  another session wrote one of the two static buffers in between: there is no other way to mix
  two sessions.
* `ShowsWhole`: `head` and `search` show exactly their lines, though `head` reads the log twice.
* `Logged`: a session that gave its port back gets its entry, however often the prompt takes
  `log_lock`, unless the process ends before.
* `CutOnlyIfDisturbed`, `EndsOnlyIfGiven`: an entry is cut in two only when another run wrote in
  between; a missing file ends only a C2 that was given its socket.

Why the bounds are enough. Two sessions give every pairwise race of the pool, since sessions
interact only through the listener, the table entry of their port and the counter; the theorems
cover any number, and `ExitLeaves` needs the second port for its slots. Two
clients are enough for a stale answer: one that gave up and one that reads what was meant
for the other. Strings of six with options of up to four pass the end of the string at each
place of an option and go round the pattern; a byte of a phrase is coded by itself. Five
symbols are the shortest text of each shape of an option, and the longer patterns put each of
them beside a good one. Files of five bytes in reads of three have two reads, each with a NUL in
each place. The packets use the sizes of the code. Two writers of the two buffers, and three
runs of C2 (one that chose, one that writes, one that writes in between), are what the claims
compare.

Deadlock is not checked in the pool, `Transfer` and `transfer_and_whitelist`: `exit` and a crash
end the FTS, C2 may end, the FSS may end, and the number of datagrams is bounded, so these systems
do stop. In the other runs it is, and there what is not run in a behaviour takes no steps that
could hide one. Symmetry in `pool_safety` is sound: sessions are interchangeable and no property
names one; no other run uses any.

Fairness: each thread of the FTS keeps being scheduled (`Fairness`: weak fairness of the
listener, of what a session can do alone, and of main's own steps); C2 and FSS never
wait without a time-out and are scheduled (`FairSpec` of `Transfer`), but nothing has to end the
loop of `sendFile` (`SendBreaks` is not fair). `EncodeLoop` is
sequential and goes on as long as it can. In `DataPath` C2 sends its whole file and the session's
thread runs, so its loops go on; nothing is asked of the FSS. In `SessionLog` threads and main go
on while the process is there, and a session gets `log_lock` if it is free again and again (strong
fairness, `LogFair`): the prompt waits for a user between two commands with the mutex free.
Nothing is assumed of the network, of peers or of what is typed; only `pool_exit_closes` adds (`ServedSpec`) that
every send and every transfer ends, to show that `exit` may hang even then.

The claims found violated:

* `pool_exit_closes`: fts.c 200, "join all child threads, clean up, and close the server": main
  waits, holding `numthrd_lock`, for a session that needs it.
* `transfer_owner`: C2.py 247, "specifies the name of the file on the FSS": with one
  passphrase in use by two clients, a late 0x02 makes the next session of the port send its
  file under the earlier name.
* `transfer_send_returns`: tcpHandler.py 40, "Returns total number of bytes transmitted, -1 if
  failed": after a partial send `sendFile` does not return.
* `phrase_echo_errors`: FSS.py 154, "Catch any errors in the decode/recode process": the second
  coding undoes the first whatever the first made of the phrase.
* `data_path_saves`: tcpHandler.py 54, "saves it to the designated path": a plain text file is
  stored with other bytes when TCP joins or splits what was sent.
* `whitelist_adds`: fileHandler.py 26, "Adds the provided string to the provided file as a new
  line": `open(path,"w+")` empties the file, and the entries that were there are gone.

Other places where the code differs from what is said of it are in the models as the code has
them, and the properties above name them as their exceptions: a port dispatched twice and not
"made available again" (fts.c 279; `PortLostOnlyByOverlap`), datagrams received on a port after
it was taken off "the list of listeners" (317), the count of `status`, which is not the "number
of active sessions" (175; `StatusCoversLive`), sessions that `exit` does not join (158;
`ExitLeaves`), `accept()` of the FSS that ends it by a time-out (FSS.py 176), patterns whose
options have length 0, options of another session's pattern (`RightAlone`), the start time of
another session, or the address of its client, to which the 0x03 then goes (fts.c 471;
`RightUnlessShared`), a `dport` that is not the "Port on the FTS" (29; `PortKnownIfAlone`), and a
0x03 that C2 throws away (`InTimeTaken`).

## 4. Proofs

`FtsPoolProofs` proves, for any number of ports and sessions (`PoolAssumption`: at least
one port, finitely many sessions, model values that differ from them):

* `TypeCorrect`: `TypeOK`, by induction over the steps;
* `DescriptorSafe`, `PortSafe`: `FdInOnePlace` and `PortLostOnlyByOverlap`. Neither is
  inductive: nothing in them says that a session has its own port's descriptor, or that two
  sessions at work on one port were recorded as overlapping. `DescriptorInv` adds
  `DescriptorPlaces`, `NoneWhileMaking` and `OverlapRecorded`; the step lemma has a case
  per action that moves a descriptor and one lemma for all the others;
* `PortKnown`: `PortKnownIfAlone`. `NameInv` follows the number from the listener (`lport`) to the
  session (`dport`): at each place it is the port's, or the port has had another session. A lookup
  that fails means that the table is empty there, and `PortLostOnlyByOverlap` names the session;
* `Accounting`: `NumthrdsAccounting`, by cardinality lemmas on the four sets of sessions,
  with the facts on who holds `numthrd_lock` that make each update atomic;
* `StatusCovers`: `StatusCoversLive` from the same invariant, since every live session was
  counted by the listener before it ran;
* `ExitLeavesOnlyThese`: `ExitLeaves`, from `LeaveInv`: while main joins, it alone holds the lock
  under which the listener stores handles, so that no slot it has passed is filled again;
* `SessionsOnlyGoOn`, with `SessionBounded`: a session never goes back (`SessionRank`), so that its
  thread takes at most 19 steps, three of them for packets or time-outs it counts.

`TransferProofs` proves of `Transfer` (`TransferAssumption`):

* `TransferTypeCorrect`: `TypeOK`;
* `StoreImplemented`: `Spec => WriteOnce`. The refinement mapping is the identity on
  `owner` and `got`, and the open file is the one the FSS is receiving. The step lemma needs
  `StoreInv`: while the FSS listens its name is still free, which holds because it serves
  one request at a time, and a file that does not exist is empty;
* `PhraseSafe` (`PhraseGuards`) and `StreamSafe` (`InStep`), for any number of clients, names
  and ports and any phrases;
* `ConnectsToItsSession`: `ConnectFinds`, with the help of `AskInv` below;
* `C2OnlyGoesOn`, with `C2Bounded`: no step of any process takes a C2 back to a port or a point it
  has passed (`C2Rank`). The passes of `sendFile`'s loop after a partial send change nothing, and
  are not counted.

`DataInv` is the inductive invariant of `PhraseSafe` and `StreamSafe`:

* `AnswerInv`: every 0x02, queued or taken, names a listener the FSS has made, no two the same
  one, and the one there is now is for the client recorded. Nothing in `PhraseGuards` says that a
  late 0x02 is not of the listener of now;
* `StreamInv`: what the FSS has written and has yet to read is of one client and within its
  file, and a session that does not relay has sent nothing;
* `AskInv`: C2 asks each port once, so that a port has at most one request or session of a
  client; hence the 0x03 that a client takes is of the session that waits for this client, which
  is the one it connects to. Without it the data of a connection could be another client's than
  the phrase was compared for;
* `PhraseInv`: the phrase of the client whose data come begins that of the client that asked.

There is one lemma per invariant and actor (`AnswerC2`, `AnswerFts`, `AnswerFss` and so on).

`EncoderProofs` proves of `EncodeLoop`, for patterns of any number of options of any
lengths and strings of any size (`EncodeLoopAssumption`: natural numbers):

* `InBounds`, `SchedulePrescribed`, `NothingLeft`: `TypeOK`, `Scheduled` and `Complete`. The
  inductive invariant `IInv` adds `PatternOK` (the cumulated lengths grow) and `Place`:
  `Reached(m)`, the bytes done are some whole rounds of the pattern plus m, where m is the start of the option
  and what was coded with it. Without it nothing ties the option at hand to the number of bytes
  done, in particular across the wrap, which in C passes through option `n`;
* `OneOption`: the pattern gives one option for each byte, so that what is `Scheduled` in one
  language is coded by the same option in the other;

* `LoopAdvances`, with `RankBounded`: why the loop ends. Each step codes a byte or lowers `Rank`,
  which counts the options up to the next byte: those of this round and, when none of them has a
  byte to code, those of one more round;

and of `PhraseEcho`, for all bytes and all options of either end:

* `EchoAccepted`, `PhraseRead`: `NoEchoRefused` and `ReadRight`. `DecodesEncoded` says that
  `decode` in C undoes `encode`, one case per rotation, `ReadsEncoded` that `decode` in Python
  does where the digits of `bin()` are all there; `EchoInv` follows the byte from packet to packet.

and of `LogLine`, for strings of any bytes and any length but 0 (`LogLineAssumption`; the pad is
none of the 64 characters):

* `EntryPrinted`, `RoomSafe`: `EntryShown` and `RoomEnough`. `Encoded` says of each group of four
  characters which three bytes it stands for, by the arithmetic lemmas `FirstByte`, `SecondByte`
  and `ThirdByte` on quotients and remainders; `DecodedRight` that every group decoded so far
  gave its bytes back, and how many bytes there are in the end in each of the three cases of the
  pads.

`PatternParseProofs` proves of `PatternParse`, for any number of sessions, any operators and
patterns of any length (`PatternParseAssumption`: an operator is no separator, number or other
text, and two texts do not touch):

* `ParsesAlone`, `ParsersAgree`: `RightAlone` and `AgreesWithPython`, from `ParseInvariant`. In
  the invariant `ParseInv`, `Right(s)` says of a session that is alone where it stands in its
  pattern: that `saved` is its own and where the next piece begins, that the buffer is its pattern
  up to there with the delimiters of the pieces taken overwritten, and that the operators and
  lengths parsed so far are those of the fields. A session that another one disturbed promises
  nothing, and only such a one makes a NULL operator possible (`CrashNotAlone`). The text is never
  taken apart by induction: the k-th piece is the one with k beginnings up to it, and a call of
  `strtok` moves the place over one beginning and no other. That the pieces of a text without
  empty fields are those that `str.split` gives relates the C parser to the Python one.

`DataPathProofs` proves of `DataPath`, for any file, any `MAX_SIZE` and any two options
(`DataPathAssumption`: options that code at least one byte each):

* `TempSafe`, `WrittenSafe`, `StoredSafe`: `TempIsRead`, `WrittenOnce`, `StoredIfAligned`. What is
  in the temporary file depends on what `memset` left in the receive buffer some reads ago:
  `Unwritten` says that every byte in the buffer was read, is there once and is not yet in the
  file, `Clean` that without NUL the buffer is empty. `OnWire` and `StoredSoFar` place what the
  connection holds behind what the FSS has stored;
* `LoopsEnd`: for a file without NUL, each pass of the two loops of the session reads or sends
  something of what is left (`SessionRank`), and the send loop never comes up empty.

`PacketsProofs` proves of `Packets`, for any address, port, pattern, phrase and name:

* `ArrivesWhole`, `OverrunSafe`, `RoomSafe`, `ValidationTaken`: `Arrives`,
  `OverrunOnlyIfCut`, `RoomEnough`, `InTimeTaken`. `CraftedFacts` says at which place of the
  0x00 each field is; the conjuncts of `IInv` say for each packet which of the fields have come
  through. The assumptions (`PacketsAssumption`): the lengths fit in the two bytes Python
  writes them in (`to_bytes` raises an exception otherwise), addresses have four bytes, and the
  pattern leaves room in one read for itself and the length of the phrase. Without the last the
  FTS reads that length in bytes it did not receive, and the model, which has none there, does
  not say what it finds. Phrases and names are not bounded: a request that is cut, and lengths
  that then pass its end, are among the cases of the proof.

`SessionLogProofs` proves of `SessionLog`, for any number of sessions and ports and any argument
of `head`:

* `EntriesRight`, `PrintsWhole`: `RightUnlessShared` and `ShowsWhole`. `OwnBuffers` says that a
  session not in `shared` finds its own client and time in the two buffers, `OwnEntry` that its
  entry has them; `OneHolder` that `log_lock` is with one thread, and `PromptReads` that main,
  which holds it, has listed the wanted lines up to the one it has read (`ListsOneMore`).

`WhitelistProofs` proves of `Whitelist`, for any number of runs of C2, addresses and patterns,
and whichever addresses are found in which others (each in itself):

* `CutNeedsAnother`, `LookFinds`: `CutOnlyIfDisturbed`, and the action property
  `EndsOnlyIfGiven`. `OfAddress` says that what is offered has an address, also when a shorter
  line was written over a longer one; `FileThere` which runs can rely on the file;
  `ChosenStays` that an undisturbed run finds the entry it chose, and so never gets to write it.

TLC also checked the inductive invariants and the ranks, on the bounds of the runs or smaller ones.

Every safety property of a passing run is proved. Only model-checked:

* the eight liveness properties: fairness and ENABLED are out of the prover's reach. Of `Returns`,
  `C2EndsOrResends`, `WaitEnds` and `SendLoopEnds` the part that is not about fairness is proved:
  a rank, bounded in every state, that each step lowers, unless it codes a byte (`LoopAdvances`,
  `C2OnlyGoesOn`, `SessionsOnlyGoOn`, `LoopsEnd`). What is left to TLC is that such a step stays
  possible and is taken. For `FssReturns`, `PortReturns`, `DatagramRead` and
  `Logged`, which rest on who else is scheduled, there is no such rank;
* the six violated claims.

## 5. Not modelled, and the plan

Left out for good: argument parsing, help texts, the build, the unit tests (they are read for
what they say of the code). Not claimed, because it is not so: that a session ends when its 0x03
is lost or comes too late (`accept()` at fts.c 598 has no time-out), or when its C2 is in the loop
of `sendFile` (`read` at 634 has none either; `PortReturns` excepts both); that C2 leaves that
loop; that a session is logged when `exit` or SIGPIPE ends the process; that a reply of the FSS
is not read by the listener (259); that a send loop leaves a file with NUL.

What could be added, in order:

1. A composition of `FtsPool`'s double dispatch with `Transfer`, in which two sessions of one
   port take each other's answers.
2. Liveness of the pool on two ports, where the lost bit may be another port's.
