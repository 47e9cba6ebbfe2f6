------------------------------ MODULE FtsPool ------------------------------
(***************************************************************************)
(* The thread pool of the File Transfer Service (src/src/sources/fts.c):   *)
(* the command prompt (main), the listener thread and one transferSession  *)
(* thread per datagram, over the state they share                          *)
(*    sockets / sockets_lock    UDP descriptor of each port, 0 when taken  *)
(*    fds                       the global fd_set, written without a lock  *)
(*    tids                      thread handle last stored in each slot     *)
(*    numthrds / numthrd_lock   the counter that "status" prints           *)
(*    ready / ready_lock        set by the listener, cleared by "exit"     *)
(*                                                                         *)
(* A section under a mutex is one step when it touches one shared variable *)
(* and nothing reads that variable outside the mutex.  Two are not:        *)
(* threadClose writes sockets and then fds, which the listener uses with   *)
(* no lock; and numthrd_lock, which "exit" unlocks without holding it, is  *)
(* taken in one step and released in another.  What a transfer sends is    *)
(* abstracted: a datagram is a request (type 0x00) or a reply of the FSS   *)
(* (0x02, 0x04), and everything a session does over TCP is one step.  A    *)
(* local of the code goes back to its initial value after its last use.    *)
(***************************************************************************)
EXTENDS Integers, Sequences, FiniteSets

CONSTANTS
  NumSockets,    \* TOTAL_SOCKETS, 1001 in the code
  Session        \* threads the listener may create; as many as datagrams sent

Sock == 0 .. NumSockets - 1
NoFd == 0                       \* marks a taken port; also the number of stdin
Fd(x) == x + 1                  \* what socket() returned for port x: not 0
Descriptor == {NoFd} \cup {Fd(x) : x \in Sock}
Port == Sock \cup {NumSockets}  \* a port number: of one of the ports, or of none

ASSUME PoolAssumption ==
  /\ NumSockets \in Nat \ {0}
  /\ IsFiniteSet(Session)
  /\ {"main", "listener", "none", "free"} \cap Session = {}

VARIABLES
  sockets,      \* sockets[x]: descriptor in the table, or 0
  slock,        \* holder of sockets_lock across threadClose, or "free"
  fds,          \* members of the global fd_set
  tids,         \* tids[i]: "none", "listener" or the last session of slot i
  numthrds,
  lock,         \* holder of numthrd_lock, or "free"
  ready,
  lpc, lx, lfd, lmsg, lport, rcvd,             \* the listener and its locals
  pc, idx, dport, kind, sock, fails, ok, mask, \* each session and its locals
  mpc, slot, joined, shown,   \* main, slot and thread it joins, number shown
  inbox,        \* datagrams queued by the kernel on each port
  sent, owed,   \* datagrams sent so far; replies the FSS still has to send
  overlapped    \* auxiliary: ports dispatched again before being given back

poolVars == <<sockets, slock, fds, tids, numthrds, lock, ready>>
listenerVars == <<lpc, lx, lfd, lmsg, lport, rcvd>>
sessionVars == <<pc, idx, dport, kind, sock, fails, ok, mask>>
mainVars == <<mpc, slot, joined, shown>>
netVars == <<inbox, sent, owed>>
vars == <<poolVars, listenerVars, sessionVars, mainVars, netVars, overlapped>>

Alive == mpc \notin {"exited", "crashed"}

\* The ports makeSocket has bound so far: all of them once the loop is done.
Bound(x) == lpc \in {"make", "dead"} => x < lx

Init ==
  /\ sockets = [x \in Sock |-> NoFd]
  /\ slock = "free"
  /\ fds = {}
  /\ tids = [i \in 0 .. NumSockets |-> IF i = 0 THEN "listener" ELSE "none"]
  /\ numthrds = 1
  /\ lock = "free"
  /\ ready = FALSE
  /\ lpc = "make" /\ lx = 0 /\ lfd = NoFd /\ lmsg = "none" /\ lport = 0 /\ rcvd = 0
  /\ pc = [s \in Session |-> "unborn"]
  /\ idx = [s \in Session |-> 0]
  /\ dport = [s \in Session |-> 0]
  /\ kind = [s \in Session |-> "none"]
  /\ sock = [s \in Session |-> NoFd]
  /\ fails = [s \in Session |-> 0]
  /\ ok = [s \in Session |-> FALSE]
  /\ mask = [s \in Session |-> {}]
  /\ mpc = "boot" /\ slot = 0 /\ joined = "none" /\ shown = 0
  /\ inbox = [x \in Sock |-> <<>>]
  /\ sent = 0
  /\ owed = [x \in Sock |-> 0]
  /\ overlapped = {}

-----------------------------------------------------------------------------
(* The network: any bound port may be sent a request at any time; the FSS  *)
(* may answer each request forwarded from a port once, or not at all.  The *)
(* bound on sent leaves a thread for every datagram.                       *)

RequestArrives(x) ==
  /\ Bound(x)
  /\ sent < Cardinality(Session)
  /\ sent' = sent + 1
  /\ inbox' = [inbox EXCEPT ![x] = Append(@, "request")]
  /\ UNCHANGED <<poolVars, listenerVars, sessionVars, mainVars, owed, overlapped>>

ReplyArrives(x) ==
  /\ owed[x] > 0
  /\ sent < Cardinality(Session)
  /\ sent' = sent + 1
  /\ owed' = [owed EXCEPT ![x] = @ - 1]
  /\ inbox' = [inbox EXCEPT ![x] = Append(@, "reply")]
  /\ UNCHANGED <<poolVars, listenerVars, sessionVars, mainVars, overlapped>>

-----------------------------------------------------------------------------
(* The listener.                                                           *)

\* for (i = 0; i < TOTAL_SOCKETS; i++) sockets[i] = makeSocket(i,&t)
MakeSocket ==
  /\ lpc = "make" /\ lx < NumSockets
  /\ sockets' = [sockets EXCEPT ![lx] = Fd(lx)]
  /\ lx' = lx + 1
  /\ UNCHANGED <<slock, fds, tids, numthrds, lock, ready, lpc, lfd, lmsg, lport, rcvd,
                 sessionVars, mainVars, netVars, overlapped>>

\* makeSocket returned -1: the thread ends without setting ready.
MakeFails ==
  /\ lpc = "make" /\ lx < NumSockets
  /\ lpc' = "dead"
  /\ UNCHANGED <<poolVars, lx, lfd, lmsg, lport, rcvd, sessionVars, mainVars, netVars,
                 overlapped>>

\* ready = 1, then the first FD_ZERO.
Announce ==
  /\ lpc = "make" /\ lx = NumSockets
  /\ ready' = TRUE
  /\ fds' = {}
  /\ lpc' = "build" /\ lx' = 0
  /\ UNCHANGED <<sockets, slock, tids, numthrds, lock, lfd, lmsg, lport, rcvd,
                 sessionVars, mainVars, netVars, overlapped>>

\* fd = sockets[i] under sockets_lock; a taken port is passed over.
BuildRead ==
  /\ lpc = "build" /\ lx < NumSockets
  /\ slock = "free"
  /\ lfd' = sockets[lx]
  /\ IF sockets[lx] # NoFd
       THEN lpc' = "arm" /\ lx' = lx
       ELSE lpc' = "build" /\ lx' = lx + 1
  /\ UNCHANGED <<poolVars, lmsg, lport, rcvd, sessionVars, mainVars, netVars, overlapped>>

\* FD_SET(fd,&fds), with no lock.
BuildArm ==
  /\ lpc = "arm"
  /\ fds' = fds \cup {lfd}
  /\ lpc' = "build" /\ lx' = lx + 1 /\ lfd' = NoFd
  /\ UNCHANGED <<sockets, slock, tids, numthrds, lock, ready, lmsg, lport, rcvd,
                 sessionVars, mainVars, netVars, overlapped>>

\* select() leaves the descriptors that are readable and counts them.  Bit 0,
\* set by a session that closed with sock = 0, is stdin: readable or not.
Select ==
  /\ lpc = "build" /\ lx = NumSockets
  /\ \E stdin \in SUBSET (fds \cap {NoFd}) :
       /\ fds' = stdin \cup {Fd(x) : x \in {y \in Sock : Fd(y) \in fds /\ inbox[y] # <<>>}}
       /\ rcvd' = Cardinality(fds')
  /\ lpc' = "scan" /\ lx' = 0
  /\ UNCHANGED <<sockets, slock, tids, numthrds, lock, ready, lfd, lmsg, lport,
                 sessionVars, mainVars, netVars, overlapped>>

\* Wrong form of ScanNext: the loop runs to TOTAL_SOCKETS inclusive.
ScanNextTooFar ==
  IF lx + 1 <= NumSockets
    THEN lpc' = "scan" /\ lx' = lx + 1
    ELSE lpc' = "check" /\ lx' = lx

\* x++, and out of the loop after the last port.
ScanNext ==
  IF lx + 1 < NumSockets
    THEN lpc' = "scan" /\ lx' = lx + 1
    ELSE lpc' = "check" /\ lx' = lx

\* socket = sockets[x] under sockets_lock.
ScanRead ==
  /\ lpc = "scan"
  /\ slock = "free"
  /\ lfd' = sockets[lx]
  /\ IF sockets[lx] # NoFd THEN lpc' = "test" /\ lx' = lx ELSE ScanNext
  /\ UNCHANGED <<poolVars, lmsg, lport, rcvd, sessionVars, mainVars, netVars, overlapped>>

\* FD_ISSET(socket,&fds), with no lock.
ScanTest ==
  /\ lpc = "test"
  /\ IF lfd \in fds THEN lpc' = "recv" /\ UNCHANGED <<lx, lfd>>
                    ELSE ScanNext /\ lfd' = NoFd
  /\ UNCHANGED <<poolVars, lmsg, lport, rcvd, sessionVars, mainVars, netVars, overlapped>>

\* recvfrom() on the descriptor read earlier, whoever has the port by now.
ScanReceive ==
  /\ lpc = "recv"
  /\ inbox[lx] # <<>>
  /\ lmsg' = Head(inbox[lx])
  /\ inbox' = [inbox EXCEPT ![lx] = Tail(@)]
  /\ lpc' = "name" /\ lfd' = NoFd
  /\ UNCHANGED <<poolVars, lx, lport, rcvd, sessionVars, mainVars, sent, owed, overlapped>>

\* The bit was stale and SO_RCVTIMEO ran out: n < 1, continue.
ScanEmpty ==
  /\ lpc = "recv"
  /\ inbox[lx] = <<>>
  /\ ScanNext /\ lfd' = NoFd
  /\ UNCHANGED <<poolVars, lmsg, lport, rcvd, sessionVars, mainVars, netVars, overlapped>>

\* Wrong form: the table is read at another index.
ScanNameFirst ==
  /\ lpc = "name"
  /\ IF sockets[0] # NoFd THEN lport' = 0 ELSE lport' \in Port
  /\ lpc' = "dispatch"
  /\ UNCHANGED <<poolVars, lx, lfd, lmsg, rcvd, sessionVars, mainVars, netVars, overlapped>>

\* getsockname(sockets[x], ...), which reads the table again, with no lock: where a
\* session has taken the port since ScanRead it fails, and the port is whatever the
\* uninitialised struct held.
ScanName ==
  /\ lpc = "name"
  /\ IF sockets[lx] # NoFd THEN lport' = lx ELSE lport' \in Port
  /\ lpc' = "dispatch"
  /\ UNCHANGED <<poolVars, lx, lfd, lmsg, rcvd, sessionVars, mainVars, netVars, overlapped>>

SpawnLock ==
  /\ lpc = "dispatch"
  /\ lock = "free"
  /\ lock' = "listener"
  /\ lpc' = "spawn"
  /\ UNCHANGED <<sockets, slock, fds, tids, numthrds, ready, lx, lfd, lmsg, lport, rcvd,
                 sessionVars, mainVars, netVars, overlapped>>

\* A session that has been dispatched and has not given its port back yet.
Unreturned == {"spawned", "counting", "counted", "taken", "sending", "waiting",
               "connected", "closing"}

\* pthread_create(&tids[x],...), numthrds += 1, unlock, rcvd -= 1 and the break.
Spawn(s) ==
  /\ lpc = "spawn"
  /\ pc[s] = "unborn"
  /\ pc' = [pc EXCEPT ![s] = "spawned"]
  /\ idx' = [idx EXCEPT ![s] = lx]
  /\ dport' = [dport EXCEPT ![s] = lport] /\ lport' = 0
  /\ kind' = [kind EXCEPT ![s] = lmsg] /\ lmsg' = "none"
  /\ tids' = [tids EXCEPT ![lx] = s]
  /\ numthrds' = numthrds + 1
  /\ lock' = "free"
  /\ rcvd' = rcvd - 1
  /\ IF rcvd = 1 THEN lpc' = "check" /\ lx' = lx ELSE ScanNext
  /\ overlapped' = IF \E t \in Session : idx[t] = lx /\ pc[t] \in Unreturned
                     THEN overlapped \cup {lx} ELSE overlapped
  /\ UNCHANGED <<sockets, slock, fds, ready, lfd, sock, fails, ok, mask,
                 mainVars, netVars>>

\* Wrong form of CheckReady: select() is called again on what it left in fds.
CheckReadyNoRebuild ==
  /\ lpc = "check"
  /\ IF ready
       THEN lpc' = "build" /\ lx' = NumSockets
       ELSE lpc' = "stopped" /\ UNCHANGED lx
  /\ rcvd' = 0
  /\ UNCHANGED <<poolVars, lfd, lmsg, lport, sessionVars, mainVars, netVars, overlapped>>

\* status = ready; go round again, FD_ZERO first, or return.
CheckReady ==
  /\ lpc = "check"
  /\ IF ready
       THEN lpc' = "build" /\ lx' = 0 /\ fds' = {}
       ELSE lpc' = "stopped" /\ UNCHANGED <<lx, fds>>
  /\ rcvd' = 0
  /\ UNCHANGED <<sockets, slock, tids, numthrds, lock, ready, lfd, lmsg, lport,
                 sessionVars, mainVars, netVars, overlapped>>

Listener ==
  \/ MakeSocket \/ MakeFails \/ Announce
  \/ BuildRead \/ BuildArm \/ Select
  \/ ScanRead \/ ScanTest \/ ScanReceive \/ ScanEmpty \/ ScanName
  \/ SpawnLock \/ (\E s \in Session : Spawn(s)) \/ CheckReady

-----------------------------------------------------------------------------
(* transferSession, one thread s per datagram.                             *)

Step(s, from, to) == pc[s] = from /\ pc' = [pc EXCEPT ![s] = to]

\* pthread_mutex_lock(&numthrd_lock), at the three places a session does it.
LockCount(s) ==
  /\ \/ Step(s, "spawned", "counting")
     \/ Step(s, "restored", "uncounting")
     \/ Step(s, "logged", "finishing")
  /\ lock = "free"
  /\ lock' = s
  /\ UNCHANGED <<sockets, slock, fds, tids, numthrds, ready, listenerVars,
                 idx, dport, kind, sock, fails, ok, mask, mainVars, netVars, overlapped>>

\* Wrong form of Recount: a session that succeeds does not count itself out.
RecountKeepsSuccess(s) ==
  /\ \/ Step(s, "counting", "counted") /\ numthrds' = numthrds + 1
     \/ Step(s, "uncounting", "closed") /\ numthrds' = numthrds - 1
     \/ Step(s, "finishing", "finished") /\ UNCHANGED numthrds
  /\ lock' = "free"
  /\ UNCHANGED <<sockets, slock, fds, tids, ready, listenerVars,
                 idx, dport, kind, sock, fails, ok, mask, mainVars, netVars, overlapped>>

\* Wrong form of Recount: only the listener counts a session in.
RecountNotIn(s) ==
  /\ \/ Step(s, "counting", "counted") /\ UNCHANGED numthrds
     \/ Step(s, "uncounting", "closed") /\ numthrds' = numthrds - 1
     \/ Step(s, "finishing", "finished") /\ numthrds' = numthrds - 1
  /\ lock' = "free"
  /\ UNCHANGED <<sockets, slock, fds, tids, ready, listenerVars,
                 idx, dport, kind, sock, fails, ok, mask, mainVars, netVars, overlapped>>

\* The update and the unlock: += 1 at the start, -= 1 in threadClose and,
\* for a session that succeeds, -= 1 once more after the log entry.
Recount(s) ==
  /\ \/ Step(s, "counting", "counted") /\ numthrds' = numthrds + 1
     \/ Step(s, "uncounting", "closed") /\ numthrds' = numthrds - 1
     \/ Step(s, "finishing", "finished") /\ numthrds' = numthrds - 1
  /\ lock' = "free"
  /\ UNCHANGED <<sockets, slock, fds, tids, ready, listenerVars,
                 idx, dport, kind, sock, fails, ok, mask, mainVars, netVars, overlapped>>

\* Wrong form of Take: the descriptor is read and left in the table.
TakeLeavesEntry(s) ==
  /\ Step(s, "counted", "taken")
  /\ slock = "free"
  /\ sock' = [sock EXCEPT ![s] = sockets[idx[s]]]
  /\ UNCHANGED <<poolVars, listenerVars, idx, dport, kind, fails, ok, mask, mainVars,
                 netVars, overlapped>>

\* sock = sockets[socketsIndex]; sockets[socketsIndex] = 0, under sockets_lock.
Take(s) ==
  /\ Step(s, "counted", "taken")
  /\ slock = "free"
  /\ sock' = [sock EXCEPT ![s] = sockets[idx[s]]]
  /\ sockets' = [sockets EXCEPT ![idx[s]] = NoFd]
  /\ UNCHANGED <<slock, fds, tids, numthrds, lock, ready, listenerVars,
                 idx, dport, kind, fails, ok, mask, mainVars, netVars, overlapped>>

\* The packet type and the scrape functions: only a request can pass.
Parse(s) ==
  /\ \/ Step(s, "taken", "sending") /\ kind[s] = "request"
     \/ Step(s, "taken", "closing")
  /\ kind' = [kind EXCEPT ![s] = "none"]
  /\ UNCHANGED <<poolVars, listenerVars, idx, dport, sock, fails, ok, mask,
                 mainVars, netVars, overlapped>>

\* while (sendto(sock, init, ...) < initSize) continue: on descriptor 0, or on
\* an address the network refuses, the loop never ends.
Forward(s) ==
  /\ Step(s, "sending", "waiting")
  /\ sock[s] # NoFd
  /\ owed' = [owed EXCEPT ![idx[s]] = @ + 1]
  /\ UNCHANGED <<poolVars, listenerVars, idx, dport, kind, sock, fails, ok, mask,
                 mainVars, inbox, sent, overlapped>>

\* Wrong form of Miss: what is not the reply is skipped and not counted.
MissNotCounted(s) == UNCHANGED <<fails, pc>>

\* fails += 1; the third time the session closes.
Miss(s) ==
  /\ fails' = [fails EXCEPT ![s] = @ + 1]
  /\ pc' = [pc EXCEPT ![s] = IF fails[s] + 1 = 3 THEN "closing" ELSE "waiting"]

\* recvfrom on the port: the reply may be the one expected (0x02), say that the
\* file exists (0x04), or be for another request; a request is no answer.
Receive(s) ==
  /\ pc[s] = "waiting"
  /\ inbox[idx[s]] # <<>>
  /\ inbox' = [inbox EXCEPT ![idx[s]] = Tail(@)]
  /\ \/ /\ Head(inbox[idx[s]]) = "reply"
        /\ \E to \in {"connected", "closing"} : pc' = [pc EXCEPT ![s] = to]
        /\ UNCHANGED fails
     \/ Miss(s)
  /\ UNCHANGED <<poolVars, listenerVars, idx, dport, kind, sock, ok, mask, mainVars,
                 sent, owed, overlapped>>

\* SO_RCVTIMEO ran out: recvfrom returned -1 and the stale resp fails the test.
Timeout(s) ==
  /\ pc[s] = "waiting"
  /\ inbox[idx[s]] = <<>>
  /\ Miss(s)
  /\ UNCHANGED <<poolVars, listenerVars, idx, dport, kind, sock, ok, mask, mainVars,
                 netVars, overlapped>>

\* The 0x03, accept, the file from the C2 and to the FSS; any part may fail,
\* and accept and the reads have no timeout.
Transfer(s) ==
  /\ Step(s, "connected", "closing")
  /\ \E success \in BOOLEAN : ok' = [ok EXCEPT ![s] = success]
  /\ UNCHANGED <<poolVars, listenerVars, idx, dport, kind, sock, fails, mask, mainVars,
                 netVars, overlapped>>

\* send() to an FSS that closed its end: SIGPIPE ends the whole process.
BrokenPipe(s) ==
  /\ pc[s] = "connected"
  /\ mpc' = "crashed"
  /\ UNCHANGED <<poolVars, listenerVars, sessionVars, slot, joined, shown,
                 netVars, overlapped>>

\* Wrong form of Restore: the port is put in fds and not back in the table.
RestoreOnlyArms(s) ==
  /\ Step(s, "closing", "restoring")
  /\ slock = "free"
  /\ slock' = s
  /\ mask' = [mask EXCEPT ![s] = fds]
  /\ UNCHANGED <<sockets, fds, tids, numthrds, lock, ready, listenerVars,
                 idx, dport, kind, sock, fails, ok, mainVars, netVars, overlapped>>

\* threadClose: lock, sockets[socketsIndex] = sock, and the load of FD_SET.
Restore(s) ==
  /\ Step(s, "closing", "restoring")
  /\ slock = "free"
  /\ slock' = s
  /\ sockets' = [sockets EXCEPT ![idx[s]] = sock[s]]
  /\ mask' = [mask EXCEPT ![s] = fds]
  /\ UNCHANGED <<fds, tids, numthrds, lock, ready, listenerVars,
                 idx, dport, kind, sock, fails, ok, mainVars, netVars, overlapped>>

\* The store of FD_SET and the unlock.  Inside the listener's own FD_SET or
\* select() the store may also be overwritten by what those write back.
Rearm(s) ==
  /\ Step(s, "restoring", "restored")
  /\ \/ fds' = mask[s] \cup {sock[s]}
     \/ (lpc = "arm" \/ (lpc = "build" /\ lx = NumSockets)) /\ UNCHANGED fds
  /\ slock' = "free"
  /\ sock' = [sock EXCEPT ![s] = NoFd]
  /\ fails' = [fails EXCEPT ![s] = 0]
  /\ mask' = [mask EXCEPT ![s] = {}]
  /\ dport' = [dport EXCEPT ![s] = 0]
  /\ UNCHANGED <<sockets, tids, numthrds, lock, ready, listenerVars,
                 idx, kind, ok, mainVars, netVars, overlapped>>

\* A failed session detaches and then logs; one that succeeded logs, counts
\* itself out and then detaches.
Finish(s) ==
  /\ \/ Step(s, "closed", "detached") /\ ~ok[s]
     \/ Step(s, "detached", "done")
     \/ Step(s, "closed", "logged") /\ ok[s]
     \/ Step(s, "finished", "done")
  /\ UNCHANGED <<poolVars, listenerVars, idx, dport, kind, sock, fails, ok, mask,
                 mainVars, netVars, overlapped>>

\* What a session does without waiting for anybody outside the FTS.
Own(s) ==
  \/ LockCount(s) \/ Recount(s) \/ Take(s) \/ Parse(s)
  \/ Receive(s) \/ Timeout(s) \/ Restore(s) \/ Rearm(s) \/ Finish(s)

Network(s) == Forward(s) \/ Transfer(s)

-----------------------------------------------------------------------------
(* The command prompt.                                                     *)

\* The busy wait for ready.
PromptOpens ==
  /\ mpc = "boot" /\ ready
  /\ mpc' = "prompt"
  /\ UNCHANGED <<poolVars, listenerVars, sessionVars, slot, joined, shown,
                 netVars, overlapped>>

\* status: the counter under its lock, then the state of the listener.
StatusCount ==
  /\ mpc = "prompt"
  /\ lock = "free"
  /\ shown' = numthrds - 1
  /\ mpc' = "status"
  /\ UNCHANGED <<poolVars, listenerVars, sessionVars, slot, joined, netVars,
                 overlapped>>

StatusListener ==
  /\ mpc = "status"
  /\ mpc' = "prompt" /\ shown' = 0
  /\ UNCHANGED <<poolVars, listenerVars, sessionVars, slot, joined,
                 netVars, overlapped>>

\* exit: ready = 0, then pthread_join(tids[0]).
Exit ==
  /\ mpc = "prompt"
  /\ ready' = FALSE
  /\ mpc' = "join0" /\ slot' = 0
  /\ UNCHANGED <<sockets, slock, fds, tids, numthrds, lock, listenerVars,
                 sessionVars, joined, shown, netVars, overlapped>>

\* Wrong form: the sessions' handles are taken to begin at 2.
AfterJoinFromTwo ==
  /\ mpc' = IF slot = 0 THEN "unlock" ELSE IF slot < NumSockets THEN "join" ELSE "exited"
  /\ slot' = IF slot = 0 THEN 2 ELSE slot + 1

\* After the join of slot i: the unlock after slot 0, the next slot, or exit(0).
AfterJoin ==
  /\ mpc' = IF slot = 0 THEN "unlock" ELSE IF slot < NumSockets THEN "join" ELSE "exited"
  /\ slot' = slot + 1

\* pthread_join fails at once on a detached thread; on the handle of a thread that has
\* ended, and on the 0 of a slot that was never filled, it fails too, or reads what it
\* points to and the process dies.
JoinFails ==
  /\ mpc \in {"join0", "join"} /\ joined = "none"
  /\ \/ tids[slot] \in {"none", "listener"} /\ AfterJoin
     \/ tids[slot] \in Session /\ pc[tids[slot]] \in {"detached", "done"} /\ AfterJoin
     \/ /\ \/ tids[slot] = "none"
           \/ tids[slot] = "listener" /\ lpc = "stopped"
           \/ tids[slot] \in Session /\ pc[tids[slot]] = "done"
        /\ mpc' = "crashed" /\ UNCHANGED slot
  /\ UNCHANGED <<poolVars, listenerVars, sessionVars, joined, shown, netVars,
                 overlapped>>

\* pthread_join on a thread that has not detached waits until it ends.
JoinWaits ==
  /\ mpc \in {"join0", "join"} /\ joined = "none"
  /\ tids[slot] \in Session
  /\ pc[tids[slot]] \notin {"detached", "done"}
  /\ joined' = tids[slot]
  /\ UNCHANGED <<poolVars, listenerVars, sessionVars, mpc, slot, shown, netVars,
                 overlapped>>

JoinReturns ==
  /\ mpc \in {"join0", "join"} /\ joined \in Session
  /\ pc[joined] = "done"
  /\ joined' = "none"
  /\ AfterJoin
  /\ UNCHANGED <<poolVars, listenerVars, sessionVars, shown, netVars, overlapped>>

\* pthread_mutex_unlock(&numthrd_lock), which main does not hold.
StrayUnlock ==
  /\ mpc = "unlock"
  /\ lock' = "free"
  /\ mpc' = "relock"
  /\ UNCHANGED <<sockets, slock, fds, tids, numthrds, ready, listenerVars,
                 sessionVars, slot, joined, shown, netVars, overlapped>>

\* Main takes the lock for the joins of the remaining slots.
Relock ==
  /\ mpc = "relock"
  /\ lock = "free"
  /\ lock' = "main"
  /\ mpc' = "join"
  /\ UNCHANGED <<sockets, slock, fds, tids, numthrds, ready, listenerVars,
                 sessionVars, slot, joined, shown, netVars, overlapped>>

MainExit == JoinFails \/ JoinWaits \/ JoinReturns \/ StrayUnlock \/ Relock
Main == PromptOpens \/ StatusCount \/ StatusListener \/ Exit \/ MainExit

-----------------------------------------------------------------------------
Environment == \E x \in Sock : RequestArrives(x) \/ ReplyArrives(x)

Next ==
  /\ Alive
  /\ \/ Environment
     \/ Listener
     \/ \E s \in Session : Own(s) \/ Network(s) \/ BrokenPipe(s)
     \/ Main

Spec == Init /\ [][Next]_vars

\* Every thread keeps being scheduled.  Nothing is assumed of the network, of
\* the peers, or of what is typed at the prompt.
Fairness ==
  /\ WF_vars(Alive /\ Listener)
  /\ \A s \in Session : WF_vars(Alive /\ Own(s))
  /\ WF_vars(Alive /\ (PromptOpens \/ StatusListener \/ MainExit))

FairSpec == Spec /\ Fairness

\* As above, and every send and transfer ends: what is left is the FTS alone.
ServedSpec == FairSpec /\ \A s \in Session : WF_vars(Alive /\ Network(s))

-----------------------------------------------------------------------------
(* Properties.                                                             *)

ListenerPcs == {"make", "dead", "build", "arm", "scan", "test", "recv",
                "name", "dispatch", "spawn", "check", "stopped"}
SessionPcs == Unreturned \cup
              {"unborn", "restoring", "restored", "uncounting", "closed",
               "detached", "logged", "finishing", "finished", "done"}
Unasked == {"unborn", "spawned", "counting", "counted", "taken", "sending"}
MainPcs == {"boot", "prompt", "status", "join0", "unlock", "relock", "join",
            "exited", "crashed"}

PoolTypeOK ==
  /\ sockets \in [Sock -> Descriptor]
  /\ slock \in Session \cup {"free"}
  /\ fds \in SUBSET Descriptor
  /\ tids \in [0 .. NumSockets -> Session \cup {"none", "listener"}]
  /\ numthrds \in Int
  /\ lock \in Session \cup {"free", "listener", "main"}
  /\ ready \in BOOLEAN
  /\ overlapped \in SUBSET Sock

ListenerTypeOK ==
  /\ lpc \in ListenerPcs
  /\ lx \in 0 .. NumSockets
  /\ lpc \in {"arm", "scan", "test", "recv", "name", "dispatch", "spawn"} => lx \in Sock
  /\ lfd \in Descriptor
  /\ lmsg \in {"none", "request", "reply"}
  /\ lport \in Port
  /\ rcvd \in Int

SessionTypeOK ==
  /\ pc \in [Session -> SessionPcs]
  /\ idx \in [Session -> Sock]
  /\ dport \in [Session -> Port]
  /\ kind \in [Session -> {"none", "request", "reply"}]
  /\ sock \in [Session -> Descriptor]
  /\ fails \in [Session -> 0 .. 3]
  /\ \A s \in Session : pc[s] = "waiting" => fails[s] < 3
  /\ \A s \in Session : pc[s] \in Unasked => fails[s] = 0
  /\ ok \in [Session -> BOOLEAN]
  /\ mask \in [Session -> SUBSET Descriptor]

MainTypeOK ==
  /\ mpc \in MainPcs
  /\ slot \in 0 .. NumSockets + 1
  /\ mpc \in {"join0", "unlock", "relock", "join"} => slot \in 0 .. NumSockets
  /\ joined \in Session \cup {"none"}
  /\ shown \in Int

NetTypeOK ==
  /\ inbox \in [Sock -> Seq({"request", "reply"})]
  /\ sent \in Nat
  /\ owed \in [Sock -> Nat]

\* Every variable holds a value of its type; wherever the listener or main
\* index an array (sockets[x] at 240 and 251, tids[x] at 280, tids[i] at 162)
\* the index is within it; and the wait for the reply counts to three (492).
TypeOK ==
  PoolTypeOK /\ ListenerTypeOK /\ SessionTypeOK /\ MainTypeOK /\ NetTypeOK

Serving == mpc \in {"boot", "prompt", "status"}

\* Sessions past each update of the counter.
Born == {s \in Session : pc[s] # "unborn"}
Counted == {s \in Born : pc[s] \notin {"spawned", "counting"}}
Closed == {s \in Session : pc[s] \in {"closed", "detached", "logged", "finishing",
                                      "finished", "done"}}
Ended == {s \in Session : ok[s] /\ pc[s] \in {"finished", "done"}}

\* The counter is one (for the listener) plus two for each session, less one
\* for each that closed and one more for each that succeeded: listener 281,
\* session 303, threadClose 799 and session 774 are all of its updates, and
\* none is lost while the program serves.  A session that fails leaves 1 behind.
NumthrdsAccounting ==
  Serving => numthrds = 1 + Cardinality(Born) + Cardinality(Counted)
                          - Cardinality(Closed) - Cardinality(Ended)

\* Sessions that still have a transfer, a log entry or the counter to deal with.
Live == {s \in Born : pc[s] \notin {"finished", "done"}}

\* The number "status" prints (fts.c 177) is never below the number of live
\* sessions, however the threads interleave: it errs on one side only.
StatusCoversLive == [][StatusCount => shown' >= Cardinality(Live)]_vars

\* Session s has read the descriptor of its port and not given it back.
Holding == {"taken", "sending", "waiting", "connected", "closing"}
Holder(s) == pc[s] \in Holding /\ sock[s] # NoFd

\* A port's descriptor is in the table or with one session, never both and
\* never with two, even when the port is dispatched twice (fts.c 318-321, 794).
FdInOnePlace ==
  \A s \in Session :
    Holder(s) => /\ sock[s] = Fd(idx[s])
                 /\ sockets[idx[s]] = NoFd
                 /\ \A t \in Session \ {s} : Holder(t) => idx[t] # idx[s]

\* A port is out of the table only while a session has its descriptor; the one
\* way to lose it for good is a second dispatch before the first session gave
\* the port back (fts.c 251-280 against 318-321), whatever fails, in any order.
PortLostOnlyByOverlap ==
  \A x \in Sock :
    Bound(x) /\ sockets[x] = NoFd
      => x \in overlapped \/ \E s \in Session : Holder(s) /\ idx[s] = x

\* A session reckons its TCP port from dport (fts.c 560), which the listener asked for
\* through the table after the receive, with no lock (267).  It is the "Port on the FTS"
\* (29) of a session that is the only one its port has had; it can be another only when
\* some session took the port before the listener asked, and then also when that one
\* had long given it back.
PortKnownIfAlone ==
  \A s \in Session :
    Holder(s) /\ (\A t \in Born \ {s} : idx[t] # idx[s]) => dport[s] = idx[s]

(* What FdInOnePlace and PortLostOnlyByOverlap need to be inductive.       *)

\* The table holds a port's own descriptor or 0; so does a session, and only
\* between reading it and the end of threadClose.
DescriptorPlaces ==
  /\ \A x \in Sock : sockets[x] \in {NoFd, Fd(x)}
  /\ \A s \in Session : sock[s] \in {NoFd, Fd(idx[s])}
  /\ \A s \in Session : pc[s] \notin Holding \cup {"restoring"} => sock[s] = NoFd

\* No session exists before the listener is done making sockets.
NoneWhileMaking ==
  lpc \in {"make", "dead"} =>
    /\ \A s \in Session : pc[s] = "unborn"
    /\ \A x \in Sock : sockets[x] # NoFd <=> x < lx

\* Two sessions at a time on a port were recorded, and only a session that was
\* second can have found the table empty.
OverlapRecorded ==
  /\ \A s \in Session : \A t \in Session \ {s} :
       pc[s] \in Unreturned /\ pc[t] \in Unreturned /\ idx[s] = idx[t]
         => idx[s] \in overlapped
  /\ \A s \in Session : pc[s] \in Holding /\ sock[s] = NoFd => idx[s] \in overlapped

DescriptorInv ==
  /\ DescriptorPlaces /\ NoneWhileMaking /\ OverlapRecorded
  /\ FdInOnePlace /\ PortLostOnlyByOverlap

\* A port the listener could not ask for has had a session, in all three places its
\* number goes through.
NameInv ==
  /\ \A x \in overlapped : \E t \in Born : idx[t] = x
  /\ lpc \in {"dispatch", "spawn"} => lport = lx \/ \E t \in Born : idx[t] = lx
  /\ \A s \in Session : pc[s] \in Unreturned =>
       dport[s] = idx[s] \/ \E t \in Born \ {s} : idx[t] = idx[s]

\* Which of its two endings a session is in tells whether its transfer succeeded.
EndingMatches ==
  \A s \in Session :
    /\ pc[s] = "detached" => ~ok[s]
    /\ pc[s] \in {"logged", "finishing", "finished"} => ok[s]

\* A session at port x waits on the network or on a peer, which nothing bounds.
Stuck(x) == \E s \in Session : idx[s] = x /\ pc[s] \in {"sending", "connected"}

\* While the program serves, no port stays out of the table unless it was
\* dispatched twice or a session on it waits on the network (fts.c 279, 794).
PortReturns ==
  \A x \in Sock :
    []<>(mpc = "prompt" => (Bound(x) /\ lpc # "dead" => sockets[x] # NoFd)
                            \/ x \in overlapped \/ Stuck(x))

\* While the program serves, no datagram stays queued for ever: the listener
\* or the session that has the port reads it (fts.c 236-290, 493), whatever the
\* unlocked updates of fds lost on the way.
DatagramRead ==
  \A x \in Sock :
    []<>(mpc = "prompt" => inbox[x] = <<>> \/ x \in overlapped \/ Stuck(x))

\* A session waits for the reply at most three packets or timeouts (fts.c 492):
\* requests that hit its port cannot keep it there.
WaitEnds ==
  \A s \in Session : pc[s] = "waiting" ~> (pc[s] # "waiting" \/ ~Alive)

\* As long as nobody unlocks the mutex main holds through its joins, exit leaves
\* a session running only if it had detached, if its handle was overwritten by
\* the next session of its slot, or in slot 0, which was joined as the listener's
\* (157-163).  A thread that was inside when main unlocked it at 157 does unlock it.
ExitLeaves ==
  (mpc = "exited" /\ lock = "main")
    => \A s \in Live : pc[s] = "detached" \/ tids[idx[s]] # s \/ idx[s] = 0

-----------------------------------------------------------------------------
(* What ExitLeaves needs to be inductive.                                  *)

\* Session s runs, can be joined, and is the last of a slot main has yet to join.
Joinable(s) ==
  /\ pc[s] \notin {"unborn", "finished", "detached", "done"}
  /\ tids[idx[s]] = s
  /\ idx[s] # 0

\* While main has the lock nobody is dispatched: the handle it waits on stays that
\* of its slot, and a session it should have waited for is in a slot to come.
LeaveInv ==
  /\ mpc \notin {"join0", "join", "crashed"} => joined = "none"
  /\ mpc = "join0" => slot = 0
  /\ mpc \in {"unlock", "relock"} => slot = 1
  /\ mpc = "join" => slot >= 1
  /\ lock = "main" => mpc \in {"join", "exited", "crashed"}
  /\ (lock = "main" /\ mpc = "join")
       => /\ joined \in Session => tids[slot] = joined
          /\ \A s \in Session : Joinable(s) => idx[s] >= slot
  /\ (lock = "main" /\ mpc = "exited") => \A s \in Session : ~Joinable(s)

-----------------------------------------------------------------------------
(* What a help text of the source claims, and the code does not do: a run  *)
(* finds it violated.                                                      *)

\* fts.c 200: exit will "clean up, and close the server".
ExitCloses == mpc = "join0" ~> ~Alive
=============================================================================
