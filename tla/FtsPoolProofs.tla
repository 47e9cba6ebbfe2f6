--------------------------- MODULE FtsPoolProofs ---------------------------
(***************************************************************************)
(* Theorems about FtsPool, for any number of ports and of threads.         *)
(***************************************************************************)
EXTENDS FtsPool, SequenceTheorems, FiniteSetTheorems, TLAPS

\* Each part of TypeOK is kept by a step that leaves its variables alone.
LEMMA PoolUnchanged == PoolTypeOK /\ UNCHANGED <<poolVars, overlapped>> => PoolTypeOK'
BY DEF PoolTypeOK, poolVars

\* The same for the listener's variables.
LEMMA ListenerUnchanged == ListenerTypeOK /\ UNCHANGED <<listenerVars>> => ListenerTypeOK'
BY DEF ListenerTypeOK, listenerVars

\* The same for the sessions' variables.
LEMMA SessionUnchanged == SessionTypeOK /\ UNCHANGED <<sessionVars>> => SessionTypeOK'
BY DEF SessionTypeOK, sessionVars

\* The same for main's variables.
LEMMA MainUnchanged == MainTypeOK /\ UNCHANGED <<mainVars>> => MainTypeOK'
BY DEF MainTypeOK, mainVars

\* The same for the network's variables.
LEMMA NetUnchanged == NetTypeOK /\ UNCHANGED <<netVars>> => NetTypeOK'
BY DEF NetTypeOK, netVars

\* What the assumption on the constants says about ports and descriptors.
LEMMA ConstantFacts ==
  /\ NumSockets \in Nat /\ NumSockets >= 1
  /\ Sock = 0 .. NumSockets - 1
  /\ 0 \in Sock
  /\ NoFd \in Descriptor
  /\ \A x \in Sock : Fd(x) \in Descriptor
  /\ "free" \notin Session /\ "none" \notin Session /\ "listener" \notin Session
BY PoolAssumption DEF Sock, Descriptor, NoFd, Fd

\* select() counts a set of descriptors, which is finite.
LEMMA DescriptorsFinite == \A S \in SUBSET Descriptor : Cardinality(S) \in Nat
<1>1. IsFiniteSet(0 .. NumSockets)
  BY PoolAssumption, FS_Interval
<1>2. Descriptor \subseteq 0 .. NumSockets
  BY PoolAssumption DEF Descriptor, Sock, NoFd, Fd
<1> QED
  BY <1>1, <1>2, FS_Subset, FS_CardinalityType

\* A port's queue stays a queue of datagrams when one is added or taken.
LEMMA QueueFacts ==
  ASSUME NEW q \in Seq({"request", "reply"})
  PROVE  /\ \A m \in {"request", "reply"} : Append(q, m) \in Seq({"request", "reply"})
         /\ q # <<>> => /\ Head(q) \in {"request", "reply"}
                        /\ Tail(q) \in Seq({"request", "reply"})
BY HeadTailProperties, AppendProperties

\* Counting a third miss leaves the loop, so a waiting session is below three.
LEMMA MissType ==
  ASSUME SessionTypeOK, NEW s \in Session, pc[s] = "waiting", Miss(s),
         UNCHANGED <<idx, dport, kind, sock, ok, mask>>
  PROVE  SessionTypeOK'
<1>1. fails[s] \in 0 .. 2
  BY DEF SessionTypeOK
<1>2. fails' \in [Session -> 0 .. 3] /\ pc' \in [Session -> SessionPcs]
  BY <1>1 DEF Miss, SessionTypeOK, SessionPcs, Unreturned
<1>3. \A t \in Session : pc'[t] = "waiting" => fails'[t] < 3
  BY <1>1 DEF Miss, SessionTypeOK
<1>4. \A t \in Session : pc'[t] \in Unasked => fails'[t] = 0
  BY DEF Miss, SessionTypeOK, Unasked
<1> QED
  BY <1>2, <1>3, <1>4 DEF SessionTypeOK

\* Every step of the pool, of the network or of main keeps TypeOK.
THEOREM TypeStep == TypeOK /\ [Next]_vars => TypeOK'
<1> SUFFICES ASSUME PoolTypeOK, ListenerTypeOK, SessionTypeOK, MainTypeOK, NetTypeOK, [Next]_vars
             PROVE  TypeOK'
  BY DEF TypeOK
<1> USE ConstantFacts
<1>1. ASSUME NEW x \in Sock, RequestArrives(x) PROVE TypeOK'
  <2>1. PoolTypeOK' /\ ListenerTypeOK' /\ SessionTypeOK' /\ MainTypeOK'
    BY <1>1, PoolUnchanged, ListenerUnchanged, SessionUnchanged, MainUnchanged DEF
       RequestArrives
  <2>2. NetTypeOK'
    BY <1>1, QueueFacts DEF RequestArrives, NetTypeOK
  <2> QED
    BY <2>1, <2>2 DEF TypeOK
<1>2. ASSUME NEW x \in Sock, ReplyArrives(x) PROVE TypeOK'
  <2>1. PoolTypeOK' /\ ListenerTypeOK' /\ SessionTypeOK' /\ MainTypeOK'
    BY <1>2, PoolUnchanged, ListenerUnchanged, SessionUnchanged, MainUnchanged DEF ReplyArrives
  <2>2. NetTypeOK'
    <3>1. inbox' \in [Sock -> Seq({"request", "reply"})]
      BY <1>2, QueueFacts DEF ReplyArrives, NetTypeOK
    <3>2. owed[x] - 1 \in Nat
      BY <1>2 DEF ReplyArrives, NetTypeOK
    <3>3. sent' \in Nat /\ owed' \in [Sock -> Nat]
      BY <1>2, <3>2 DEF ReplyArrives, NetTypeOK
    <3> QED
      BY <3>1, <3>3 DEF NetTypeOK
  <2> QED
    BY <2>1, <2>2 DEF TypeOK
<1>3. CASE MakeSocket
  <2>1. SessionTypeOK' /\ MainTypeOK' /\ NetTypeOK'
    BY <1>3, SessionUnchanged, MainUnchanged, NetUnchanged DEF MakeSocket
  <2>2. PoolTypeOK'
    BY <1>3 DEF MakeSocket, PoolTypeOK, ListenerTypeOK, Sock
  <2>3. ListenerTypeOK'
    BY <1>3 DEF MakeSocket, ListenerTypeOK, ListenerPcs
  <2> QED
    BY <2>1, <2>2, <2>3 DEF TypeOK
<1>4. CASE MakeFails
  <2>1. PoolTypeOK' /\ SessionTypeOK' /\ MainTypeOK' /\ NetTypeOK'
    BY <1>4, PoolUnchanged, SessionUnchanged, MainUnchanged, NetUnchanged DEF MakeFails
  <2>2. ListenerTypeOK'
    BY <1>4 DEF MakeFails, ListenerTypeOK, ListenerPcs
  <2> QED
    BY <2>1, <2>2 DEF TypeOK
<1>5. CASE Announce
  <2>1. SessionTypeOK' /\ MainTypeOK' /\ NetTypeOK'
    BY <1>5, SessionUnchanged, MainUnchanged, NetUnchanged DEF Announce
  <2>2. PoolTypeOK'
    BY <1>5 DEF Announce, PoolTypeOK
  <2>3. ListenerTypeOK'
    BY <1>5 DEF Announce, ListenerTypeOK, ListenerPcs
  <2> QED
    BY <2>1, <2>2, <2>3 DEF TypeOK
<1>6. CASE BuildRead
  <2>1. PoolTypeOK' /\ SessionTypeOK' /\ MainTypeOK' /\ NetTypeOK'
    BY <1>6, PoolUnchanged, SessionUnchanged, MainUnchanged, NetUnchanged DEF BuildRead
  <2>2. ListenerTypeOK'
    BY <1>6 DEF BuildRead, ListenerTypeOK, ListenerPcs, PoolTypeOK
  <2> QED
    BY <2>1, <2>2 DEF TypeOK
<1>7. CASE BuildArm
  <2>1. SessionTypeOK' /\ MainTypeOK' /\ NetTypeOK'
    BY <1>7, SessionUnchanged, MainUnchanged, NetUnchanged DEF BuildArm
  <2>2. PoolTypeOK'
    BY <1>7 DEF BuildArm, PoolTypeOK, ListenerTypeOK
  <2>3. ListenerTypeOK'
    BY <1>7 DEF BuildArm, ListenerTypeOK, ListenerPcs
  <2> QED
    BY <2>1, <2>2, <2>3 DEF TypeOK
<1>8. CASE Select
  <2>1. SessionTypeOK' /\ MainTypeOK' /\ NetTypeOK'
    BY <1>8, SessionUnchanged, MainUnchanged, NetUnchanged DEF Select
  <2>2. PoolTypeOK'
    BY <1>8 DEF Select, PoolTypeOK
  <2>3. ListenerTypeOK'
    BY <1>8, DescriptorsFinite DEF Select, ListenerTypeOK, ListenerPcs, PoolTypeOK
  <2> QED
    BY <2>1, <2>2, <2>3 DEF TypeOK
<1>9. CASE ScanRead
  <2>1. PoolTypeOK' /\ SessionTypeOK' /\ MainTypeOK' /\ NetTypeOK'
    BY <1>9, PoolUnchanged, SessionUnchanged, MainUnchanged, NetUnchanged DEF ScanRead
  <2>2. ListenerTypeOK'
    BY <1>9 DEF ScanRead, ScanNext, ListenerTypeOK, ListenerPcs, PoolTypeOK
  <2> QED
    BY <2>1, <2>2 DEF TypeOK
<1>10. CASE ScanTest
  <2>1. PoolTypeOK' /\ SessionTypeOK' /\ MainTypeOK' /\ NetTypeOK'
    BY <1>10, PoolUnchanged, SessionUnchanged, MainUnchanged, NetUnchanged DEF ScanTest
  <2>2. ListenerTypeOK'
    BY <1>10 DEF ScanTest, ScanNext, ListenerTypeOK, ListenerPcs
  <2> QED
    BY <2>1, <2>2 DEF TypeOK
<1>11. CASE ScanReceive
  <2>1. PoolTypeOK' /\ SessionTypeOK' /\ MainTypeOK'
    BY <1>11, PoolUnchanged, SessionUnchanged, MainUnchanged DEF ScanReceive
  <2>2. ListenerTypeOK'
    BY <1>11, QueueFacts DEF ScanReceive, ListenerTypeOK, ListenerPcs, NetTypeOK
  <2>3. NetTypeOK'
    BY <1>11, QueueFacts DEF ScanReceive, NetTypeOK, ListenerTypeOK
  <2> QED
    BY <2>1, <2>2, <2>3 DEF TypeOK
<1>12. CASE ScanEmpty
  <2>1. PoolTypeOK' /\ SessionTypeOK' /\ MainTypeOK' /\ NetTypeOK'
    BY <1>12, PoolUnchanged, SessionUnchanged, MainUnchanged, NetUnchanged DEF ScanEmpty
  <2>2. ListenerTypeOK'
    BY <1>12 DEF ScanEmpty, ScanNext, ListenerTypeOK, ListenerPcs
  <2> QED
    BY <2>1, <2>2 DEF TypeOK
<1>13. CASE SpawnLock
  <2>1. SessionTypeOK' /\ MainTypeOK' /\ NetTypeOK'
    BY <1>13, SessionUnchanged, MainUnchanged, NetUnchanged DEF SpawnLock
  <2>2. PoolTypeOK'
    BY <1>13 DEF SpawnLock, PoolTypeOK
  <2>3. ListenerTypeOK'
    BY <1>13 DEF SpawnLock, ListenerTypeOK, ListenerPcs
  <2> QED
    BY <2>1, <2>2, <2>3 DEF TypeOK
<1>14. ASSUME NEW s \in Session, Spawn(s) PROVE TypeOK'
  <2>1. MainTypeOK' /\ NetTypeOK'
    BY <1>14, MainUnchanged, NetUnchanged DEF Spawn
  <2>2. PoolTypeOK'
    BY <1>14 DEF Spawn, ScanNext, PoolTypeOK, ListenerTypeOK
  <2>3. ListenerTypeOK'
    BY <1>14 DEF Spawn, ScanNext, ListenerTypeOK, ListenerPcs, Port
  <2>4. SessionTypeOK'
    BY <1>14 DEF Spawn, ScanNext, SessionTypeOK, SessionPcs, Unreturned, Unasked, ListenerTypeOK
  <2> QED
    BY <2>1, <2>2, <2>3, <2>4 DEF TypeOK
<1>15. CASE CheckReady
  <2>1. SessionTypeOK' /\ MainTypeOK' /\ NetTypeOK'
    BY <1>15, SessionUnchanged, MainUnchanged, NetUnchanged DEF CheckReady
  <2>2. PoolTypeOK'
    BY <1>15 DEF CheckReady, PoolTypeOK
  <2>3. ListenerTypeOK'
    BY <1>15 DEF CheckReady, ListenerTypeOK, ListenerPcs
  <2> QED
    BY <2>1, <2>2, <2>3 DEF TypeOK
<1>16. ASSUME NEW s \in Session, LockCount(s) PROVE TypeOK'
  <2>1. ListenerTypeOK' /\ MainTypeOK' /\ NetTypeOK'
    BY <1>16, ListenerUnchanged, MainUnchanged, NetUnchanged DEF LockCount
  <2>2. PoolTypeOK'
    BY <1>16 DEF LockCount, Step, PoolTypeOK
  <2>3. SessionTypeOK'
    BY <1>16 DEF LockCount, Step, SessionTypeOK, SessionPcs, Unreturned, Unasked
  <2> QED
    BY <2>1, <2>2, <2>3 DEF TypeOK
<1>17. ASSUME NEW s \in Session, Recount(s) PROVE TypeOK'
  <2>1. ListenerTypeOK' /\ MainTypeOK' /\ NetTypeOK'
    BY <1>17, ListenerUnchanged, MainUnchanged, NetUnchanged DEF Recount
  <2>2. PoolTypeOK'
    BY <1>17 DEF Recount, Step, PoolTypeOK
  <2>3. SessionTypeOK'
    BY <1>17 DEF Recount, Step, SessionTypeOK, SessionPcs, Unreturned, Unasked
  <2> QED
    BY <2>1, <2>2, <2>3 DEF TypeOK
<1>18. ASSUME NEW s \in Session, Take(s) PROVE TypeOK'
  <2>1. ListenerTypeOK' /\ MainTypeOK' /\ NetTypeOK'
    BY <1>18, ListenerUnchanged, MainUnchanged, NetUnchanged DEF Take
  <2>2. PoolTypeOK'
    BY <1>18 DEF Take, Step, PoolTypeOK, SessionTypeOK
  <2>3. SessionTypeOK'
    BY <1>18 DEF Take, Step, SessionTypeOK, SessionPcs, Unreturned, Unasked, PoolTypeOK
  <2> QED
    BY <2>1, <2>2, <2>3 DEF TypeOK
<1>19. ASSUME NEW s \in Session, Parse(s) PROVE TypeOK'
  <2>1. PoolTypeOK' /\ ListenerTypeOK' /\ MainTypeOK' /\ NetTypeOK'
    BY <1>19, PoolUnchanged, ListenerUnchanged, MainUnchanged, NetUnchanged DEF Parse
  <2>2. SessionTypeOK'
    BY <1>19 DEF Parse, Step, SessionTypeOK, SessionPcs, Unreturned, Unasked
  <2> QED
    BY <2>1, <2>2 DEF TypeOK
<1>20. ASSUME NEW s \in Session, Forward(s) PROVE TypeOK'
  <2>1. PoolTypeOK' /\ ListenerTypeOK' /\ MainTypeOK'
    BY <1>20, PoolUnchanged, ListenerUnchanged, MainUnchanged DEF Forward
  <2>2. SessionTypeOK'
    BY <1>20 DEF Forward, Step, SessionTypeOK, SessionPcs, Unreturned, Unasked
  <2>3. NetTypeOK'
    <3>1. idx[s] \in Sock /\ owed[idx[s]] + 1 \in Nat
      BY DEF SessionTypeOK, NetTypeOK
    <3>2. owed' \in [Sock -> Nat]
      BY <1>20, <3>1 DEF Forward, NetTypeOK
    <3> QED
      BY <1>20, <3>2 DEF Forward, NetTypeOK
  <2> QED
    BY <2>1, <2>2, <2>3 DEF TypeOK
<1>21. ASSUME NEW s \in Session, Receive(s) PROVE TypeOK'
  <2>1. PoolTypeOK' /\ ListenerTypeOK' /\ MainTypeOK'
    BY <1>21, PoolUnchanged, ListenerUnchanged, MainUnchanged DEF Receive
  <2>2. SessionTypeOK'
    <3>1. CASE Miss(s)
      BY <1>21, <3>1, MissType DEF Receive
    <3>2. CASE /\ \E to \in {"connected", "closing"} : pc' = [pc EXCEPT ![s] = to]
               /\ UNCHANGED fails
      BY <1>21, <3>2 DEF Receive, SessionTypeOK, SessionPcs, Unreturned, Unasked
    <3> QED
      BY <1>21, <3>1, <3>2 DEF Receive
  <2>3. NetTypeOK'
    BY <1>21, QueueFacts DEF Receive, Miss, NetTypeOK, SessionTypeOK
  <2> QED
    BY <2>1, <2>2, <2>3 DEF TypeOK
<1>22. ASSUME NEW s \in Session, Timeout(s) PROVE TypeOK'
  <2>1. PoolTypeOK' /\ ListenerTypeOK' /\ MainTypeOK' /\ NetTypeOK'
    BY <1>22, PoolUnchanged, ListenerUnchanged, MainUnchanged, NetUnchanged DEF Timeout
  <2>2. SessionTypeOK'
    BY <1>22, MissType DEF Timeout
  <2> QED
    BY <2>1, <2>2 DEF TypeOK
<1>23. ASSUME NEW s \in Session, Transfer(s) PROVE TypeOK'
  <2>1. PoolTypeOK' /\ ListenerTypeOK' /\ MainTypeOK' /\ NetTypeOK'
    BY <1>23, PoolUnchanged, ListenerUnchanged, MainUnchanged, NetUnchanged DEF Transfer
  <2>2. SessionTypeOK'
    BY <1>23 DEF Transfer, Step, SessionTypeOK, SessionPcs, Unreturned, Unasked
  <2> QED
    BY <2>1, <2>2 DEF TypeOK
<1>24. ASSUME NEW s \in Session, BrokenPipe(s) PROVE TypeOK'
  <2>1. PoolTypeOK' /\ ListenerTypeOK' /\ SessionTypeOK' /\ NetTypeOK'
    BY <1>24, PoolUnchanged, ListenerUnchanged, SessionUnchanged, NetUnchanged DEF BrokenPipe
  <2>2. MainTypeOK'
    BY <1>24 DEF BrokenPipe, MainTypeOK, MainPcs
  <2> QED
    BY <2>1, <2>2 DEF TypeOK
<1>25. ASSUME NEW s \in Session, Restore(s) PROVE TypeOK'
  <2>1. ListenerTypeOK' /\ MainTypeOK' /\ NetTypeOK'
    BY <1>25, ListenerUnchanged, MainUnchanged, NetUnchanged DEF Restore
  <2>2. PoolTypeOK'
    BY <1>25 DEF Restore, Step, PoolTypeOK, SessionTypeOK
  <2>3. SessionTypeOK'
    BY <1>25 DEF Restore, Step, SessionTypeOK, SessionPcs, Unreturned, Unasked, PoolTypeOK
  <2> QED
    BY <2>1, <2>2, <2>3 DEF TypeOK
<1>26. ASSUME NEW s \in Session, Rearm(s) PROVE TypeOK'
  <2>1. ListenerTypeOK' /\ MainTypeOK' /\ NetTypeOK'
    BY <1>26, ListenerUnchanged, MainUnchanged, NetUnchanged DEF Rearm
  <2>2. PoolTypeOK'
    BY <1>26 DEF Rearm, Step, PoolTypeOK, SessionTypeOK
  <2>3. SessionTypeOK'
    BY <1>26 DEF Rearm, Step, SessionTypeOK, SessionPcs, Unreturned, Unasked, Port
  <2> QED
    BY <2>1, <2>2, <2>3 DEF TypeOK
<1>27. ASSUME NEW s \in Session, Finish(s) PROVE TypeOK'
  <2>1. PoolTypeOK' /\ ListenerTypeOK' /\ MainTypeOK' /\ NetTypeOK'
    BY <1>27, PoolUnchanged, ListenerUnchanged, MainUnchanged, NetUnchanged DEF Finish
  <2>2. SessionTypeOK'
    BY <1>27 DEF Finish, Step, SessionTypeOK, SessionPcs, Unreturned, Unasked
  <2> QED
    BY <2>1, <2>2 DEF TypeOK
<1>28. CASE PromptOpens
  <2>1. PoolTypeOK' /\ ListenerTypeOK' /\ SessionTypeOK' /\ NetTypeOK'
    BY <1>28, PoolUnchanged, ListenerUnchanged, SessionUnchanged, NetUnchanged DEF PromptOpens
  <2>2. MainTypeOK'
    BY <1>28 DEF PromptOpens, MainTypeOK, MainPcs
  <2> QED
    BY <2>1, <2>2 DEF TypeOK
<1>29. CASE StatusCount
  <2>1. PoolTypeOK' /\ ListenerTypeOK' /\ SessionTypeOK' /\ NetTypeOK'
    BY <1>29, PoolUnchanged, ListenerUnchanged, SessionUnchanged, NetUnchanged DEF StatusCount
  <2>2. MainTypeOK'
    BY <1>29 DEF StatusCount, MainTypeOK, MainPcs, PoolTypeOK
  <2> QED
    BY <2>1, <2>2 DEF TypeOK
<1>30. CASE StatusListener
  <2>1. PoolTypeOK' /\ ListenerTypeOK' /\ SessionTypeOK' /\ NetTypeOK'
    BY <1>30, PoolUnchanged, ListenerUnchanged, SessionUnchanged, NetUnchanged DEF
       StatusListener
  <2>2. MainTypeOK'
    BY <1>30 DEF StatusListener, MainTypeOK, MainPcs
  <2> QED
    BY <2>1, <2>2 DEF TypeOK
<1>31. CASE Exit
  <2>1. ListenerTypeOK' /\ SessionTypeOK' /\ NetTypeOK'
    BY <1>31, ListenerUnchanged, SessionUnchanged, NetUnchanged DEF Exit
  <2>2. PoolTypeOK'
    BY <1>31 DEF Exit, PoolTypeOK
  <2>3. MainTypeOK'
    BY <1>31 DEF Exit, MainTypeOK, MainPcs
  <2> QED
    BY <2>1, <2>2, <2>3 DEF TypeOK
<1>32. CASE JoinFails
  <2>1. PoolTypeOK' /\ ListenerTypeOK' /\ SessionTypeOK' /\ NetTypeOK'
    BY <1>32, PoolUnchanged, ListenerUnchanged, SessionUnchanged, NetUnchanged DEF JoinFails
  <2>2. MainTypeOK'
    BY <1>32 DEF JoinFails, AfterJoin, MainTypeOK, MainPcs
  <2> QED
    BY <2>1, <2>2 DEF TypeOK
<1>33. CASE JoinWaits
  <2>1. PoolTypeOK' /\ ListenerTypeOK' /\ SessionTypeOK' /\ NetTypeOK'
    BY <1>33, PoolUnchanged, ListenerUnchanged, SessionUnchanged, NetUnchanged DEF JoinWaits
  <2>2. MainTypeOK'
    BY <1>33 DEF JoinWaits, MainTypeOK, MainPcs, PoolTypeOK
  <2> QED
    BY <2>1, <2>2 DEF TypeOK
<1>34. CASE JoinReturns
  <2>1. PoolTypeOK' /\ ListenerTypeOK' /\ SessionTypeOK' /\ NetTypeOK'
    BY <1>34, PoolUnchanged, ListenerUnchanged, SessionUnchanged, NetUnchanged DEF JoinReturns
  <2>2. MainTypeOK'
    BY <1>34 DEF JoinReturns, AfterJoin, MainTypeOK, MainPcs
  <2> QED
    BY <2>1, <2>2 DEF TypeOK
<1>35. CASE StrayUnlock
  <2>1. ListenerTypeOK' /\ SessionTypeOK' /\ NetTypeOK'
    BY <1>35, ListenerUnchanged, SessionUnchanged, NetUnchanged DEF StrayUnlock
  <2>2. PoolTypeOK'
    BY <1>35 DEF StrayUnlock, PoolTypeOK
  <2>3. MainTypeOK'
    BY <1>35 DEF StrayUnlock, MainTypeOK, MainPcs
  <2> QED
    BY <2>1, <2>2, <2>3 DEF TypeOK
<1>36. CASE Relock
  <2>1. ListenerTypeOK' /\ SessionTypeOK' /\ NetTypeOK'
    BY <1>36, ListenerUnchanged, SessionUnchanged, NetUnchanged DEF Relock
  <2>2. PoolTypeOK'
    BY <1>36 DEF Relock, PoolTypeOK
  <2>3. MainTypeOK'
    BY <1>36 DEF Relock, MainTypeOK, MainPcs
  <2> QED
    BY <2>1, <2>2, <2>3 DEF TypeOK
<1>37. CASE ScanName
  <2>1. PoolTypeOK' /\ SessionTypeOK' /\ MainTypeOK' /\ NetTypeOK'
    BY <1>37, PoolUnchanged, SessionUnchanged, MainUnchanged, NetUnchanged DEF ScanName
  <2>2. ListenerTypeOK'
    BY <1>37 DEF ScanName, ListenerTypeOK, ListenerPcs, Port
  <2> QED
    BY <2>1, <2>2 DEF TypeOK
<1>38. CASE UNCHANGED vars
  BY <1>38, PoolUnchanged, ListenerUnchanged, SessionUnchanged, MainUnchanged,
     NetUnchanged DEF vars, TypeOK
<1> QED
  BY <1>1, <1>2, <1>3, <1>4, <1>5, <1>6, <1>7, <1>8, <1>9, <1>10, <1>11, <1>12, <1>13,
     <1>14, <1>15, <1>16, <1>17, <1>18, <1>19, <1>20, <1>21, <1>22, <1>23, <1>24, <1>25,
     <1>26, <1>27, <1>28, <1>29, <1>30, <1>31, <1>32, <1>33, <1>34, <1>35, <1>36, <1>37,
     <1>38
  DEF Next, Environment, Listener, Own, Network, Main, MainExit

\* The state main sets up has the types, indexes and counts of TypeOK.
THEOREM TypeInit == Init => TypeOK
<1> SUFFICES ASSUME Init PROVE TypeOK
  OBVIOUS
<1> USE ConstantFacts DEF Init
<1>1. PoolTypeOK
  <2>1. sockets \in [Sock -> Descriptor] /\ fds \in SUBSET Descriptor /\ overlapped \in SUBSET Sock
    OBVIOUS
  <2>2. tids \in [0 .. NumSockets -> Session \cup {"none", "listener"}]
    OBVIOUS
  <2>3. numthrds \in Int
    OBVIOUS
  <2>4. ready \in BOOLEAN
    OBVIOUS
  <2>5. slock \in Session \cup {"free"} /\ lock \in Session \cup {"free", "listener", "main"}
    OBVIOUS
  <2> QED
    BY <2>1, <2>2, <2>3, <2>4, <2>5 DEF PoolTypeOK
<1>2. ListenerTypeOK
  BY DEF ListenerTypeOK, ListenerPcs, Port
<1>3. SessionTypeOK
  BY DEF SessionTypeOK, SessionPcs, Port
<1>4. MainTypeOK
  BY DEF MainTypeOK, MainPcs
<1>5. NetTypeOK
  BY DEF NetTypeOK
<1> QED
  BY <1>1, <1>2, <1>3, <1>4, <1>5 DEF TypeOK

\* Every variable of the pool keeps its type and every array index its range,
\* in every interleaving of any number of ports and sessions (fts.c 53-801).
THEOREM TypeCorrect == Spec => []TypeOK
BY TypeInit, TypeStep, PTL DEF Spec

-----------------------------------------------------------------------------
(* Descriptors.  Only the variables that DescriptorInv mentions matter, and *)
(* the listener only by being past MakeSocket.                              *)

\* With no socket made and no session born, the descriptor invariant holds.
LEMMA DescriptorInit == Init => DescriptorInv
BY PoolAssumption
   DEF Init, DescriptorInv, DescriptorPlaces, NoneWhileMaking, OverlapRecorded,
       FdInOnePlace, PortLostOnlyByOverlap, Bound, Sock, NoFd, Fd, Holding, Holder, Unreturned

\* Steps that leave table, sessions and overlaps alone, with the listener either
\* standing still or past making sockets before and after.
LEMMA DescriptorUnchanged ==
  ASSUME DescriptorInv, UNCHANGED <<sockets, pc, idx, sock, overlapped>>,
         \/ UNCHANGED <<lpc, lx>>
         \/ lpc \notin {"make", "dead"} /\ lpc' \notin {"make", "dead"}
  PROVE  DescriptorInv'
BY DEF DescriptorInv, DescriptorPlaces, NoneWhileMaking, OverlapRecorded,
       FdInOnePlace, PortLostOnlyByOverlap, Bound, Holder

\* A session that moves between two points on the same side of every boundary
\* (dispatched, descriptor read, port returned) changes nothing either.
SameSide(from, to) ==
  \/ from \in {"spawned", "counting", "counted"} /\ to \in {"spawned", "counting", "counted"}
  \/ from \in Holding /\ to \in Holding
  \/ from \notin Unreturned \cup {"unborn", "restoring"}
     /\ to \notin Unreturned \cup {"unborn", "restoring"}

\* Such a move keeps the descriptor invariant.
LEMMA DescriptorSameSide ==
  ASSUME TypeOK, DescriptorInv, NEW s \in Session, NEW to,
         pc' = [pc EXCEPT ![s] = to], SameSide(pc[s], to),
         UNCHANGED <<sockets, idx, sock, overlapped, lpc, lx>>
  PROVE  DescriptorInv'
<1> USE DEF TypeOK, SessionTypeOK
<1>1. /\ \A t \in Session : pc'[t] = IF t = s THEN to ELSE pc[t]
      /\ pc[s] # "unborn" /\ to # "unborn"
      /\ pc[s] \in Holding <=> to \in Holding
      /\ pc[s] \in Unreturned <=> to \in Unreturned
      /\ pc[s] = "restoring" <=> to = "restoring"
  BY DEF SameSide, Holding, Unreturned
<1>2. \A t \in Session : /\ pc[t] = "unborn" <=> pc'[t] = "unborn"
                         /\ pc[t] \in Holding <=> pc'[t] \in Holding
                         /\ pc[t] \in Unreturned <=> pc'[t] \in Unreturned
                         /\ pc[t] = "restoring" <=> pc'[t] = "restoring"
  BY <1>1
<1>3. DescriptorPlaces' /\ NoneWhileMaking' /\ OverlapRecorded'
  BY <1>2 DEF DescriptorInv, DescriptorPlaces, NoneWhileMaking, OverlapRecorded
<1>4. FdInOnePlace' /\ PortLostOnlyByOverlap'
  BY <1>2 DEF DescriptorInv, FdInOnePlace, PortLostOnlyByOverlap, Bound, Holder
<1> QED
  BY <1>3, <1>4 DEF DescriptorInv

\* Every step keeps the descriptor invariant: only MakeSocket, Spawn, Take,
\* Restore and Rearm change what it speaks about.
LEMMA DescriptorStep == TypeOK /\ DescriptorInv /\ [Next]_vars => DescriptorInv'
<1> SUFFICES ASSUME TypeOK, DescriptorInv, [Next]_vars PROVE DescriptorInv'
  OBVIOUS
<1> USE ConstantFacts

<1>1. ASSUME NEW x \in Sock, RequestArrives(x) \/ ReplyArrives(x) PROVE DescriptorInv'
  BY <1>1, DescriptorUnchanged DEF RequestArrives, ReplyArrives, poolVars, listenerVars,
     sessionVars
<1>2. CASE Main
  <2>1. UNCHANGED <<sockets, pc, idx, sock, overlapped, lpc, lx>>
    BY <1>2 DEF Main, MainExit, PromptOpens, StatusCount, StatusListener, Exit, JoinFails,
       JoinWaits, JoinReturns, StrayUnlock, Relock, poolVars, listenerVars, sessionVars
  <2> QED
    BY <2>1, DescriptorUnchanged
<1>3. CASE MakeSocket
  <2> USE DEF DescriptorInv, Sock, NoFd, Fd
  <2>1. /\ \A x \in Sock : sockets'[x] = IF x = lx THEN Fd(lx) ELSE sockets[x]
        /\ lx \in Sock /\ lx' = lx + 1 /\ lpc = "make" /\ lpc' = "make"
        /\ \A s \in Session : pc[s] = "unborn" /\ sock[s] = NoFd
        /\ UNCHANGED <<pc, idx, sock, overlapped>>
    BY <1>3 DEF MakeSocket, TypeOK, PoolTypeOK, ListenerTypeOK, NoneWhileMaking,
       DescriptorPlaces,
                Holding, sessionVars
  <2>2. DescriptorPlaces' /\ NoneWhileMaking' /\ OverlapRecorded'
    BY <2>1 DEF DescriptorPlaces, NoneWhileMaking, OverlapRecorded, Unreturned, Holding
  <2>3. FdInOnePlace' /\ PortLostOnlyByOverlap'
    BY <2>1 DEF FdInOnePlace, PortLostOnlyByOverlap, NoneWhileMaking, Bound, Holder, Holding
  <2> QED
    BY <2>2, <2>3
<1>4. CASE MakeFails \/ Announce
  <2>1. /\ UNCHANGED <<sockets, pc, idx, sock, overlapped>>
        /\ lpc = "make"
        /\ \/ lpc' = "dead" /\ lx' = lx
           \/ lpc' = "build" /\ lx = NumSockets
    BY <1>4 DEF MakeFails, Announce, poolVars, sessionVars
  <2>2. \A x \in Sock : Bound(x)' => Bound(x)
    BY <2>1 DEF Bound, Sock
  <2>3. PortLostOnlyByOverlap'
    BY <2>1, <2>2 DEF DescriptorInv, PortLostOnlyByOverlap, Holder
  <2>4. DescriptorPlaces' /\ NoneWhileMaking' /\ OverlapRecorded' /\ FdInOnePlace'
    BY <2>1 DEF DescriptorInv, DescriptorPlaces, NoneWhileMaking, OverlapRecorded,
       FdInOnePlace, Holder
  <2> QED
    BY <2>3, <2>4 DEF DescriptorInv
<1>5. CASE BuildRead \/ BuildArm \/ Select \/ ScanRead \/ ScanTest
            \/ ScanReceive \/ ScanEmpty \/ ScanName \/ SpawnLock \/ CheckReady
  <2>1. /\ UNCHANGED <<sockets, pc, idx, sock, overlapped>>
        /\ lpc \notin {"make", "dead"} /\ lpc' \notin {"make", "dead"}
    BY <1>5 DEF BuildRead, BuildArm, Select, ScanRead, ScanTest, ScanReceive, ScanEmpty, ScanName,
       SpawnLock, CheckReady,
                ScanNext, poolVars, sessionVars
  <2> QED
    BY <2>1, DescriptorUnchanged
<1>6. ASSUME NEW s \in Session, Spawn(s) PROVE DescriptorInv'
  <2> USE DEF DescriptorInv
  <2>1. /\ \A t \in Session : /\ pc'[t] = IF t = s THEN "spawned" ELSE pc[t]
                              /\ idx'[t] = IF t = s THEN lx ELSE idx[t]
        /\ UNCHANGED <<sockets, sock>>
        /\ pc[s] = "unborn" /\ lx \in Sock
        /\ lpc \notin {"make", "dead"} /\ lpc' \notin {"make", "dead"}
    BY <1>6 DEF Spawn, ScanNext, TypeOK, ListenerTypeOK, SessionTypeOK
  <2>2. /\ overlapped \subseteq overlapped'
        /\ (\E t \in Session : idx[t] = lx /\ pc[t] \in Unreturned) => lx \in overlapped'
    BY <1>6 DEF Spawn
  <2>3. DescriptorPlaces' /\ NoneWhileMaking'
    BY <2>1 DEF DescriptorPlaces, NoneWhileMaking, Holding
  <2>4. OverlapRecorded'
    BY <2>1, <2>2 DEF OverlapRecorded, Holding, Unreturned
  <2>5. FdInOnePlace'
    BY <2>1 DEF FdInOnePlace, Holder, Holding
  <2>6. PortLostOnlyByOverlap'
    BY <2>1, <2>2 DEF PortLostOnlyByOverlap, Bound, Holder, Holding
  <2> QED
    BY <2>3, <2>4, <2>5, <2>6
<1>7. ASSUME NEW s \in Session, LockCount(s) PROVE DescriptorInv'
  <2>1. /\ UNCHANGED <<sockets, idx, sock, overlapped, lpc, lx>>
        /\ \E to \in SessionPcs : pc' = [pc EXCEPT ![s] = to] /\ SameSide(pc[s], to)
    BY <1>7 DEF LockCount, Step, SameSide, Holding, Unreturned, SessionPcs, listenerVars
  <2> QED
    BY <2>1, DescriptorSameSide
<1>8. ASSUME NEW s \in Session, Recount(s) PROVE DescriptorInv'
  <2>1. /\ UNCHANGED <<sockets, idx, sock, overlapped, lpc, lx>>
        /\ \E to \in SessionPcs : pc' = [pc EXCEPT ![s] = to] /\ SameSide(pc[s], to)
    BY <1>8 DEF Recount, Step, SameSide, Holding, Unreturned, SessionPcs, listenerVars
  <2> QED
    BY <2>1, DescriptorSameSide
<1>9. ASSUME NEW s \in Session, Finish(s) PROVE DescriptorInv'
  <2>1. /\ UNCHANGED <<sockets, idx, sock, overlapped, lpc, lx>>
        /\ \E to \in SessionPcs : pc' = [pc EXCEPT ![s] = to] /\ SameSide(pc[s], to)
    BY <1>9 DEF Finish, Step, SameSide, Holding, Unreturned, SessionPcs, listenerVars, poolVars
  <2> QED
    BY <2>1, DescriptorSameSide
<1>10. ASSUME NEW s \in Session, Parse(s) \/ Forward(s) \/ Transfer(s) PROVE DescriptorInv'
  <2>1. /\ UNCHANGED <<sockets, idx, sock, overlapped, lpc, lx>>
        /\ \E to \in SessionPcs : pc' = [pc EXCEPT ![s] = to] /\ SameSide(pc[s], to)
    BY <1>10 DEF Parse, Forward, Transfer, Step, SameSide, Holding, Unreturned, SessionPcs,
              listenerVars, poolVars
  <2> QED
    BY <2>1, DescriptorSameSide
<1>11. ASSUME NEW s \in Session, Receive(s) \/ Timeout(s) PROVE DescriptorInv'
  <2>1. /\ UNCHANGED <<sockets, idx, sock, overlapped, lpc, lx>>
        /\ \E to \in SessionPcs : pc' = [pc EXCEPT ![s] = to] /\ SameSide(pc[s], to)
    BY <1>11 DEF Receive, Timeout, Miss, SameSide, Holding, Unreturned, SessionPcs,
              listenerVars, poolVars
  <2> QED
    BY <2>1, DescriptorSameSide
<1>12. ASSUME NEW s \in Session, BrokenPipe(s) PROVE DescriptorInv'
  BY <1>12, DescriptorUnchanged DEF BrokenPipe, poolVars, listenerVars, sessionVars
<1>13. ASSUME NEW s \in Session, Take(s) PROVE DescriptorInv'
  <2> USE DEF DescriptorInv
  <2> DEFINE x == idx[s]
  <2>1. /\ \A t \in Session : /\ pc'[t] = IF t = s THEN "taken" ELSE pc[t]
                              /\ sock'[t] = IF t = s THEN sockets[x] ELSE sock[t]
        /\ \A y \in Sock : sockets'[y] = IF y = x THEN NoFd ELSE sockets[y]
        /\ UNCHANGED <<idx, overlapped, lpc, lx>>
        /\ pc[s] = "counted" /\ x \in Sock
        /\ lpc \notin {"make", "dead"} /\ Bound(x)
    BY <1>13 DEF Take, Step, TypeOK, PoolTypeOK, SessionTypeOK, NoneWhileMaking,
       listenerVars, Bound
  <2>2. sockets[x] = NoFd => x \in overlapped
    BY <2>1 DEF PortLostOnlyByOverlap, OverlapRecorded, Holder, Holding, Unreturned
  <2>3. DescriptorPlaces' /\ NoneWhileMaking'
    BY <2>1 DEF DescriptorPlaces, NoneWhileMaking, Holding
  <2>4. OverlapRecorded'
    BY <2>1, <2>2 DEF OverlapRecorded, Holding, Unreturned
  <2>5. FdInOnePlace'
    <3>1. \A t \in Session : Holder(t) => idx[t] # x \/ sockets[x] = NoFd
      BY DEF FdInOnePlace
    <3>2. \A t \in Session \ {s} : Holder(t)' <=> Holder(t)
      BY <2>1 DEF Holder
    <3>3. Holder(s)' => /\ sock'[s] = Fd(x) /\ sockets[x] # NoFd
                        /\ \A t \in Session \ {s} : Holder(t) => idx[t] # x
      BY <2>1, <3>1 DEF DescriptorPlaces, Holder
    <3>4. \A t \in Session \ {s} : Holder(t) =>
            /\ sock'[t] = Fd(idx[t]) /\ sockets'[idx[t]] = NoFd
            /\ \A u \in Session \ {s, t} : Holder(u) => idx[u] # idx[t]
      BY <2>1 DEF FdInOnePlace, TypeOK, SessionTypeOK
    <3> QED
      BY <2>1, <3>2, <3>3, <3>4 DEF FdInOnePlace
  <2>6. PortLostOnlyByOverlap'
    BY <2>1, <2>2 DEF PortLostOnlyByOverlap, Bound, Holder, Holding
  <2> QED
    BY <2>3, <2>4, <2>5, <2>6
<1>14. ASSUME NEW s \in Session, Restore(s) PROVE DescriptorInv'
  <2> USE DEF DescriptorInv
  <2> DEFINE x == idx[s]
  <2>1. /\ \A t \in Session : pc'[t] = IF t = s THEN "restoring" ELSE pc[t]
        /\ \A y \in Sock : sockets'[y] = IF y = x THEN sock[s] ELSE sockets[y]
        /\ UNCHANGED <<idx, sock, overlapped, lpc, lx>>
        /\ pc[s] = "closing" /\ x \in Sock /\ sock[s] \in {NoFd, Fd(x)}
        /\ lpc \notin {"make", "dead"}
    BY <1>14 DEF Restore, Step, TypeOK, PoolTypeOK, SessionTypeOK, NoneWhileMaking,
       listenerVars,
              DescriptorPlaces
  <2>2. sock[s] = NoFd => x \in overlapped
    BY <2>1 DEF OverlapRecorded, Holding
  <2>3. DescriptorPlaces' /\ NoneWhileMaking'
    BY <2>1 DEF DescriptorPlaces, NoneWhileMaking, Holding
  <2>4. OverlapRecorded'
    BY <2>1 DEF OverlapRecorded, Holding, Unreturned
  <2>5. FdInOnePlace'
    <3>1. \A t \in Session : Holder(t)' <=> t # s /\ Holder(t)
      BY <2>1 DEF Holder, Holding
    <3>2. Holder(s) \/ sock[s] = NoFd
      BY <2>1 DEF Holder, Holding
    <3>3. \A t \in Session \ {s} : Holder(t) =>
            /\ sock[t] = Fd(idx[t]) /\ idx[t] \in Sock /\ sockets[idx[t]] = NoFd
            /\ sock[s] # NoFd => idx[t] # x
            /\ \A u \in Session \ {t} : Holder(u) => idx[u] # idx[t]
      BY <3>2 DEF FdInOnePlace, TypeOK, SessionTypeOK
    <3>4. \A t \in Session \ {s} : Holder(t) => sockets'[idx[t]] = NoFd
      BY <2>1, <3>3
    <3> QED
      BY <2>1, <3>1, <3>3, <3>4 DEF FdInOnePlace
  <2>6. PortLostOnlyByOverlap'
    BY <2>1, <2>2 DEF PortLostOnlyByOverlap, Bound, Holder, Holding
  <2> QED
    BY <2>3, <2>4, <2>5, <2>6
<1>15. ASSUME NEW s \in Session, Rearm(s) PROVE DescriptorInv'
  <2> USE DEF DescriptorInv
  <2>1. /\ \A t \in Session : /\ pc'[t] = IF t = s THEN "restored" ELSE pc[t]
                              /\ sock'[t] = IF t = s THEN NoFd ELSE sock[t]
        /\ UNCHANGED <<sockets, idx, overlapped, lpc, lx>>
        /\ pc[s] = "restoring"
    BY <1>15 DEF Rearm, Step, TypeOK, SessionTypeOK, listenerVars
  <2>2. DescriptorPlaces' /\ NoneWhileMaking'
    BY <2>1 DEF DescriptorPlaces, NoneWhileMaking, Holding
  <2>3. OverlapRecorded'
    BY <2>1 DEF OverlapRecorded, Holding, Unreturned
  <2>4. FdInOnePlace' /\ PortLostOnlyByOverlap'
    BY <2>1 DEF FdInOnePlace, PortLostOnlyByOverlap, Bound, Holder, Holding
  <2> QED
    BY <2>2, <2>3, <2>4
<1>16. CASE UNCHANGED vars
  BY <1>16, DescriptorUnchanged DEF vars, poolVars, listenerVars, sessionVars
<1> QED
  BY <1>1, <1>2, <1>3, <1>4, <1>5, <1>6, <1>7, <1>8, <1>9, <1>10, <1>11, <1>12, <1>13,
     <1>14, <1>15, <1>16
  DEF Next, Environment, Listener, Own, Network

\* No descriptor of a UDP port is ever with two threads or with a thread and in
\* the table, even when the listener dispatches a port twice (fts.c 318-321, 794).
THEOREM DescriptorSafe == Spec => []FdInOnePlace
<1>1. DescriptorInv => FdInOnePlace
  BY DEF DescriptorInv
<1> QED
  BY <1>1, TypeCorrect, DescriptorInit, DescriptorStep, PTL DEF Spec

\* Whatever fails and in whatever order, the only way a port leaves the table
\* for good is a second dispatch before it was given back (fts.c 251-280, 318-321).
THEOREM PortSafe == Spec => []PortLostOnlyByOverlap
<1>1. DescriptorInv => PortLostOnlyByOverlap
  BY DEF DescriptorInv
<1> QED
  BY <1>1, TypeCorrect, DescriptorInit, DescriptorStep, PTL DEF Spec

-----------------------------------------------------------------------------
(* The port number a session is given.                                     *)

\* Before the first session there is no number to be wrong.
LEMMA NameInit == Init => NameInv
BY DEF Init, NameInv, Unreturned

\* Steps that leave the numbers and the dispatched ports alone, let no session back
\* among the unreturned, and keep the listener where it was once it has asked.
LEMMA NameUnmoved ==
  ASSUME NameInv, UNCHANGED <<idx, dport, lport, overlapped>>,
         \A t \in Session : /\ pc[t] # "unborn" => pc'[t] # "unborn"
                            /\ pc'[t] \in Unreturned => pc[t] \in Unreturned,
         lpc' \in {"dispatch", "spawn"} => lpc \in {"dispatch", "spawn"} /\ lx' = lx
  PROVE  NameInv'
BY DEF NameInv, Born

\* A session of its own moves on: it stays born, and does not become unreturned again.
LEMMA NameMoves ==
  ASSUME TypeOK, NameInv, NEW s \in Session, NEW to,
         pc' = [pc EXCEPT ![s] = to], pc[s] # "unborn", to # "unborn",
         to \in Unreturned => pc[s] \in Unreturned,
         UNCHANGED <<idx, dport, lport, overlapped, lpc, lx>>
  PROVE  NameInv'
<1>1. \A t \in Session : pc'[t] = IF t = s THEN to ELSE pc[t]
  BY DEF TypeOK, SessionTypeOK
<1> QED
  BY <1>1, NameUnmoved

\* Every step keeps it: ScanName, which asks, Spawn, which passes the number on, and
\* Rearm, which clears it, are the ones that touch what it speaks about.
LEMMA NameStep == TypeOK /\ DescriptorInv /\ NameInv /\ [Next]_vars => NameInv'
<1> SUFFICES ASSUME TypeOK, DescriptorInv, NameInv, [Next]_vars PROVE NameInv'
  OBVIOUS
<1>1. CASE Environment \/ Main \/ UNCHANGED vars
  <2>1. UNCHANGED <<pc, idx, dport, lport, overlapped, lpc, lx>>
    BY <1>1 DEF Environment, RequestArrives, ReplyArrives, Main, MainExit, PromptOpens,
       StatusCount, StatusListener, Exit, JoinFails, JoinWaits, JoinReturns, StrayUnlock,
       Relock, vars, poolVars, listenerVars, sessionVars
  <2> QED
    BY <2>1, NameUnmoved
<1>2. CASE MakeSocket \/ MakeFails \/ Announce \/ BuildRead \/ BuildArm \/ Select
            \/ ScanRead \/ ScanTest \/ ScanReceive \/ ScanEmpty \/ SpawnLock \/ CheckReady
  <2>1. /\ UNCHANGED <<pc, idx, dport, lport, overlapped>>
        /\ lpc' \in {"dispatch", "spawn"} => lpc = "dispatch" /\ lx' = lx
    BY <1>2 DEF MakeSocket, MakeFails, Announce, BuildRead, BuildArm, Select, ScanRead,
       ScanTest, ScanReceive, ScanEmpty, SpawnLock, CheckReady, ScanNext, sessionVars
  <2> QED
    BY <2>1, NameUnmoved
<1>3. CASE ScanName
  <2>1. /\ UNCHANGED <<pc, idx, dport, overlapped, lx>>
        /\ sockets[lx] # NoFd => lport' = lx
        /\ lx \in Sock /\ Bound(lx)
    BY <1>3 DEF ScanName, sessionVars, TypeOK, ListenerTypeOK, Bound
  <2>2. sockets[lx] = NoFd => \E t \in Born : idx[t] = lx
    <3>1. ASSUME sockets[lx] = NoFd, lx \notin overlapped PROVE \E t \in Born : idx[t] = lx
      BY <2>1, <3>1 DEF DescriptorInv, PortLostOnlyByOverlap, Holder, Holding, Born
    <3> QED
      BY <3>1 DEF NameInv
  <2> QED
    BY <2>1, <2>2 DEF NameInv, Born
<1>4. ASSUME NEW s \in Session, Spawn(s) PROVE NameInv'
  <2>1. /\ \A t \in Session : /\ pc'[t] = IF t = s THEN "spawned" ELSE pc[t]
                              /\ idx'[t] = IF t = s THEN lx ELSE idx[t]
                              /\ dport'[t] = IF t = s THEN lport ELSE dport[t]
        /\ pc[s] = "unborn" /\ lpc = "spawn"
        /\ lpc' \in {"check", "scan"}
    BY <1>4 DEF Spawn, ScanNext, TypeOK, SessionTypeOK
  <2>2. overlapped' \subseteq overlapped \cup {lx}
    BY <1>4 DEF Spawn
  <2>3. \A t \in Born : t # s /\ t \in Born' /\ idx'[t] = idx[t]
    BY <2>1 DEF Born
  <2>4. s \in Born' /\ idx'[s] = lx
    BY <2>1 DEF Born
  <2>5. \A x \in overlapped' : \E t \in Born' : idx'[t] = x
    BY <2>2, <2>3, <2>4 DEF NameInv
  <2>6. dport'[s] = idx'[s] \/ \E t \in Born' \ {s} : idx'[t] = idx'[s]
    BY <2>1, <2>3 DEF NameInv
  <2>7. \A t \in Session \ {s} : pc'[t] \in Unreturned =>
          dport'[t] = idx'[t] \/ \E u \in Born' \ {t} : idx'[u] = idx'[t]
    <3>1. ASSUME NEW t \in Session \ {s}, pc[t] \in Unreturned,
                 NEW u \in Born \ {t}, idx[u] = idx[t]
          PROVE  u \in Born' \ {t} /\ idx'[u] = idx'[t]
      BY <2>1, <2>3, <3>1
    <3> QED
      BY <2>1, <3>1 DEF NameInv
  <2> QED
    BY <2>1, <2>5, <2>6, <2>7 DEF NameInv
<1>5. ASSUME NEW s \in Session, LockCount(s) \/ Recount(s) \/ Take(s) \/ Parse(s)
                 \/ Forward(s) \/ Transfer(s) \/ Receive(s) \/ Timeout(s) \/ Restore(s)
                 \/ Finish(s)
      PROVE  NameInv'
  <2>1. /\ UNCHANGED <<idx, dport, lport, overlapped, lpc, lx>>
        /\ \E to \in SessionPcs :
             /\ pc' = [pc EXCEPT ![s] = to] /\ pc[s] # "unborn" /\ to # "unborn"
             /\ to \in Unreturned => pc[s] \in Unreturned
    BY <1>5 DEF LockCount, Recount, Take, Parse, Forward, Transfer, Receive, Timeout, Miss,
       Restore, Finish, Step, Unreturned, SessionPcs, listenerVars
  <2> QED
    BY <2>1, NameMoves
<1>6. ASSUME NEW s \in Session, Rearm(s) PROVE NameInv'
  <2>1. /\ \A t \in Session : /\ pc'[t] = IF t = s THEN "restored" ELSE pc[t]
                              /\ dport'[t] = IF t = s THEN 0 ELSE dport[t]
        /\ pc[s] = "restoring"
        /\ UNCHANGED <<idx, lport, overlapped, lpc, lx>>
    BY <1>6 DEF Rearm, Step, TypeOK, SessionTypeOK, listenerVars
  <2>2. Born' = Born /\ pc'[s] \notin Unreturned
    BY <2>1 DEF Born, Unreturned
  <2> QED
    BY <2>1, <2>2 DEF NameInv
<1>7. ASSUME NEW s \in Session, BrokenPipe(s) PROVE NameInv'
  BY <1>7, NameUnmoved DEF BrokenPipe, listenerVars, sessionVars
<1> QED
  BY <1>1, <1>2, <1>3, <1>4, <1>5, <1>6, <1>7 DEF Next, Listener, Own, Network

\* The number a session reckons its TCP port from is its own port's if no other session
\* has ever been dispatched there, whatever the listener's unlocked second look at the
\* table (fts.c 267) met.
THEOREM PortKnown == Spec => []PortKnownIfAlone
<1>1. NameInv => PortKnownIfAlone
  BY DEF NameInv, PortKnownIfAlone, Holder, Holding, Unreturned
<1>2. Init => NameInv /\ DescriptorInv
  BY NameInit, DescriptorInit
<1>3. TypeOK /\ (NameInv /\ DescriptorInv) /\ [Next]_vars => (NameInv /\ DescriptorInv)'
  BY NameStep, DescriptorStep
<1> QED
  BY <1>1, <1>2, <1>3, TypeCorrect, PTL DEF Spec

-----------------------------------------------------------------------------
(* The thread counter.                                                     *)

Total == 1 + Cardinality(Born) + Cardinality(Counted) - Cardinality(Closed)
           - Cardinality(Ended)

CountInv == numthrds = Total /\ EndingMatches

\* The sets the counter is made of are finite.
LEMMA CountSets ==
  /\ IsFiniteSet(Born) /\ IsFiniteSet(Counted) /\ IsFiniteSet(Closed) /\ IsFiniteSet(Ended)
  /\ Cardinality(Born) \in Nat /\ Cardinality(Counted) \in Nat
  /\ Cardinality(Closed) \in Nat /\ Cardinality(Ended) \in Nat
<1>1. /\ Born \subseteq Session /\ Counted \subseteq Session
      /\ Closed \subseteq Session /\ Ended \subseteq Session
  BY DEF Born, Counted, Closed, Ended
<1> QED
  BY <1>1, PoolAssumption, FS_Subset, FS_CardinalityType

\* A session that moves from one point to another, its result kept, enters at
\* most the set that the update it makes there belongs to.
LEMMA CountMove ==
  ASSUME TypeOK, NEW s \in Session, NEW to, pc' = [pc EXCEPT ![s] = to],
         UNCHANGED ok
  PROVE  /\ pc[s] = "unborn" /\ to = "spawned"
              => Total' = Total + 1
         /\ pc[s] = "counting" /\ to = "counted"
              => Total' = Total + 1
         /\ pc[s] = "uncounting" /\ to = "closed"
              => Total' = Total - 1
         /\ pc[s] = "finishing" /\ to = "finished" /\ ok[s]
              => Total' = Total - 1
<1>1. \A t \in Session : pc'[t] = IF t = s THEN to ELSE pc[t]
  BY DEF TypeOK, SessionTypeOK
<1>2. ASSUME pc[s] = "unborn", to = "spawned" PROVE Total' = Total + 1
  <2>1. /\ Born' = Born \cup {s} /\ s \notin Born
        /\ Counted' = Counted /\ Closed' = Closed /\ Ended' = Ended
    BY <1>1, <1>2 DEF Born, Counted, Closed, Ended
  <2>2. Cardinality(Born') = Cardinality(Born) + 1
    BY <2>1, CountSets, FS_AddElement
  <2> QED
    BY <2>1, <2>2, CountSets DEF Total
<1>3. ASSUME pc[s] = "counting", to = "counted" PROVE Total' = Total + 1
  <2>1. /\ Counted' = Counted \cup {s} /\ s \notin Counted
        /\ Born' = Born /\ Closed' = Closed /\ Ended' = Ended
    BY <1>1, <1>3 DEF Born, Counted, Closed, Ended
  <2>2. Cardinality(Counted') = Cardinality(Counted) + 1
    BY <2>1, CountSets, FS_AddElement
  <2> QED
    BY <2>1, <2>2, CountSets DEF Total
<1>4. ASSUME pc[s] = "uncounting", to = "closed" PROVE Total' = Total - 1
  <2>1. /\ Closed' = Closed \cup {s} /\ s \notin Closed
        /\ Born' = Born /\ Counted' = Counted /\ Ended' = Ended
    BY <1>1, <1>4 DEF Born, Counted, Closed, Ended
  <2>2. Cardinality(Closed') = Cardinality(Closed) + 1
    BY <2>1, CountSets, FS_AddElement
  <2> QED
    BY <2>1, <2>2, CountSets DEF Total
<1>5. ASSUME pc[s] = "finishing", to = "finished", ok[s] PROVE Total' = Total - 1
  <2>1. /\ Ended' = Ended \cup {s} /\ s \notin Ended
        /\ Born' = Born /\ Counted' = Counted /\ Closed' = Closed
    BY <1>1, <1>5 DEF Born, Counted, Closed, Ended
  <2>2. Cardinality(Ended') = Cardinality(Ended) + 1
    BY <2>1, CountSets, FS_AddElement
  <2> QED
    BY <2>1, <2>2, CountSets DEF Total
<1> QED
  BY <1>2, <1>3, <1>4, <1>5

\* Any other move crosses none of the four updates.
SameCount(from, to, success) ==
  /\ from # "unborn" /\ to # "unborn"
  /\ from \in {"spawned", "counting"} <=> to \in {"spawned", "counting"}
  /\ LET closed == {"closed", "detached", "logged", "finishing", "finished", "done"}
     IN  from \in closed <=> to \in closed
  /\ success => (from \in {"finished", "done"} <=> to \in {"finished", "done"})

\* Such a move keeps the count, and the ending that matches the result.
LEMMA CountSame ==
  ASSUME TypeOK, CountInv, NEW s \in Session, NEW to, NEW success \in BOOLEAN,
         pc' = [pc EXCEPT ![s] = to], ok' = [ok EXCEPT ![s] = success],
         success = ok[s] \/ (pc[s] = "connected" /\ to = "closing"),
         SameCount(pc[s], to, success),
         to = "detached" => ~success,
         to \in {"logged", "finishing", "finished"} => success,
         UNCHANGED numthrds
  PROVE  CountInv'
<1>1. \A t \in Session : /\ pc'[t] = IF t = s THEN to ELSE pc[t]
                         /\ ok'[t] = IF t = s THEN success ELSE ok[t]
  BY DEF TypeOK, SessionTypeOK
<1>2. Born' = Born /\ Counted' = Counted /\ Closed' = Closed
  BY <1>1 DEF SameCount, Born, Counted, Closed
<1>3. Ended' = Ended
  BY <1>1 DEF SameCount, Ended
<1>4. EndingMatches'
  BY <1>1 DEF CountInv, EndingMatches
<1> QED
  BY <1>2, <1>3, <1>4 DEF CountInv, Total

\* A step that moves no session and leaves the counter alone keeps the count.
LEMMA CountUnchanged ==
  ASSUME CountInv, UNCHANGED <<pc, ok, numthrds>> PROVE CountInv'
BY DEF CountInv, Total, Born, Counted, Closed, Ended, EndingMatches

\* With no session born the counter is one, for the listener.
LEMMA CountInit == Init => CountInv
<1> SUFFICES ASSUME Init PROVE CountInv
  OBVIOUS
<1>1. Born = {} /\ Counted = {} /\ Closed = {} /\ Ended = {}
  BY DEF Init, Born, Counted, Closed, Ended
<1> QED
  BY <1>1, FS_EmptySet DEF Init, CountInv, Total, EndingMatches

\* Every step keeps the count: Spawn and Recount update it, nothing else does.
LEMMA CountStep == TypeOK /\ CountInv /\ [Next]_vars => CountInv'
<1> SUFFICES ASSUME TypeOK, CountInv, [Next]_vars PROVE CountInv'
  OBVIOUS
<1> USE DEF TypeOK, SessionTypeOK
<1>1. ASSUME NEW x \in Sock, RequestArrives(x) \/ ReplyArrives(x) PROVE CountInv'
  BY <1>1, CountUnchanged DEF RequestArrives, ReplyArrives, poolVars, sessionVars
<1>2. CASE Main
  <2>1. UNCHANGED <<pc, ok, numthrds>>
    BY <1>2 DEF Main, MainExit, PromptOpens, StatusCount, StatusListener, Exit, JoinFails,
       JoinWaits, JoinReturns, StrayUnlock, Relock, poolVars, sessionVars
  <2> QED
    BY <2>1, CountUnchanged
<1>3. CASE MakeSocket \/ MakeFails \/ Announce \/ BuildRead \/ BuildArm \/ Select \/ ScanRead
           \/ ScanTest \/ ScanReceive \/ ScanEmpty \/ ScanName \/ SpawnLock \/ CheckReady
  <2>1. UNCHANGED <<pc, ok, numthrds>>
    BY <1>3 DEF MakeSocket, MakeFails, Announce, BuildRead, BuildArm, Select, ScanRead,
       ScanTest, ScanReceive, ScanEmpty, ScanName, SpawnLock, CheckReady, poolVars, sessionVars
  <2> QED
    BY <2>1, CountUnchanged
<1>4. ASSUME NEW s \in Session, Spawn(s) PROVE CountInv'
  <2>1. /\ pc' = [pc EXCEPT ![s] = "spawned"] /\ pc[s] = "unborn"
        /\ UNCHANGED ok /\ numthrds' = numthrds + 1
    BY <1>4 DEF Spawn
  <2>2. numthrds' = Total'
    BY <2>1, CountMove DEF CountInv
  <2>3. EndingMatches'
    BY <2>1 DEF CountInv, EndingMatches
  <2> QED
    BY <2>2, <2>3 DEF CountInv
<1>5. ASSUME NEW s \in Session, Recount(s) PROVE CountInv'
  <2>1. UNCHANGED ok
    BY <1>5 DEF Recount
  <2>2. CASE Step(s, "counting", "counted") /\ numthrds' = numthrds + 1
    <3>1. numthrds' = Total'
      BY <2>1, <2>2, CountMove DEF CountInv, Step
    <3> QED
      BY <2>1, <2>2, <3>1 DEF CountInv, EndingMatches, Step
  <2>3. CASE Step(s, "uncounting", "closed") /\ numthrds' = numthrds - 1
    <3>1. numthrds' = Total'
      BY <2>1, <2>3, CountMove DEF CountInv, Step
    <3> QED
      BY <2>1, <2>3, <3>1 DEF CountInv, EndingMatches, Step
  <2>4. CASE Step(s, "finishing", "finished") /\ numthrds' = numthrds - 1
    <3>1. ok[s]
      BY <2>4 DEF CountInv, EndingMatches, Step
    <3>2. numthrds' = Total'
      BY <2>1, <2>4, <3>1, CountMove DEF CountInv, Step
    <3> QED
      BY <2>1, <2>4, <3>1, <3>2 DEF CountInv, EndingMatches, Step
  <2> QED
    BY <1>5, <2>2, <2>3, <2>4 DEF Recount
<1>6. ASSUME NEW s \in Session,
             \/ LockCount(s) \/ Take(s) \/ Parse(s) \/ Forward(s) \/ Restore(s)
             \/ Rearm(s) \/ Finish(s) \/ Receive(s) \/ Timeout(s)
      PROVE  CountInv'
  <2>1. UNCHANGED <<ok, numthrds>>
    BY <1>6 DEF LockCount, Take, Parse, Forward, Restore, Rearm, Finish, Receive, Timeout,
       poolVars
  <2>2. \E to \in SessionPcs :
          /\ pc' = [pc EXCEPT ![s] = to]
          /\ SameCount(pc[s], to, ok[s])
          /\ to = "detached" => ~ok[s]
          /\ to \in {"logged", "finishing", "finished"} => ok[s]
    <3>1. CASE LockCount(s) \/ Take(s) \/ Parse(s) \/ Forward(s)
      BY <3>1 DEF LockCount, Take, Parse, Forward, Step, SameCount, SessionPcs, Unreturned,
                  CountInv, EndingMatches
    <3>2. CASE Receive(s) \/ Timeout(s)
      BY <3>2 DEF Receive, Timeout, Miss, SameCount, SessionPcs, Unreturned
    <3>3. CASE Restore(s) \/ Rearm(s) \/ Finish(s)
      BY <3>3 DEF Restore, Rearm, Finish, Step, SameCount, SessionPcs, CountInv, EndingMatches
    <3> QED
      BY <1>6, <3>1, <3>2, <3>3
  <2>3. ok[s] \in BOOLEAN /\ ok' = [ok EXCEPT ![s] = ok[s]]
    BY <2>1
  <2>4. PICK to \in SessionPcs :
          /\ pc' = [pc EXCEPT ![s] = to]
          /\ SameCount(pc[s], to, ok[s])
          /\ to = "detached" => ~ok[s]
          /\ to \in {"logged", "finishing", "finished"} => ok[s]
    BY <2>2
  <2> HIDE DEF TypeOK, SessionTypeOK
  <2> QED
    BY <2>1, <2>3, <2>4, CountSame
<1>7. ASSUME NEW s \in Session, Transfer(s) PROVE CountInv'
  <2>1. PICK success \in BOOLEAN : ok' = [ok EXCEPT ![s] = success]
    BY <1>7 DEF Transfer
  <2>2. /\ pc' = [pc EXCEPT ![s] = "closing"] /\ pc[s] = "connected" /\ UNCHANGED numthrds
        /\ SameCount(pc[s], "closing", success)
    BY <1>7 DEF Transfer, Step, SameCount, poolVars
  <2> QED
    BY <2>1, <2>2, CountSame
<1>8. ASSUME NEW s \in Session, BrokenPipe(s) PROVE CountInv'
  BY <1>8, CountUnchanged DEF BrokenPipe, poolVars, sessionVars
<1>9. CASE UNCHANGED vars
  BY <1>9, CountUnchanged DEF vars, poolVars, sessionVars
<1> QED
  BY <1>1, <1>2, <1>3, <1>4, <1>5, <1>6, <1>7, <1>8, <1>9
  DEF Next, Environment, Listener, Own, Network

\* The four updates of numthrds (fts.c 281, 303, 774, 799) and nothing else make
\* up its value while the program serves, for any number of sessions: what a
\* session leaves behind when it fails is exactly one.
THEOREM Accounting == Spec => []NumthrdsAccounting
<1>1. CountInv => NumthrdsAccounting
  BY DEF CountInv, Total, NumthrdsAccounting
<1> QED
  BY <1>1, TypeCorrect, CountInit, CountStep, PTL DEF Spec

\* Every live session accounts for at least one in the counter.
LEMMA CounterCoversLive == TypeOK /\ CountInv => numthrds - 1 >= Cardinality(Live)
<1> SUFFICES ASSUME TypeOK, CountInv PROVE numthrds - 1 >= Cardinality(Live)
  OBVIOUS
<1>1. /\ Live \subseteq Born /\ Ended \subseteq Born
      /\ Live \cap Ended = {} /\ Closed \subseteq Counted
  BY DEF Live, Born, Counted, Closed, Ended
<1>2. Cardinality(Closed) <= Cardinality(Counted)
  BY <1>1, CountSets, FS_Subset
<1>3. IsFiniteSet(Live) /\ Cardinality(Live) \in Nat
  BY <1>1, CountSets, FS_Subset, FS_CardinalityType
<1>4. Cardinality(Live \cup Ended) = Cardinality(Live) + Cardinality(Ended)
  <2>1. Cardinality(Live \cap Ended) = 0
    BY <1>1, FS_EmptySet
  <2>2. Cardinality(Live \cup Ended)
          = Cardinality(Live) + Cardinality(Ended) - Cardinality(Live \cap Ended)
    BY <1>3, CountSets, FS_Union
  <2> QED
    BY <2>1, <2>2, <1>3, CountSets
<1>5. Cardinality(Live \cup Ended) <= Cardinality(Born)
  BY <1>1, CountSets, FS_Subset
<1> QED
  BY <1>2, <1>3, <1>4, <1>5, CountSets DEF CountInv, Total

\* What "status" prints (fts.c 177) is never less than the number of sessions
\* with work left, for any number of sessions.
THEOREM StatusCovers == Spec => StatusCoversLive
<1>1. TypeOK /\ CountInv /\ [Next]_vars => [StatusCount => shown' >= Cardinality(Live)]_vars
  BY CounterCoversLive DEF StatusCount
<1> QED
  BY <1>1, TypeCorrect, CountInit, CountStep, PTL DEF Spec, StatusCoversLive

-----------------------------------------------------------------------------
(* What exit leaves running.  The lock main takes for its joins is lost only *)
(* to a thread that was inside when main unlocked it at 157, or to Spawn.    *)

\* A step that leaves main, the handles and the lock alone keeps LeaveInv, as
\* long as no session becomes joinable by it.
LEMMA LeaveUnchanged ==
  ASSUME LeaveInv, UNCHANGED <<tids, lock, idx, mpc, slot, joined>>,
         \A s \in Session : Joinable(s)' => Joinable(s)
  PROVE  LeaveInv'
BY DEF LeaveInv

\* So does a step that takes the lock, or gives it back, and leaves main alone.
LEMMA LeaveLocked ==
  ASSUME LeaveInv, lock' # "main", UNCHANGED <<mpc, slot, joined>>
  PROVE  LeaveInv'
BY DEF LeaveInv

\* A session that moves from a state in which it runs makes none joinable.
LEMMA JoinableStep ==
  ASSUME TypeOK, NEW s \in Session, NEW to, pc' = [pc EXCEPT ![s] = to],
         pc[s] \notin {"unborn", "finished", "detached", "done"} \/ to = "done",
         UNCHANGED <<tids, idx>>
  PROVE  \A t \in Session : Joinable(t)' => Joinable(t)
<1>1. \A t \in Session : pc'[t] = IF t = s THEN to ELSE pc[t]
  BY DEF TypeOK, SessionTypeOK
<1> QED
  BY <1>1 DEF Joinable

\* Every step of a session keeps LeaveInv.
LEMMA LeaveSession ==
  ASSUME TypeOK, LeaveInv, NEW s \in Session, Own(s) \/ Network(s)
  PROVE  LeaveInv'
<1> USE ConstantFacts
<1>1. CASE LockCount(s) \/ Recount(s)
  <2>1. lock' # "main" /\ UNCHANGED <<mpc, slot, joined>>
    BY <1>1, PoolAssumption DEF LockCount, Recount, mainVars
  <2> QED
    BY <2>1, LeaveLocked
<1>2. CASE Take(s) \/ Parse(s) \/ Receive(s) \/ Timeout(s) \/ Restore(s) \/ Rearm(s)
            \/ Finish(s) \/ Network(s)
  <2>1. UNCHANGED <<tids, lock, idx, mpc, slot, joined>>
    BY <1>2 DEF Take, Parse, Receive, Timeout, Restore, Rearm, Finish, Network, Forward,
       Transfer, poolVars, mainVars
  <2>2. \/ UNCHANGED pc
        \/ \E to \in SessionPcs :
             /\ pc' = [pc EXCEPT ![s] = to]
             /\ pc[s] \notin {"unborn", "finished", "detached", "done"} \/ to = "done"
    BY <1>2 DEF Take, Parse, Receive, Timeout, Restore, Rearm, Finish, Network, Forward,
       Transfer, Miss, Step, SessionPcs, Unreturned
  <2>3. \A t \in Session : Joinable(t)' => Joinable(t)
    <3>1. CASE UNCHANGED pc
      BY <2>1, <3>1 DEF Joinable
    <3> QED
      BY <2>1, <2>2, <3>1, JoinableStep
  <2> QED
    BY <2>1, <2>3, LeaveUnchanged
<1> QED
  BY <1>1, <1>2 DEF Own

\* Past the join of a slot no joinable session is left in it.
LEMMA LeaveJoined ==
  ASSUME TypeOK, LeaveInv, mpc \in {"join0", "join"}, AfterJoin,
         UNCHANGED <<tids, lock, idx, pc>>, joined' = "none",
         lock = "main" => (tids[slot] \in Session => pc[tids[slot]] \in {"detached", "done"})
  PROVE  LeaveInv'
<1> USE ConstantFacts
<1>1. /\ idx \in [Session -> Sock] /\ slot \in 0 .. NumSockets
      /\ UNCHANGED pc
  BY DEF TypeOK, SessionTypeOK, MainTypeOK
<1>2. CASE mpc = "join0"
  BY <1>1, <1>2 DEF LeaveInv, AfterJoin
<1>3. CASE mpc = "join"
  <2>1. slot >= 1 /\ slot \in Nat /\ slot' = slot + 1
        /\ mpc' = (IF slot < NumSockets THEN "join" ELSE "exited")
    BY <1>1, <1>3 DEF LeaveInv, AfterJoin
  <2>2. ASSUME lock = "main", NEW s \in Session, Joinable(s)'
        PROVE  idx[s] \in Nat /\ idx[s] < NumSockets /\ idx[s] > slot
    <3>1. Joinable(s)
      BY <1>1, <2>2 DEF Joinable
    <3>2. idx[s] >= slot
      BY <1>3, <2>2, <3>1 DEF LeaveInv
    <3>3. idx[s] # slot
      BY <2>2, <3>1 DEF Joinable
    <3> QED
      BY <1>1, <2>1, <3>2, <3>3
  <2> QED
    BY <1>1, <1>3, <2>1, <2>2 DEF LeaveInv
<1> QED
  BY <1>2, <1>3

\* Every step of main keeps LeaveInv: the joins move past a slot only when its
\* last session has detached or ended, and the lock is taken before slot 1.
LEMMA LeaveMain == ASSUME TypeOK, LeaveInv, Main PROVE LeaveInv'
<1> USE ConstantFacts
<1>1. UNCHANGED <<tids, idx, pc>>
  BY DEF Main, MainExit, PromptOpens, StatusCount, StatusListener, Exit, JoinFails,
     JoinWaits, JoinReturns, StrayUnlock, Relock, poolVars, sessionVars
<1>2. \A s \in Session : Joinable(s)' => Joinable(s)
  BY <1>1 DEF Joinable
<1>3. CASE PromptOpens \/ StatusCount \/ StatusListener \/ Exit
  <2>1. /\ UNCHANGED <<lock, joined>> /\ lock # "main" /\ joined = "none"
        /\ mpc' \in {"prompt", "status", "join0"}
        /\ mpc' = "join0" => slot' = 0
    BY <1>3 DEF PromptOpens, StatusCount, StatusListener, Exit, poolVars, LeaveInv
  <2> QED
    BY <2>1 DEF LeaveInv
<1>4. CASE JoinFails
  <2>1. CASE mpc' = "crashed" /\ UNCHANGED slot
    BY <1>4, <2>1 DEF JoinFails, LeaveInv, poolVars
  <2>2. CASE AfterJoin /\ tids[slot] \in {"none", "listener"}
    BY <1>1, <1>4, <2>2, LeaveJoined DEF JoinFails, poolVars
  <2>3. CASE AfterJoin /\ tids[slot] \in Session /\ pc[tids[slot]] \in {"detached", "done"}
    BY <1>1, <1>4, <2>3, LeaveJoined DEF JoinFails, poolVars
  <2> QED
    BY <1>4, <2>1, <2>2, <2>3 DEF JoinFails
<1>5. CASE JoinWaits
  <2>1. UNCHANGED <<lock, mpc, slot>> /\ joined' = tids[slot] /\ mpc \in {"join0", "join"}
    BY <1>5 DEF JoinWaits, poolVars
  <2> QED
    BY <1>1, <1>2, <2>1 DEF LeaveInv
<1>6. CASE JoinReturns
  <2>1. mpc = "join" /\ lock = "main" => tids[slot] = joined
    BY <1>6 DEF JoinReturns, LeaveInv
  <2>2. lock = "main" => mpc = "join"
    BY <1>6 DEF JoinReturns, LeaveInv
  <2> QED
    BY <1>1, <1>6, <2>1, <2>2, LeaveJoined DEF JoinReturns, poolVars
<1>7. CASE StrayUnlock
  BY <1>7 DEF StrayUnlock, LeaveInv
<1>8. CASE Relock
  <2>1. /\ mpc' = "join" /\ slot' = 1 /\ slot = 1 /\ joined' = "none" /\ lock' = "main"
    BY <1>8 DEF Relock, LeaveInv
  <2>2. \A s \in Session : Joinable(s)' => idx'[s] >= 1
    BY <1>1 DEF Joinable, TypeOK, SessionTypeOK
  <2> QED
    BY <2>1, <2>2 DEF LeaveInv
<1> QED
  BY <1>3, <1>4, <1>5, <1>6, <1>7, <1>8 DEF Main, MainExit

\* Every step keeps LeaveInv.
LEMMA LeaveStep == TypeOK /\ LeaveInv /\ [Next]_vars => LeaveInv'
<1> SUFFICES ASSUME TypeOK, LeaveInv, [Next]_vars PROVE LeaveInv'
  OBVIOUS
<1>1. CASE Environment \/ UNCHANGED vars
  <2>1. UNCHANGED <<tids, lock, idx, mpc, slot, joined, pc>>
    BY <1>1 DEF Environment, RequestArrives, ReplyArrives, vars, poolVars, sessionVars, mainVars
  <2> QED
    BY <2>1, LeaveUnchanged DEF Joinable
<1>2. CASE Listener
  <2>1. CASE SpawnLock \/ \E s \in Session : Spawn(s)
    <3>1. lock' # "main" /\ UNCHANGED <<mpc, slot, joined>>
      BY <2>1 DEF SpawnLock, Spawn, mainVars
    <3> QED
      BY <3>1, LeaveLocked
  <2>2. CASE MakeSocket \/ MakeFails \/ Announce \/ BuildRead \/ BuildArm \/ Select
             \/ ScanRead \/ ScanTest \/ ScanReceive \/ ScanEmpty \/ ScanName \/ CheckReady
    <3>1. UNCHANGED <<tids, lock, idx, mpc, slot, joined, pc>>
      BY <2>2 DEF MakeSocket, MakeFails, Announce, BuildRead, BuildArm, Select, ScanRead,
         ScanTest, ScanReceive, ScanEmpty, ScanName, CheckReady, poolVars, sessionVars, mainVars
    <3> QED
      BY <3>1, LeaveUnchanged DEF Joinable
  <2> QED
    BY <1>2, <2>1, <2>2 DEF Listener
<1>3. ASSUME NEW s \in Session, BrokenPipe(s) PROVE LeaveInv'
  <2>1. /\ mpc' = "crashed"
        /\ UNCHANGED <<tids, lock, idx, slot, joined, pc>>
    BY <1>3 DEF BrokenPipe, poolVars, sessionVars
  <2> QED
    BY <2>1 DEF LeaveInv
<1> QED
  BY <1>1, <1>2, <1>3, LeaveSession, LeaveMain DEF Next

\* As long as nobody unlocks the mutex main holds through its joins, exit leaves
\* a session running only if it detached, lost its handle to the next session of
\* its slot, or was in slot 0 (fts.c 157-163).
THEOREM ExitLeavesOnlyThese == Spec => []ExitLeaves
<1>1. Init => LeaveInv
  BY DEF Init, LeaveInv
<1>2. LeaveInv => ExitLeaves
  BY DEF LeaveInv, ExitLeaves, Joinable, Live, Born
<1> QED
  BY <1>1, <1>2, TypeCorrect, LeaveStep, PTL DEF Spec

-----------------------------------------------------------------------------
(* Why no session goes back.                                               *)

\* The points of a session still to come, at most.
PointsLeft ==
  [unborn |-> 19, spawned |-> 18, counting |-> 17, counted |-> 16, taken |-> 15, sending |-> 14,
   waiting |-> 13, connected |-> 10, closing |-> 9, restoring |-> 8, restored |-> 7,
   uncounting |-> 6, closed |-> 5, logged |-> 4, finishing |-> 3, finished |-> 2, detached |-> 1,
   done |-> 0]

\* With the packets and time-outs it may still count while it waits.
SessionRank(s) == PointsLeft[pc[s]] - (IF pc[s] = "waiting" THEN fails[s] ELSE 0)

\* A session that moves comes closer to its end.
SessionsGoOn ==
  \A s \in Session : (pc'[s] # pc[s] \/ fails'[s] # fails[s]) => SessionRank(s)' < SessionRank(s)

\* The points as numbers.
LEMMA PointsAreNumbers ==
  ASSUME NEW q \in SessionPcs
  PROVE  PointsLeft[q] \in 0 .. 19
BY DEF PointsLeft, SessionPcs, Unreturned

\* A session that takes one of the steps from one point to another goes on.
LEMMA StepGoesOn ==
  ASSUME TypeOK, NEW s \in Session, NEW from, NEW to, Step(s, from, to), to # "waiting",
         PointsLeft[to] \in Int, PointsLeft[from] \in Int, PointsLeft[to] < PointsLeft[from],
         from # "waiting"
  PROVE  SessionRank(s)' < SessionRank(s) /\ \A t \in Session : t # s => pc'[t] = pc[t]
<1>1. /\ pc[s] = from /\ pc'[s] = to
      /\ \A t \in Session : t # s => pc'[t] = pc[t]
  BY DEF Step, TypeOK, SessionTypeOK
<1>2. SessionRank(s) = PointsLeft[from] - 0 /\ SessionRank(s)' = PointsLeft[to] - 0
  BY <1>1 DEF SessionRank
<1> QED
  BY <1>1, <1>2

\* The steps of a session but those of its wait.
LEMMA MovesGoOn ==
  ASSUME TypeOK, NEW s \in Session,
         \/ LockCount(s) \/ Recount(s) \/ Take(s) \/ Parse(s) \/ Transfer(s)
         \/ Restore(s) \/ Rearm(s) \/ Finish(s)
  PROVE  SessionRank(s)' < SessionRank(s) /\ \A t \in Session : t # s => pc'[t] = pc[t]
<1>1. CASE LockCount(s)
  <2>1. \/ Step(s, "spawned", "counting")
        \/ Step(s, "restored", "uncounting")
        \/ Step(s, "logged", "finishing")
    BY <1>1 DEF LockCount
  <2> QED
    BY <2>1, StepGoesOn DEF PointsLeft
<1>2. CASE Recount(s)
  <2>1. \/ Step(s, "counting", "counted")
        \/ Step(s, "uncounting", "closed")
        \/ Step(s, "finishing", "finished")
    BY <1>2 DEF Recount
  <2> QED
    BY <2>1, StepGoesOn DEF PointsLeft
<1>3. CASE Take(s) \/ Parse(s)
  <2>1. Step(s, "counted", "taken") \/ Step(s, "taken", "sending") \/ Step(s, "taken", "closing")
    BY <1>3 DEF Take, Parse
  <2> QED
    BY <2>1, StepGoesOn DEF PointsLeft
<1>4. CASE Transfer(s)
  <2>1. Step(s, "connected", "closing")
    BY <1>4 DEF Transfer
  <2> QED
    BY <2>1, StepGoesOn DEF PointsLeft
<1>5. CASE Restore(s) \/ Rearm(s)
  <2>1. Step(s, "closing", "restoring") \/ Step(s, "restoring", "restored")
    BY <1>5 DEF Restore, Rearm
  <2> QED
    BY <2>1, StepGoesOn DEF PointsLeft
<1>6. CASE Finish(s)
  <2>1. \/ Step(s, "closed", "detached") \/ Step(s, "detached", "done")
        \/ Step(s, "closed", "logged") \/ Step(s, "finished", "done")
    BY <1>6 DEF Finish
  <2> QED
    BY <2>1, StepGoesOn DEF PointsLeft
<1> QED
  BY <1>1, <1>2, <1>3, <1>4, <1>5, <1>6

\* What arrives while a session waits, or does not, is counted.
LEMMA WaitGoesOn ==
  ASSUME TypeOK, NEW s \in Session, Receive(s) \/ Timeout(s)
  PROVE  /\ SessionRank(s)' < SessionRank(s)
         /\ \A t \in Session : t # s => pc'[t] = pc[t] /\ fails'[t] = fails[t]
<1>1. pc[s] = "waiting" /\ fails[s] \in 0 .. 2
  BY DEF Receive, Timeout, TypeOK, SessionTypeOK
<1>2. pc \in [Session -> SessionPcs] /\ fails \in [Session -> 0 .. 3]
  BY DEF TypeOK, SessionTypeOK
<1>3. SessionRank(s) = 13 - fails[s]
  BY <1>1 DEF SessionRank, PointsLeft
<1>4. CASE Miss(s)
  <2>1. /\ fails'[s] = fails[s] + 1
        /\ pc'[s] = (IF fails[s] + 1 = 3 THEN "closing" ELSE "waiting")
        /\ \A t \in Session : t # s => pc'[t] = pc[t] /\ fails'[t] = fails[t]
    BY <1>2, <1>4 DEF Miss
  <2>2. SessionRank(s)' = IF fails[s] + 1 = 3 THEN 9 ELSE 13 - (fails[s] + 1)
    BY <1>1, <2>1 DEF SessionRank, PointsLeft
  <2> QED
    BY <1>1, <1>3, <2>1, <2>2
<1>5. CASE UNCHANGED fails /\ \E to \in {"connected", "closing"} : pc' = [pc EXCEPT ![s] = to]
  <2>1. pc'[s] \in {"connected", "closing"} /\ \A t \in Session : t # s => pc'[t] = pc[t]
    BY <1>2, <1>5
  <2>2. SessionRank(s)' \in {9, 10}
    BY <2>1 DEF SessionRank, PointsLeft
  <2> QED
    BY <1>1, <1>3, <1>5, <2>1, <2>2
<1> QED
  BY <1>4, <1>5 DEF Receive, Timeout

\* The listener starts a session, and a session asks the FSS.
LEMMA StartGoesOn ==
  ASSUME TypeOK, NEW s \in Session, Spawn(s) \/ Forward(s)
  PROVE  SessionRank(s)' < SessionRank(s) /\ \A t \in Session : t # s => pc'[t] = pc[t]
<1>1. pc \in [Session -> SessionPcs]
  BY DEF TypeOK, SessionTypeOK
<1>2. CASE Spawn(s)
  <2>1. /\ pc[s] = "unborn" /\ pc'[s] = "spawned"
        /\ \A t \in Session : t # s => pc'[t] = pc[t]
    BY <1>1, <1>2 DEF Spawn
  <2> QED
    BY <2>1 DEF SessionRank, PointsLeft
<1>3. CASE Forward(s)
  <2>1. /\ pc[s] = "sending" /\ pc'[s] = "waiting" /\ fails'[s] = fails[s]
        /\ \A t \in Session : t # s => pc'[t] = pc[t]
    BY <1>1, <1>3 DEF Forward, Step
  <2>2. fails[s] = 0
    BY <2>1 DEF TypeOK, SessionTypeOK, Unasked
  <2> QED
    BY <2>1, <2>2 DEF SessionRank, PointsLeft
<1> QED
  BY <1>2, <1>3

\* The steps of sessions, whatever they do to the counter of tries.
LEMMA SessionStepGoesOn ==
  ASSUME TypeOK, NEW s \in Session, Own(s) \/ Network(s) \/ Spawn(s)
  PROVE  SessionsGoOn
<1>1. SessionRank(s)' < SessionRank(s) /\ \A t \in Session : t # s => pc'[t] = pc[t]
  BY MovesGoOn, WaitGoesOn, StartGoesOn DEF Own, Network
<1>2. \A t \in Session : t # s => fails'[t] = fails[t]
  <2>1. fails \in [Session -> 0 .. 3]
    BY DEF TypeOK, SessionTypeOK
  <2>2. CASE Receive(s) \/ Timeout(s)
    BY <2>2, WaitGoesOn
  <2>3. CASE Rearm(s)
    BY <2>1, <2>3 DEF Rearm
  <2>4. CASE \/ LockCount(s) \/ Recount(s) \/ Take(s) \/ Parse(s) \/ Restore(s) \/ Finish(s)
             \/ Network(s) \/ Spawn(s)
    BY <2>4 DEF LockCount, Recount, Take, Parse, Restore, Finish, Network, Forward, Transfer, Spawn
  <2> QED
    BY <2>2, <2>3, <2>4 DEF Own
<1> QED
  BY <1>1, <1>2 DEF SessionsGoOn

\* Nobody else moves a session.
LEMMA OthersLeaveSessions ==
  ASSUME Environment \/ Listener \/ Main \/ (\E s \in Session : BrokenPipe(s)) \/ UNCHANGED vars
  PROVE  UNCHANGED <<pc, fails>> \/ \E s \in Session : Spawn(s)
<1>1. CASE Environment \/ (\E s \in Session : BrokenPipe(s)) \/ UNCHANGED vars
  BY <1>1 DEF Environment, RequestArrives, ReplyArrives, BrokenPipe, vars, sessionVars
<1>2. CASE Listener
  <2>1. CASE MakeSocket \/ MakeFails \/ Announce \/ BuildRead \/ BuildArm \/ Select
    BY <2>1 DEF MakeSocket, MakeFails, Announce, BuildRead, BuildArm, Select, sessionVars
  <2>2. CASE ScanRead \/ ScanTest \/ ScanReceive \/ ScanEmpty \/ ScanName \/ SpawnLock \/ CheckReady
    BY <2>2 DEF ScanRead, ScanTest, ScanReceive, ScanEmpty, ScanName, SpawnLock, CheckReady,
       sessionVars
  <2> QED
    BY <1>2, <2>1, <2>2 DEF Listener
<1>3. CASE Main
  <2>1. CASE PromptOpens \/ StatusCount \/ StatusListener \/ Exit
    BY <2>1 DEF PromptOpens, StatusCount, StatusListener, Exit, sessionVars
  <2>2. CASE MainExit
    BY <2>2 DEF MainExit, JoinFails, JoinWaits, JoinReturns, StrayUnlock, Relock, sessionVars
  <2> QED
    BY <1>3, <2>1, <2>2 DEF Main
<1> QED
  BY <1>1, <1>2, <1>3

\* The rank is bounded, by the same number for any size of the pool.
THEOREM SessionBounded == Spec => [](\A s \in Session : SessionRank(s) \in 0 .. 19)
<1>1. TypeOK => \A s \in Session : SessionRank(s) \in 0 .. 19
  <2> SUFFICES ASSUME TypeOK, NEW s \in Session PROVE SessionRank(s) \in 0 .. 19
    OBVIOUS
  <2>1. pc[s] \in SessionPcs /\ (pc[s] = "waiting" => fails[s] \in 0 .. 2)
    BY DEF TypeOK, SessionTypeOK
  <2>2. CASE pc[s] = "waiting"
    BY <2>1, <2>2 DEF SessionRank, PointsLeft
  <2>3. CASE pc[s] # "waiting"
    BY <2>1, <2>3, PointsAreNumbers DEF SessionRank
  <2> QED
    BY <2>2, <2>3
<1> QED
  BY <1>1, TypeCorrect, PTL

\* Whatever the listener, the prompt, the network and the other sessions do, a session never
\* goes back in transferSession, nor waits for a fourth packet or time-out (fts.c 492): with
\* SessionBounded, its thread takes at most 19 steps.
THEOREM SessionsOnlyGoOn == Spec => [][SessionsGoOn]_vars
<1>1. ASSUME TypeOK, [Next]_vars PROVE [SessionsGoOn]_vars
  <2>1. ASSUME NEW s \in Session, Own(s) \/ Network(s) \/ Spawn(s) PROVE SessionsGoOn
    BY <1>1, <2>1, SessionStepGoesOn
  <2>2. ASSUME UNCHANGED <<pc, fails>> PROVE SessionsGoOn
    BY <2>2 DEF SessionsGoOn
  <2> QED
    BY <1>1, <2>1, <2>2, OthersLeaveSessions DEF Next
<1> QED
  BY <1>1, TypeCorrect, PTL DEF Spec
=============================================================================
