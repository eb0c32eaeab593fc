------------------------ MODULE TradingServerProofs ------------------------
(***************************************************************************)
(* Proofs about TradingServer, for any set of clients and any size of an   *)
(* fd_set, whichever calls of Winsock fail and whenever SIGINT comes: a    *)
(* socket is open exactly while it stands in clients_, and the threads     *)
(* find Winsock up.                                                        *)
(*                                                                         *)
(* The argument: the two threads exist only between their creation and     *)
(* their join, so main alone runs when the count of startups falls; a      *)
(* thread that has a socket has it from a startup that succeeded; and      *)
(* clients_copy holds each socket once, so what one turn of the round      *)
(* closes is not met again in it.                                          *)
(***************************************************************************)
EXTENDS TradingServer, SequenceTheorems, FiniteSetTheorems, TLAPS

(* main has not called WSACleanup yet *)
Serving == main \notin {"~TcpServer", "~UdpMarketFeed", "exit"}

(* The TCP thread is past its WSAStartup and has not ended *)
TcpUp == tcp \notin {"none", "init", "returned"}

(* Which threads there are, by what main has done. *)
Threads ==
    /\ tcp = "none" <=> main \in {"boot", "init", "serve"}
    /\ udp = "none" <=> main \in {"boot", "init"}
    /\ main \notin {"boot", "init", "serve", "wait", "join tcp"} => tcp = "returned"
    /\ main \notin {"boot", "init", "serve", "wait", "join tcp", "join udp"} => udp = "returned"

(* A socket has a startup behind it that was not cleaned up yet: the       *)
(* feed's is main's own, the TCP thread's and its listening socket's that  *)
(* of TcpServer::initWinsock.                                              *)
Startups ==
    /\ main \in {"boot", "init"} => feed_sock = "invalid"
    /\ main = "boot" => wsa = 0
    /\ tcp \in {"none", "init"} => wsa # 2 /\ listen_fd_ = "invalid"
    /\ Serving /\ (TcpUp \/ feed_sock # "invalid" \/ listen_fd_ # "invalid") => wsa # 0
    /\ Serving /\ (TcpUp \/ listen_fd_ # "invalid") /\ feed_sock # "invalid" => wsa = 2
    /\ main = "~TcpServer" => wsa # 2
    /\ main = "~TcpServer" /\ feed_sock # "invalid" /\ listen_fd_ # "invalid" => wsa = 1
    /\ main \in {"~UdpMarketFeed", "exit"} => wsa = 0

(* Nothing is open without Winsock. *)
NeedsWinsock ==
    /\ feed_sock = "open" \/ listen_fd_ = "open" => wsa # 0
    /\ \A c \in Client : sock[c] \in {"backlog", "open"} => wsa # 0

(* One round of acceptLoop: the copy is walked in "serve" and "book" only, *)
(* and holds no socket twice.                                              *)
Round ==
    /\ IsInjective(todo)
    /\ todo # <<>> => tcp \in {"serve", "book"}

(* What ClientsAreOpen says of the list, also before Winsock was started. *)
Listed ==
    Serving \/ wsa # 0 =>
        /\ IsInjective(clients_)
        /\ \A c \in Client : Contains(clients_, c) <=> sock[c] = "open"
        /\ \A k \in DOMAIN todo : sock[todo[k]] = "open"

IInv == TypeOK /\ Threads /\ Startups /\ NeedsWinsock /\ Round /\ Listed

-----------------------------------------------------------------------------
(* Sequences *)

LEMMA UpTo ==
    ASSUME NEW k \in Nat
    PROVE  IsFiniteSet(1 .. k) /\ Cardinality(1 .. k) = k
<1>1. 1 \in Int /\ k \in Int
  OBVIOUS
<1>2. /\ IsFiniteSet(1 .. k)
      /\ Cardinality(1 .. k) = IF 1 > k THEN 0 ELSE k - 1 + 1
  BY <1>1, FS_Interval
<1> QED
  BY <1>2

LEMMA UpToBut ==
    ASSUME NEW k \in Nat, NEW n \in 1 .. k
    PROVE  Cardinality((1 .. k) \ {n}) = k - 1
<1>1. IsFiniteSet(1 .. k) /\ Cardinality(1 .. k) = k
  BY UpTo
<1>2. Cardinality((1 .. k) \ {n}) = Cardinality(1 .. k) - 1
  BY <1>1, FS_RemoveElement
<1> QED
  BY <1>1, <1>2

(* Erasing a socket that stands once in the list moves those behind it     *)
(* forward by one.                                                         *)
LEMMA WithoutOne ==
    ASSUME NEW S, NEW q \in Seq(S), NEW n \in 1 .. Len(q), IsInjective(q)
    PROVE  Without(q, q[n]) = [i \in 1 .. (Len(q) - 1) |-> IF i < n THEN q[i] ELSE q[i + 1]]
<1> DEFINE kept == {k \in DOMAIN q : q[k] # q[n]}
           before(k) == {j \in kept : j <= k}
           nth(i) == CHOOSE k \in kept : Cardinality(before(k)) = i
           pos(i) == IF i < n THEN i ELSE i + 1
<1>1. Len(q) \in Nat /\ DOMAIN q = 1 .. Len(q) /\ n \in Nat
  BY LenProperties
<1>2. kept = (1 .. Len(q)) \ {n}
  BY <1>1 DEF IsInjective
<1>3. Cardinality(kept) = Len(q) - 1
  BY <1>1, <1>2, UpToBut
<1>4. ASSUME NEW k \in kept
      PROVE  Cardinality(before(k)) = IF k < n THEN k ELSE k - 1
  <2>1. k \in Nat /\ k >= 1 /\ k <= Len(q) /\ k # n
    BY <1>1, <1>2
  <2>2. CASE k < n
    <3>1. before(k) = 1 .. k
      BY <1>1, <1>2, <2>1, <2>2
    <3> QED
      BY <2>1, <2>2, <3>1, UpTo
  <2>3. CASE k > n
    <3>1. before(k) = (1 .. k) \ {n}
      BY <1>1, <1>2, <2>1, <2>3
    <3>2. n \in 1 .. k
      BY <1>1, <2>1, <2>3
    <3>3. Cardinality(before(k)) = k - 1
      BY <2>1, <3>1, <3>2, UpToBut
    <3> QED
      BY <1>1, <2>1, <2>3, <3>3
  <2> QED
    BY <1>1, <2>1, <2>2, <2>3
<1>5. ASSUME NEW i \in 1 .. (Len(q) - 1)
      PROVE  nth(i) = pos(i)
  <2>1. pos(i) \in kept
    BY <1>1, <1>2
  <2>2. Cardinality(before(pos(i))) = i
    <3>1. Cardinality(before(pos(i))) = IF pos(i) < n THEN pos(i) ELSE pos(i) - 1
      BY <2>1, <1>4
    <3> QED
      BY <1>1, <3>1
  <2>3. ASSUME NEW k \in kept, Cardinality(before(k)) = i
        PROVE  k = pos(i)
    <3>1. i = IF k < n THEN k ELSE k - 1
      BY <1>4, <2>3
    <3>2. k \in Nat /\ k # n
      BY <1>1, <1>2
    <3> QED
      BY <1>1, <3>1, <3>2
  <2> HIDE DEF kept, before, pos
  <2> QED
    BY <2>1, <2>2, <2>3
<1>6. Without(q, q[n]) = [i \in 1 .. Cardinality(kept) |-> q[nth(i)]]
  BY DEF Without
<1> HIDE DEF nth, kept
<1>7. ASSUME NEW i \in 1 .. (Len(q) - 1)
      PROVE  q[nth(i)] = IF i < n THEN q[i] ELSE q[i + 1]
  <2>1. nth(i) = IF i < n THEN i ELSE i + 1
    BY <1>5
  <2> QED
    BY <2>1
<1> QED
  BY <1>3, <1>6, <1>7

LEMMA WithoutFacts ==
    ASSUME NEW S, NEW q \in Seq(S), NEW e, IsInjective(q), Contains(q, e)
    PROVE  /\ Without(q, e) \in Seq(S)
           /\ \A i : Contains(Without(q, e), i) <=> Contains(q, i) /\ i # e
           /\ IsInjective(Without(q, e))
<1>1. PICK n \in 1 .. Len(q) : q[n] = e
  BY DEF Contains
<1> DEFINE r == Without(q, e)
<1>2. Len(q) \in Nat /\ DOMAIN q = 1 .. Len(q) /\ \A k \in 1 .. Len(q) : q[k] \in S
  BY LenProperties, ElementOfSeq
<1>3. r = [i \in 1 .. (Len(q) - 1) |-> IF i < n THEN q[i] ELSE q[i + 1]]
  BY <1>1, WithoutOne
<1>4. /\ DOMAIN r = 1 .. (Len(q) - 1)
      /\ \A k \in 1 .. (Len(q) - 1) : r[k] = IF k < n THEN q[k] ELSE q[k + 1]
  BY <1>3
<1> HIDE DEF r
<1>5. r \in Seq(S) /\ Len(r) = Len(q) - 1
  <2>1. \A k \in 1 .. (Len(q) - 1) : (IF k < n THEN q[k] ELSE q[k + 1]) \in S
    BY <1>2
  <2>2. Len(q) - 1 \in Nat
    BY <1>2
  <2>3. r \in [1 .. (Len(q) - 1) -> S]
    BY <1>3, <2>1
  <2> QED
    BY <2>2, <2>3
<1>6. ASSUME NEW i
      PROVE  Contains(r, i) <=> Contains(q, i) /\ i # e
  <2>1. ASSUME Contains(r, i) PROVE Contains(q, i) /\ i # e
    BY <1>1, <1>2, <1>4, <1>5, <2>1 DEF Contains, IsInjective
  <2>2. ASSUME Contains(q, i), i # e PROVE Contains(r, i)
    <3>1. PICK k \in 1 .. Len(q) : q[k] = i
      BY <2>2 DEF Contains
    <3>2. CASE k < n
      BY <1>2, <1>4, <1>5, <3>1, <3>2 DEF Contains
    <3>3. CASE k > n
      <4>1. k - 1 \in 1 .. (Len(q) - 1) /\ r[k - 1] = i
        BY <1>2, <1>4, <3>1, <3>3
      <4> QED
        BY <1>5, <4>1 DEF Contains
    <3> QED
      BY <1>1, <1>2, <2>2, <3>1, <3>2, <3>3
  <2> QED
    BY <2>1, <2>2
<1>7. IsInjective(r)
  BY <1>2, <1>4, SMTT(40) DEF IsInjective
<1> QED
  BY <1>5, <1>6, <1>7 DEF r

LEMMA TailOf ==
    ASSUME NEW S, NEW q \in Seq(S), q # <<>>
    PROVE  /\ Tail(q) \in Seq(S) /\ Head(q) \in S
           /\ 1 \in DOMAIN q /\ q[1] = Head(q)
           /\ \A k \in DOMAIN Tail(q) : k + 1 \in DOMAIN q /\ Tail(q)[k] = q[k + 1]
           /\ IsInjective(q) => /\ IsInjective(Tail(q))
                                /\ \A k \in DOMAIN Tail(q) : Tail(q)[k] # Head(q)
<1>1. /\ Len(q) \in Nat /\ Len(q) >= 1 /\ DOMAIN q = 1 .. Len(q)
      /\ \A k \in 1 .. Len(q) : q[k] \in S
  BY LenProperties, ElementOfSeq, EmptySeq
<1>2. Head(q) = q[1] /\ Head(q) \in S
  BY <1>1, HeadTailProperties
<1>3. /\ Tail(q) \in Seq(S) /\ Len(Tail(q)) = Len(q) - 1
      /\ \A k \in 1 .. (Len(q) - 1) : Tail(q)[k] = q[k + 1]
  BY <1>1, HeadTailProperties
<1>4. DOMAIN Tail(q) = 1 .. (Len(q) - 1)
  BY <1>3, LenProperties
<1>5. IsInjective(q) => IsInjective(Tail(q))
  BY <1>1, <1>3, <1>4 DEF IsInjective
<1>6. ASSUME IsInjective(q), NEW k \in DOMAIN Tail(q)
      PROVE  Tail(q)[k] # Head(q)
  <2>1. k + 1 \in 1 .. Len(q) /\ k + 1 # 1 /\ 1 \in 1 .. Len(q)
    BY <1>1, <1>4
  <2>2. Tail(q)[k] = q[k + 1]
    BY <1>3, <1>4
  <2> QED
    BY <1>1, <1>2, <1>6, <2>1, <2>2 DEF IsInjective
<1> QED
  BY <1>1, <1>2, <1>3, <1>4, <1>5, <1>6

LEMMA AppendOf ==
    ASSUME NEW S, NEW q \in Seq(S), NEW e \in S
    PROVE  /\ Append(q, e) \in Seq(S)
           /\ \A i : Contains(Append(q, e), i) <=> Contains(q, i) \/ i = e
           /\ IsInjective(q) /\ ~Contains(q, e) => IsInjective(Append(q, e))
<1> DEFINE r == Append(q, e)
<1>1. /\ Len(q) \in Nat /\ DOMAIN q = 1 .. Len(q)
  BY LenProperties
<1>2. /\ r \in Seq(S) /\ Len(r) = Len(q) + 1
      /\ \A k \in 1 .. Len(q) : r[k] = q[k]
      /\ r[Len(q) + 1] = e
  BY AppendProperties
<1>3. DOMAIN r = 1 .. (Len(q) + 1)
  BY <1>2, LenProperties
<1> HIDE DEF r
<1>4. ASSUME NEW i PROVE Contains(r, i) <=> Contains(q, i) \/ i = e
  BY <1>1, <1>2 DEF Contains
<1>5. ASSUME IsInjective(q), ~Contains(q, e) PROVE IsInjective(r)
  BY <1>1, <1>2, <1>3, <1>5 DEF Contains, IsInjective
<1> QED
  BY <1>2, <1>4, <1>5 DEF r

-----------------------------------------------------------------------------
(* The invariant *)

LEMMA IInvInit == Init => IInv
<1> SUFFICES ASSUME Init PROVE IInv
  OBVIOUS
<1>1. /\ clients_ \in Seq(Client) /\ todo \in Seq(Client)
      /\ Len(clients_) = 0 /\ DOMAIN clients_ = {} /\ DOMAIN todo = {}
  BY EmptySeq DEF Init
<1>2. TypeOK
  <2>1. /\ {g_running, running_} \subseteq BOOLEAN
        /\ {feed_sock, listen_fd_} \subseteq {"invalid", "open", "closed"}
    BY DEF Init
  <2>2. /\ wsa \in 0 .. 2
        /\ main = "boot" /\ tcp = "none" /\ udp = "none"
    BY DEF Init
  <2>3. /\ sock \in [Client -> {"new", "backlog", "open", "closed"}]
        /\ peer \in [Client -> {"up", "hung up", "reset"}]
        /\ unread \subseteq Client /\ ready \subseteq Client
    BY DEF Init
  <2> QED
    BY <1>1, <2>1, <2>2, <2>3 DEF TypeOK
<1>3. Threads /\ Startups /\ NeedsWinsock
  BY DEF Init, Threads, Startups, NeedsWinsock, TcpUp
<1>4. Round /\ Listed
  BY <1>1 DEF Init, Round, Listed, Contains, IsInjective
<1> QED
  BY <1>2, <1>3, <1>4 DEF IInv

(* The count, as the values it can have *)
LEMMA Count == TypeOK => wsa \in {0, 1, 2}
<1> SUFFICES ASSUME TypeOK PROVE wsa \in {0, 1, 2}
  OBVIOUS
<1>1. wsa \in 0 .. 2
  BY DEF TypeOK
<1> QED
  BY <1>1

(* What stays when none of the invariant's variables but the flags moves. *)
LEMMA Unmoved ==
    ASSUME IInv,
           UNCHANGED <<wsa, feed_sock, listen_fd_, main, tcp, sock, clients_, todo>>
    PROVE  Startups' /\ NeedsWinsock' /\ Round' /\ Listed'
BY DEF IInv, Startups, NeedsWinsock, Round, Listed, Serving, TcpUp

-----------------------------------------------------------------------------
(* The main thread *)

(* WSACleanup counts down, and keeps a handle that was never valid. *)
LEMMA CleanUpCounts ==
    ASSUME IInv, NEW Freed, NEW listens, CleanUp(Freed, listens)
    PROVE  /\ wsa' \in {0, 1} /\ (wsa' = 1 <=> wsa = 2)
           /\ feed_sock' \in {"invalid", "open", "closed"}
           /\ listen_fd_' \in {"invalid", "open", "closed"}
           /\ feed_sock' = "invalid" <=> feed_sock = "invalid"
           /\ listen_fd_' = "invalid" <=> listen_fd_ = "invalid"
<1>1. wsa \in {0, 1, 2}
  BY Count DEF IInv
<1>2. wsa' = IF wsa > 0 THEN wsa - 1 ELSE 0
  BY DEF CleanUp
<1>3. wsa' \in {0, 1} /\ (wsa' = 1 <=> wsa = 2)
  BY <1>1, <1>2
<1>4. feed_sock \in {"invalid", "open", "closed"} /\ listen_fd_ \in {"invalid", "open", "closed"}
  BY DEF IInv, TypeOK
<1>5. /\ listen_fd_' = IF listen_fd_ = "open" /\ (listens \/ wsa = 1) THEN "closed" ELSE listen_fd_
      /\ feed_sock' = IF feed_sock = "open" /\ wsa = 1 THEN "closed" ELSE feed_sock
  BY DEF CleanUp
<1>6. /\ feed_sock' \in {"invalid", "open", "closed"}
      /\ feed_sock' = "invalid" <=> feed_sock = "invalid"
  BY <1>4, <1>5
<1>7. /\ listen_fd_' \in {"invalid", "open", "closed"}
      /\ listen_fd_' = "invalid" <=> listen_fd_ = "invalid"
  BY <1>4, <1>5
<1> QED
  BY <1>3, <1>6, <1>7

(* It closes everything when it is the last, and otherwise what it is told. *)
LEMMA CleanUpCloses ==
    ASSUME IInv, NEW Freed, NEW listens, CleanUp(Freed, listens)
    PROVE  /\ sock' \in [Client -> {"new", "backlog", "open", "closed"}]
           /\ unread' \subseteq Client /\ peer' \in [Client -> {"up", "hung up", "reset"}]
           /\ NeedsWinsock'
           /\ Freed = {} /\ wsa' # 0 => sock' = sock
<1>1. /\ NeedsWinsock
      /\ sock \in [Client -> {"new", "backlog", "open", "closed"}]
      /\ peer \in [Client -> {"up", "hung up", "reset"}]
      /\ unread \subseteq Client
  BY DEF IInv, TypeOK
<1>2. wsa' # 0 <=> wsa # 0 /\ wsa # 1
  <2>1. wsa \in {0, 1, 2} /\ wsa' \in {0, 1} /\ (wsa' = 1 <=> wsa = 2)
    BY CleanUpCounts, Count DEF IInv
  <2> QED
    BY <2>1
<1>3. /\ sock' = [c \in Client |->
                   IF c \in Freed \/ (wsa = 1 /\ sock[c] \in {"backlog", "open"})
                     THEN "closed" ELSE sock[c]]
      /\ unread' = {c \in unread : sock'[c] # "closed"}
      /\ peer' = peer
  BY DEF CleanUp
<1>4. \A c \in Client : sock'[c] = IF c \in Freed \/ (wsa = 1 /\ sock[c] \in {"backlog", "open"})
                                     THEN "closed" ELSE sock[c]
  BY <1>3
<1>5. sock' \in [Client -> {"new", "backlog", "open", "closed"}]
  BY <1>1, <1>3
<1>6. unread' \subseteq Client
  BY <1>1, <1>3
<1>7. NeedsWinsock'
  <2>1. feed_sock' = "open" \/ listen_fd_' = "open" => wsa' # 0
    <3>1. /\ feed_sock' = "open" => feed_sock = "open" /\ wsa # 1
          /\ listen_fd_' = "open" => listen_fd_ = "open" /\ wsa # 1
      BY DEF CleanUp
    <3> QED
      BY <1>1, <1>2, <3>1 DEF NeedsWinsock
  <2>2. ASSUME NEW c \in Client, sock'[c] \in {"backlog", "open"}
        PROVE  wsa' # 0
    <3>1. sock[c] \in {"backlog", "open"} /\ wsa # 1
      BY <1>4, <2>2
    <3> QED
      BY <1>1, <1>2, <3>1 DEF NeedsWinsock
  <2> QED
    BY <2>1, <2>2 DEF NeedsWinsock
<1>8. ASSUME Freed = {}, wsa' # 0
      PROVE  sock' = sock
  <2>1. \A c \in Client : sock'[c] = sock[c]
    BY <1>2, <1>4, <1>8
  <2>2. sock' = [c \in Client |-> sock'[c]] /\ sock = [c \in Client |-> sock[c]]
    BY <1>1, <1>5
  <2> QED
    BY <2>1, <2>2
<1> QED
  BY <1>1, <1>3, <1>5, <1>6, <1>7, <1>8

LEMMA MainCleanupPreserves == IInv /\ MainCleanup => IInv'
<1> SUFFICES ASSUME IInv, MainCleanup PROVE IInv'
  OBVIOUS
<1>1. /\ main = "cleanup" /\ main' = "~TcpServer"
      /\ UNCHANGED <<g_running, running_, tcp, udp, clients_, ready, todo>>
      /\ CleanUp({}, FALSE)
  BY DEF MainCleanup, loop
<1>2. /\ wsa' \in {0, 1} /\ (wsa' = 1 <=> wsa = 2)
      /\ feed_sock' \in {"invalid", "open", "closed"}
      /\ listen_fd_' \in {"invalid", "open", "closed"}
      /\ feed_sock' = "invalid" <=> feed_sock = "invalid"
      /\ listen_fd_' = "invalid" <=> listen_fd_ = "invalid"
  BY <1>1, CleanUpCounts
<1>3. /\ sock' \in [Client -> {"new", "backlog", "open", "closed"}]
      /\ unread' \subseteq Client /\ peer' \in [Client -> {"up", "hung up", "reset"}]
      /\ NeedsWinsock'
      /\ wsa' # 0 => sock' = sock
  BY <1>1, CleanUpCloses
<1>4. TypeOK /\ Threads /\ Startups /\ Round /\ Listed
  BY DEF IInv
<1>5. tcp = "returned" /\ udp = "returned" /\ Serving
  BY <1>1, <1>4 DEF Threads, Serving
<1>6. TypeOK'
  <2>1. wsa' \in 0 .. 2
    BY <1>2
  <2> QED
    BY <1>1, <1>2, <1>3, <1>4, <2>1 DEF TypeOK
<1>7. Threads'
  BY <1>1, <1>5 DEF Threads
<1>8. Startups'
  <2>1. feed_sock' # "invalid" /\ listen_fd_' # "invalid" => wsa' = 1
    BY <1>2, <1>4, <1>5 DEF Startups
  <2> QED
    BY <1>1, <1>2, <1>5, <2>1 DEF Startups, Serving
<1>9. Round'
  BY <1>1, <1>4 DEF Round
<1>10. Listed'
  BY <1>1, <1>3, <1>4, <1>5 DEF Listed, Serving
<1> QED
  BY <1>3, <1>6, <1>7, <1>8, <1>9, <1>10 DEF IInv

LEMMA DestroyTcpServerPreserves == IInv /\ DestroyTcpServer => IInv'
<1> SUFFICES ASSUME IInv, DestroyTcpServer PROVE IInv'
  OBVIOUS
<1>1. /\ main = "~TcpServer" /\ main' = "~UdpMarketFeed" /\ running_' = FALSE
      /\ UNCHANGED <<g_running, tcp, udp, clients_, ready, todo>>
      /\ CleanUp({c \in Client : Contains(clients_, c)}, TRUE)
  BY DEF DestroyTcpServer, loop
<1>2. /\ wsa' \in {0, 1} /\ (wsa' = 1 <=> wsa = 2)
      /\ feed_sock' \in {"invalid", "open", "closed"}
      /\ listen_fd_' \in {"invalid", "open", "closed"}
  BY <1>1, CleanUpCounts
<1>3. /\ sock' \in [Client -> {"new", "backlog", "open", "closed"}]
      /\ unread' \subseteq Client /\ peer' \in [Client -> {"up", "hung up", "reset"}]
      /\ NeedsWinsock'
  BY <1>1, CleanUpCloses
<1>4. TypeOK /\ Threads /\ Startups /\ Round
  BY DEF IInv
<1>5. tcp = "returned" /\ udp = "returned" /\ wsa' = 0
  BY <1>1, <1>2, <1>4 DEF Threads, Startups
<1>6. TypeOK'
  <2>1. wsa' \in 0 .. 2
    BY <1>5
  <2>2. {g_running', running_'} \subseteq BOOLEAN
    BY <1>1, <1>4 DEF TypeOK
  <2> QED
    BY <1>1, <1>2, <1>3, <1>4, <2>1, <2>2 DEF TypeOK
<1>7. Threads' /\ Startups'
  BY <1>1, <1>5 DEF Threads, Startups, Serving
<1>8. Round' /\ Listed'
  BY <1>1, <1>4, <1>5 DEF Round, Listed, Serving
<1> QED
  BY <1>3, <1>6, <1>7, <1>8 DEF IInv

LEMMA DestroyFeedPreserves == IInv /\ DestroyFeed => IInv'
<1> SUFFICES ASSUME IInv, DestroyFeed PROVE IInv'
  OBVIOUS
<1>1. /\ main = "~UdpMarketFeed" /\ main' = "exit"
      /\ feed_sock' \in {"invalid", "closed"}
      /\ UNCHANGED <<g_running, running_, wsa, listen_fd_, tcp, udp, sock, unread, peer,
                     clients_, ready, todo>>
  BY DEF DestroyFeed, net, loop
<1>2. TypeOK /\ Threads /\ Startups /\ NeedsWinsock /\ Round
  BY DEF IInv
<1>3. tcp = "returned" /\ udp = "returned" /\ wsa = 0
  BY <1>1, <1>2 DEF Threads, Startups
<1>4. TypeOK'
  BY <1>1, <1>2 DEF TypeOK
<1>5. Threads' /\ Startups'
  BY <1>1, <1>3 DEF Threads, Startups, Serving
<1>6. NeedsWinsock' /\ Round' /\ Listed'
  BY <1>1, <1>2, <1>3 DEF NeedsWinsock, Round, Listed, Serving
<1> QED
  BY <1>4, <1>5, <1>6 DEF IInv

(* Start-up: a call that fails leaves its count or its socket alone. *)
LEMMA MainStartsPreserve == IInv /\ (MainStartup \/ MainInitFeed) => IInv'
<1> SUFFICES ASSUME IInv, MainStartup \/ MainInitFeed PROVE IInv'
  OBVIOUS
<1>1. /\ UNCHANGED <<g_running, running_, listen_fd_, tcp, sock, unread, peer,
                     clients_, ready, todo>>
      /\ \/ main = "boot" /\ main' = "init"
         \/ main = "init" /\ main' = "serve"
  BY DEF MainStartup, MainInitFeed, net, loop
<1>2. TypeOK /\ Threads /\ Startups /\ NeedsWinsock /\ Round /\ Listed
  BY DEF IInv
<1>0. wsa \in {0, 1, 2}
  BY <1>2, Count
<1>3. tcp = "none" /\ listen_fd_ = "invalid" /\ wsa # 2
  BY <1>1, <1>2 DEF Threads, Startups
<1>4. /\ wsa' \in {0, 1} /\ (wsa # 0 => wsa' # 0)
      /\ feed_sock' \in {"invalid", "open"}
      /\ main' = "init" => feed_sock' = "invalid"
      /\ feed_sock' # "invalid" => wsa' # 0
  <2>1. CASE MainStartup
    <3>1. wsa = 0 /\ feed_sock = "invalid"
      BY <1>2, <2>1 DEF MainStartup, Startups
    <3> QED
      BY <2>1, <3>1 DEF MainStartup
  <2>2. CASE MainInitFeed
    <3>1. feed_sock = "invalid"
      BY <1>2, <2>2 DEF MainInitFeed, Startups
    <3>2. wsa > 0 => wsa # 0
      BY <1>0
    <3> QED
      BY <1>0, <1>3, <2>2, <3>1, <3>2 DEF MainInitFeed
  <2> QED
    BY <2>1, <2>2
<1>5. /\ udp' \in {"none", "test"}
      /\ udp' = "none" <=> main' = "init"
  BY <1>2 DEF MainStartup, MainInitFeed, Threads
<1>6. TypeOK'
  <2>0. wsa' \in 0 .. 2
    <3>1. wsa' \in {0, 1}
      BY <1>4
    <3> QED
      BY <3>1
  <2>1. {feed_sock', listen_fd_'} \subseteq {"invalid", "open", "closed"}
    BY <1>1, <1>3, <1>4
  <2> QED
    BY <1>1, <1>2, <1>5, <2>0, <2>1 DEF TypeOK
<1>7. Threads'
  BY <1>1, <1>3, <1>5 DEF Threads
<1>8. Startups'
  BY <1>1, <1>3, <1>4 DEF Startups, TcpUp
<1>9. NeedsWinsock'
  <2>1. ASSUME NEW c \in Client, sock'[c] \in {"backlog", "open"} PROVE wsa' # 0
    <3>1. wsa # 0
      BY <1>1, <1>2, <2>1 DEF NeedsWinsock
    <3> QED
      BY <1>3, <1>4, <3>1
  <2>2. feed_sock' = "open" \/ listen_fd_' = "open" => wsa' # 0
    BY <1>1, <1>3, <1>4
  <2> QED
    BY <2>1, <2>2 DEF NeedsWinsock
<1>10. Round' /\ Listed'
  BY <1>1, <1>2 DEF Round, Listed, Serving
<1> QED
  BY <1>6, <1>7, <1>8, <1>9, <1>10 DEF IInv

(* The steps between start-up and clean-up: creation, stop and the joins. *)
LEMMA MainWaitsPreserve ==
    ASSUME IInv, MainServe \/ MainStop \/ MainJoinTcp \/ MainJoinUdp
    PROVE  IInv'
<1>1. /\ UNCHANGED <<g_running, wsa, feed_sock, listen_fd_, udp, sock, unread, peer,
                     clients_, ready, todo>>
      /\ running_' \in {running_, FALSE}
      /\ \/ main = "serve" /\ main' = "wait" /\ tcp' = "init"
         \/ main = "wait" /\ main' = "join tcp" /\ tcp' = tcp
         \/ main = "join tcp" /\ main' = "join udp" /\ tcp = "returned" /\ tcp' = tcp
         \/ main = "join udp" /\ main' = "cleanup" /\ udp = "returned" /\ tcp' = tcp
  BY DEF MainServe, MainStop, MainJoinTcp, MainJoinUdp, shared, net, loop
<1>2. TypeOK /\ Threads /\ Startups /\ NeedsWinsock /\ Round /\ Listed
  BY DEF IInv
<1>3. tcp' = tcp \/ (tcp = "none" /\ tcp' = "init")
  BY <1>1, <1>2 DEF Threads
<1>4. TypeOK'
  <2>1. running_' \in BOOLEAN
    BY <1>1, <1>2 DEF TypeOK
  <2>2. /\ main' \in {"wait", "join tcp", "join udp", "cleanup"}
        /\ tcp' \in {"none", "init", "bind", "start", "test", "select", "accept",
                     "serve", "book", "returned"}
    BY <1>1, <1>2, <1>3 DEF TypeOK
  <2> QED
    BY <1>1, <1>2, <2>1, <2>2 DEF TypeOK
<1>5. Threads'
  BY <1>1, <1>2 DEF Threads
<1>6. Startups'
  BY <1>1, <1>2, <1>3 DEF Startups, Serving, TcpUp
<1>7. NeedsWinsock'
  BY <1>1, <1>2 DEF NeedsWinsock
<1>8. Round'
  BY <1>1, <1>2, <1>3 DEF Round
<1>9. Listed'
  BY <1>1, <1>2 DEF Listed, Serving
<1> QED
  BY <1>4, <1>5, <1>6, <1>7, <1>8, <1>9 DEF IInv

LEMMA MainPreserves == IInv /\ Main => IInv'
BY MainStartsPreserve, MainWaitsPreserve, MainCleanupPreserves,
   DestroyTcpServerPreserves, DestroyFeedPreserves DEF Main

-----------------------------------------------------------------------------
(* The UDP thread, SIGINT and the clients *)

(* The UDP thread and SIGINT touch no socket and no startup. *)
LEMMA UdpPreserves == IInv /\ (Udp \/ SignalHandler) => IInv'
<1> SUFFICES ASSUME IInv, Udp \/ SignalHandler PROVE IInv'
  OBVIOUS
<1>1. /\ UNCHANGED <<running_, wsa, feed_sock, listen_fd_, main, tcp>>
      /\ UNCHANGED <<sock, unread, peer, clients_, ready, todo>>
  BY DEF Udp, UdpTest, UdpBroadcast, SignalHandler, shared, net, loop
<1>2. TypeOK /\ Threads
  BY DEF IInv
<1>3. /\ g_running' \in BOOLEAN
      /\ udp' \in {"none", "test", "book", "returned"}
      /\ udp' = "none" <=> udp = "none"
      /\ udp = "returned" => udp' = "returned"
  BY <1>2 DEF Udp, UdpTest, UdpBroadcast, SignalHandler, shared, net, loop, TypeOK
<1>4. TypeOK'
  BY <1>1, <1>2, <1>3 DEF TypeOK
<1>5. Threads'
  BY <1>1, <1>2, <1>3 DEF Threads
<1> QED
  BY <1>1, <1>4, <1>5, Unmoved DEF IInv

(* The clients: none of them makes or ends a connection that the server    *)
(* has taken.                                                              *)
LEMMA ClientPreserves ==
    ASSUME IInv, NEW c \in Client, Connect(c) \/ Send(c) \/ HangUp(c) \/ Reset(c)
    PROVE  IInv'
<1>1. UNCHANGED <<g_running, running_, wsa, feed_sock, listen_fd_, main, tcp, udp,
                  clients_, ready, todo>>
  BY DEF Connect, Send, HangUp, Reset, shared, loop
<1>2. TypeOK /\ Threads /\ Startups /\ NeedsWinsock /\ Round /\ Listed
  BY DEF IInv
<1>3. /\ sock' \in [Client -> {"new", "backlog", "open", "closed"}]
      /\ peer' \in [Client -> {"up", "hung up", "reset"}]
      /\ unread' \subseteq Client
      /\ \A d \in Client : sock'[d] = "open" <=> sock[d] = "open"
      /\ \A d \in Client : sock'[d] = sock[d] \/ listen_fd_ = "open"
  BY <1>2 DEF Connect, Send, HangUp, Reset, TypeOK
<1>4. TypeOK'
  BY <1>1, <1>2, <1>3 DEF TypeOK
<1>5. (Threads /\ Startups /\ Round)'
  BY <1>1, <1>2 DEF Threads, Startups, Round, Serving, TcpUp
<1>6. NeedsWinsock'
  BY <1>1, <1>2, <1>3 DEF NeedsWinsock
<1>7. Listed'
  <2>1. \A k \in DOMAIN todo : todo[k] \in Client
    <3>1. todo \in Seq(Client)
      BY <1>2 DEF TypeOK
    <3> QED
      BY <3>1, LenProperties, ElementOfSeq
  <2>2. ASSUME Serving \/ wsa # 0
        PROVE  /\ IsInjective(clients_)
               /\ \A d \in Client : Contains(clients_, d) <=> sock'[d] = "open"
               /\ \A k \in DOMAIN todo : sock'[todo[k]] = "open"
    BY <1>2, <1>3, <2>1, <2>2 DEF Listed
  <2> QED
    BY <1>1, <2>2 DEF Listed, Serving
<1> QED
  BY <1>4, <1>5, <1>6, <1>7 DEF IInv

-----------------------------------------------------------------------------
(* The TCP thread *)

(* It runs only while main has it: the destructors are still to come.      *)
LEMMA TcpRuns ==
    ASSUME IInv, tcp \notin {"none", "returned"}
    PROVE  /\ main \in {"wait", "join tcp"} /\ Serving
           /\ tcp # "init" => TcpUp /\ wsa # 0
<1>1. main \in {"wait", "join tcp"}
  BY DEF IInv, TypeOK, Threads
<1>2. Startups
  BY DEF IInv
<1> QED
  BY <1>1, <1>2 DEF Startups, Serving, TcpUp

(* A step of the thread once Winsock is up, whatever it does with its      *)
(* sockets, keeps the threads and the startups.                            *)
LEMMA TcpUpKeeps ==
    ASSUME IInv, tcp \notin {"none", "init", "returned"},
           tcp' \notin {"none", "init"},
           UNCHANGED <<wsa, feed_sock, main, udp>>
    PROVE  Threads' /\ Startups'
<1>1. main \in {"wait", "join tcp"} /\ TcpUp /\ Serving
  BY TcpRuns
<1>2. Threads /\ Startups
  BY DEF IInv
<1>3. Threads'
  BY <1>1, <1>2 DEF Threads
<1>4. Startups'
  BY <1>1, <1>2 DEF Startups, Serving, TcpUp
<1> QED
  BY <1>3, <1>4

LEMMA TcpInitPreserves == IInv /\ TcpInit => IInv'
<1> SUFFICES ASSUME IInv, TcpInit PROVE IInv'
  OBVIOUS
<1>1. /\ tcp = "init"
      /\ \/ wsa' = wsa + 1 /\ tcp' = "bind"
         \/ wsa' = wsa /\ tcp' = "returned"
      /\ UNCHANGED <<g_running, running_, feed_sock, listen_fd_, main, udp, sock, unread, peer,
                     clients_, ready, todo>>
  BY DEF TcpInit, net, loop
<1>2. TypeOK /\ Threads /\ Startups /\ NeedsWinsock /\ Round /\ Listed
  BY DEF IInv
<1>3. /\ main \in {"wait", "join tcp"} /\ Serving
      /\ wsa # 2 /\ listen_fd_ = "invalid"
      /\ feed_sock # "invalid" => wsa # 0
  <2>1. main \in {"wait", "join tcp"} /\ Serving
    BY <1>1, TcpRuns
  <2> QED
    BY <1>1, <1>2, <2>1 DEF Startups
<1>4. /\ wsa' \in 0 .. 2
      /\ wsa # 0 => wsa' # 0
      /\ tcp' = "bind" => wsa' # 0 /\ (wsa # 0 => wsa' = 2)
  <2>1. wsa \in {0, 1}
    BY <1>2, <1>3, Count
  <2>2. \/ wsa' = wsa + 1
        \/ wsa' = wsa /\ tcp' = "returned"
    BY <1>1
  <2> QED
    BY <2>1, <2>2
<1>5. TypeOK'
  BY <1>1, <1>2, <1>4 DEF TypeOK
<1>6. Threads'
  BY <1>1, <1>2, <1>3 DEF Threads
<1>7. Startups'
  BY <1>1, <1>3, <1>4 DEF Startups, Serving, TcpUp
<1>8. NeedsWinsock'
  <2>1. ASSUME NEW c \in Client, sock'[c] \in {"backlog", "open"} PROVE wsa' # 0
    <3>1. wsa # 0
      BY <1>1, <1>2, <2>1 DEF NeedsWinsock
    <3> QED
      BY <1>3, <1>4, <3>1
  <2>2. feed_sock' = "open" \/ listen_fd_' = "open" => wsa' # 0
    BY <1>1, <1>3, <1>4
  <2> QED
    BY <2>1, <2>2 DEF NeedsWinsock
<1>9. Round' /\ Listed'
  BY <1>1, <1>2, <1>3 DEF Round, Listed, Serving
<1> QED
  BY <1>5, <1>6, <1>7, <1>8, <1>9 DEF IInv

(* The steps that leave the connections alone. *)
LEMMA TcpQuietPreserves ==
    ASSUME IInv, TcpBind \/ TcpStart \/ TcpTest \/ TcpProcessed \/ TcpRoundDone
    PROVE  IInv'
<1> USE DEF shared, net, loop
<1>1. /\ tcp \notin {"none", "init", "returned"}
      /\ tcp' \in {"start", "test", "select", "serve", "returned"}
      /\ UNCHANGED <<g_running, wsa, feed_sock, main, udp, sock, unread, peer, clients_, todo>>
      /\ listen_fd_' \in {listen_fd_, "open"}
      /\ ready' \in {ready, {}}
  BY DEF TcpBind, TcpStart, TcpTest, TcpProcessed, TcpRoundDone
<1>2. main \in {"wait", "join tcp"} /\ Serving /\ wsa # 0
  BY <1>1, TcpRuns
<1>3. TypeOK /\ NeedsWinsock /\ Round /\ Listed
  BY DEF IInv
<1>4. TypeOK'
  <2>1. running_' \in BOOLEAN
    BY <1>3 DEF TcpBind, TcpStart, TcpTest, TcpProcessed, TcpRoundDone, TypeOK
  <2>2. {feed_sock', listen_fd_'} \subseteq {"invalid", "open", "closed"} /\ ready' \subseteq Client
    BY <1>1, <1>3 DEF TypeOK
  <2> QED
    BY <1>1, <1>3, <2>1, <2>2 DEF TypeOK
<1>5. Threads' /\ Startups'
  BY <1>1, TcpUpKeeps
<1>6. NeedsWinsock'
  BY <1>1, <1>2, <1>3 DEF NeedsWinsock
<1>7. Round'
  <2>1. todo # <<>> => tcp' = "serve"
    BY <1>3 DEF TcpBind, TcpStart, TcpTest, TcpProcessed, TcpRoundDone, Round
  <2> QED
    BY <1>1, <1>3, <2>1 DEF Round
<1>8. Listed'
  BY <1>1, <1>2, <1>3 DEF Listed, Serving
<1> QED
  BY <1>4, <1>5, <1>6, <1>7, <1>8 DEF IInv

(* The copy that is walked holds what is open, each socket once. *)
LEMMA CopyIsOpen ==
    ASSUME NEW q \in Seq(Client),
           NEW open \in SUBSET Client,
           \A d \in Client : Contains(q, d) <=> d \in open
    PROVE  \A k \in DOMAIN q : q[k] \in open
<1>1. DOMAIN q = 1 .. Len(q) /\ \A k \in 1 .. Len(q) : q[k] \in Client
  BY LenProperties, ElementOfSeq
<1>2. ASSUME NEW k \in DOMAIN q PROVE q[k] \in open
  <2>1. q[k] \in Client /\ Contains(q, q[k])
    BY <1>1 DEF Contains
  <2> QED
    BY <2>1
<1> QED
  BY <1>2

LEMMA SelectPreserves == IInv /\ TcpSelect => IInv'
<1> SUFFICES ASSUME IInv, TcpSelect PROVE IInv'
  OBVIOUS
<1>1. /\ tcp = "select" /\ tcp' \in {"test", "accept", "serve", "returned"}
      /\ UNCHANGED <<g_running, running_, wsa, feed_sock, listen_fd_, main, udp,
                     sock, unread, peer, clients_>>
      /\ ready' \in {{}, Readable}
      /\ todo' = todo \/ (tcp' = "serve" /\ todo' = clients_)
  BY DEF TcpSelect, shared, net
<1>2. TypeOK /\ NeedsWinsock /\ Round /\ Listed
  BY DEF IInv
<1>3. main \in {"wait", "join tcp"} /\ Serving
  BY <1>1, TcpRuns
<1>4. /\ clients_ \in Seq(Client) /\ IsInjective(clients_)
      /\ \A d \in Client : Contains(clients_, d) <=> sock[d] = "open"
  BY <1>2, <1>3 DEF TypeOK, Listed
<1>5. todo = <<>> /\ todo \in Seq(Client) /\ IsInjective(todo) /\ DOMAIN todo = {}
  <2>1. todo = <<>>
    BY <1>1, <1>2 DEF Round
  <2>2. todo \in Seq(Client) /\ IsInjective(todo)
    BY <1>2 DEF TypeOK, Round
  <2> QED
    BY <2>1, <2>2, EmptySeq
<1>6. ready' \subseteq Client
  <2>1. Len(clients_) \in Nat /\ \A k \in 1 .. Len(clients_) : clients_[k] \in Client
    BY <1>4, LenProperties, ElementOfSeq
  <2>2. Watched \subseteq Client
    BY <2>1, ServerAssumption DEF Watched
  <2> QED
    BY <1>1, <2>2 DEF Readable
<1>7. \A k \in DOMAIN clients_ : sock[clients_[k]] = "open"
  <2> DEFINE open == {d \in Client : sock[d] = "open"}
  <2>1. open \in SUBSET Client /\ \A d \in Client : Contains(clients_, d) <=> d \in open
    BY <1>4
  <2> HIDE DEF open
  <2>2. \A k \in DOMAIN clients_ : clients_[k] \in open
    BY <1>4, <2>1, CopyIsOpen
  <2> QED
    BY <2>2 DEF open
<1>8. TypeOK'
  <2>1. todo' \in Seq(Client)
    BY <1>1, <1>4, <1>5
  <2> QED
    BY <1>1, <1>2, <1>6, <2>1 DEF TypeOK
<1>9. Threads' /\ Startups'
  BY <1>1, TcpUpKeeps
<1>10. NeedsWinsock'
  BY <1>1, <1>2 DEF NeedsWinsock
<1>11. Round'
  BY <1>1, <1>4, <1>5 DEF Round
<1>12. Listed'
  BY <1>1, <1>4, <1>5, <1>7 DEF Listed
<1> QED
  BY <1>8, <1>9, <1>10, <1>11, <1>12 DEF IInv

(* accept takes a connection that is not in the list yet, as it is not     *)
(* open, or takes none; the copy made after it holds what is open.         *)
LEMMA AcceptPreserves ==
    ASSUME IInv, TcpAccept
    PROVE  IInv'
<1>1. /\ UNCHANGED <<g_running, running_, wsa, feed_sock, listen_fd_, main, udp>>
      /\ UNCHANGED <<peer, ready>>
      /\ tcp = "accept" /\ tcp' = "serve" /\ todo' = clients_'
  BY DEF TcpAccept, shared
<1>2. TypeOK /\ NeedsWinsock /\ Listed
  BY DEF IInv
<1>3. main \in {"wait", "join tcp"} /\ Serving /\ wsa # 0
  BY <1>1, TcpRuns
<1>4. /\ clients_ \in Seq(Client) /\ IsInjective(clients_)
      /\ sock \in [Client -> {"new", "backlog", "open", "closed"}] /\ unread \subseteq Client
      /\ \A d \in Client : Contains(clients_, d) <=> sock[d] = "open"
  BY <1>2, <1>3 DEF TypeOK, Listed
<1> DEFINE Taken == /\ clients_' \in Seq(Client) /\ IsInjective(clients_')
                    /\ unread' \subseteq Client
                    /\ sock' \in [Client -> {"new", "backlog", "open", "closed"}]
                    /\ \A d \in Client : Contains(clients_', d) <=> sock'[d] = "open"
<1>5. Taken
  <2>1. CASE UNCHANGED <<sock, unread, clients_>>
    BY <1>4, <2>1
  <2>2. ASSUME NEW c \in Knocking, UNCHANGED unread,
               sock' = [sock EXCEPT ![c] = "open"], clients_' = Append(clients_, c)
        PROVE  Taken
    <3>1. c \in Client /\ sock[c] # "open" /\ ~Contains(clients_, c)
      BY <1>4 DEF Knocking
    <3>2. /\ Append(clients_, c) \in Seq(Client)
          /\ \A i : Contains(Append(clients_, c), i) <=> Contains(clients_, i) \/ i = c
          /\ IsInjective(Append(clients_, c))
      BY <1>4, <3>1, AppendOf
    <3>3. sock' \in [Client -> {"new", "backlog", "open", "closed"}]
      BY <1>4, <2>2
    <3>4. ASSUME NEW d \in Client
          PROVE  Contains(clients_', d) <=> sock'[d] = "open"
      <4>1. Contains(clients_', d) <=> Contains(clients_, d) \/ d = c
        BY <2>2, <3>2
      <4>2. sock'[d] = IF d = c THEN "open" ELSE sock[d]
        BY <1>4, <2>2
      <4> QED
        BY <1>4, <4>1, <4>2
    <3> QED
      BY <1>4, <2>2, <3>2, <3>3, <3>4
  <2>3. ASSUME NEW c \in Knocking, UNCHANGED clients_,
               sock' = [sock EXCEPT ![c] = "closed"], unread' = unread \ {c}
        PROVE  Taken
    <3>1. c \in Client /\ sock[c] # "open"
      BY DEF Knocking
    <3>2. sock' \in [Client -> {"new", "backlog", "open", "closed"}]
      BY <1>4, <2>3
    <3>3. \A d \in Client : sock'[d] = "open" <=> sock[d] = "open"
      BY <1>4, <2>3, <3>1
    <3> QED
      BY <1>4, <2>3, <3>2, <3>3
  <2> HIDE DEF Taken
  <2>4. \/ \E c \in Knocking : /\ UNCHANGED unread /\ sock' = [sock EXCEPT ![c] = "open"]
                               /\ clients_' = Append(clients_, c)
        \/ \E c \in Knocking : /\ UNCHANGED clients_ /\ sock' = [sock EXCEPT ![c] = "closed"]
                               /\ unread' = unread \ {c}
        \/ UNCHANGED <<sock, unread, clients_>>
    BY DEF TcpAccept
  <2> QED
    BY <2>1, <2>2, <2>3, <2>4
<1>6. /\ todo' \in Seq(Client)
      /\ \A k \in DOMAIN todo' : sock'[todo'[k]] = "open"
  <2> DEFINE open == {d \in Client : sock'[d] = "open"}
  <2>1. open \in SUBSET Client /\ \A d \in Client : Contains(clients_', d) <=> d \in open
    BY <1>5
  <2> HIDE DEF open
  <2>2. \A k \in DOMAIN clients_' : clients_'[k] \in open
    BY <1>5, <2>1, CopyIsOpen
  <2> QED
    BY <1>1, <1>5, <2>2 DEF open
<1>7. TypeOK'
  BY <1>1, <1>2, <1>5, <1>6 DEF TypeOK
<1>8. Threads' /\ Startups'
  BY <1>1, TcpUpKeeps
<1>9. NeedsWinsock' /\ Round'
  BY <1>1, <1>3, <1>5 DEF NeedsWinsock, Round
<1>10. Listed'
  BY <1>1, <1>5, <1>6 DEF Listed
<1> QED
  BY <1>7, <1>8, <1>9, <1>10 DEF IInv

(* The next socket of the copy is open; when it is closed, it leaves the   *)
(* list, and the rest of the copy does not name it.                        *)
LEMMA ServePreserves ==
    ASSUME IInv, TcpServe
    PROVE  IInv'
<1> DEFINE c == Head(todo)
<1>1. /\ UNCHANGED <<g_running, running_, wsa, feed_sock, listen_fd_, main, udp>>
      /\ UNCHANGED <<peer, ready>>
      /\ tcp = "serve" /\ tcp' \in {"serve", "book"}
      /\ todo # <<>> /\ todo' = Tail(todo)
  BY DEF TcpServe, shared
<1>2. TypeOK /\ NeedsWinsock /\ Listed /\ Round
  BY DEF IInv
<1>3. main \in {"wait", "join tcp"} /\ Serving /\ wsa # 0
  BY <1>1, TcpRuns
<1>4. /\ clients_ \in Seq(Client) /\ IsInjective(clients_)
      /\ todo \in Seq(Client) /\ IsInjective(todo)
      /\ sock \in [Client -> {"new", "backlog", "open", "closed"}] /\ unread \subseteq Client
      /\ \A d \in Client : Contains(clients_, d) <=> sock[d] = "open"
      /\ \A k \in DOMAIN todo : sock[todo[k]] = "open"
  BY <1>2, <1>3, Zenon DEF TypeOK, Listed, Round
<1>5. /\ todo' \in Seq(Client) /\ IsInjective(todo')
      /\ c \in Client /\ sock[c] = "open" /\ Contains(clients_, c)
      /\ \A k \in DOMAIN todo' : sock[todo'[k]] = "open" /\ todo'[k] # c /\ todo'[k] \in Client
  <2>1. /\ Tail(todo) \in Seq(Client) /\ Head(todo) \in Client
        /\ 1 \in DOMAIN todo /\ todo[1] = Head(todo)
        /\ \A k \in DOMAIN Tail(todo) : k + 1 \in DOMAIN todo /\ Tail(todo)[k] = todo[k + 1]
        /\ IsInjective(todo) => /\ IsInjective(Tail(todo))
                                /\ \A k \in DOMAIN Tail(todo) : Tail(todo)[k] # Head(todo)
    BY <1>1, <1>4, TailOf
  <2>2. \A k \in DOMAIN todo : todo[k] \in Client
    BY <1>4, LenProperties, ElementOfSeq
  <2>3. sock[c] = "open" /\ Contains(clients_, c)
    BY <1>4, <2>1
  <2>4. ASSUME NEW k \in DOMAIN Tail(todo)
        PROVE  sock[Tail(todo)[k]] = "open" /\ Tail(todo)[k] # c /\ Tail(todo)[k] \in Client
    BY <1>4, <2>1, <2>2
  <2> QED
    BY <1>1, <1>4, <2>1, <2>3, <2>4
<1> HIDE DEF c
<1>6. /\ unread' \in {unread, unread \ {c}}
      /\ \/ UNCHANGED <<sock, clients_>>
         \/ /\ sock' = [sock EXCEPT ![c] = "closed"]
            /\ clients_' = Without(clients_, c)
  BY DEF TcpServe, c
<1>7. /\ clients_' \in Seq(Client) /\ IsInjective(clients_')
      /\ sock' \in [Client -> {"new", "backlog", "open", "closed"}]
      /\ \A d \in Client : Contains(clients_', d) <=> sock'[d] = "open"
      /\ \A k \in DOMAIN todo' : sock'[todo'[k]] = "open"
  <2>1. CASE UNCHANGED <<sock, clients_>>
    BY <1>4, <1>5, <2>1
  <2>2. CASE sock' = [sock EXCEPT ![c] = "closed"] /\ clients_' = Without(clients_, c)
    <3>1. /\ Without(clients_, c) \in Seq(Client)
          /\ \A i : Contains(Without(clients_, c), i) <=> Contains(clients_, i) /\ i # c
          /\ IsInjective(Without(clients_, c))
      BY <1>4, <1>5, WithoutFacts
    <3>2. \A d \in Client : sock'[d] = IF d = c THEN "closed" ELSE sock[d]
      BY <1>4, <2>2
    <3>3. ASSUME NEW d \in Client PROVE Contains(clients_', d) <=> sock'[d] = "open"
      <4>1. Contains(clients_', d) <=> Contains(clients_, d) /\ d # c
        BY <2>2, <3>1
      <4> QED
        BY <1>4, <3>2, <4>1
    <3>4. \A k \in DOMAIN todo' : sock'[todo'[k]] = "open"
      BY <1>5, <3>2
    <3>5. sock' \in [Client -> {"new", "backlog", "open", "closed"}]
      BY <1>4, <2>2
    <3> QED
      BY <2>2, <3>1, <3>3, <3>4, <3>5
  <2> QED
    BY <1>6, <2>1, <2>2
<1>8. TypeOK'
  <2>1. unread' \subseteq Client
    BY <1>4, <1>6
  <2> QED
    BY <1>1, <1>2, <1>5, <1>7, <2>1 DEF TypeOK
<1>9. Threads' /\ Startups'
  BY <1>1, TcpUpKeeps
<1>10. NeedsWinsock' /\ Round'
  BY <1>1, <1>3, <1>5 DEF NeedsWinsock, Round
<1>11. Listed'
  BY <1>1, <1>7 DEF Listed
<1> QED
  BY <1>8, <1>9, <1>10, <1>11 DEF IInv

LEMMA IInvNext == IInv /\ [Next]_vars => IInv'
<1> SUFFICES ASSUME IInv, [Next]_vars PROVE IInv'
  OBVIOUS
<1>1. CASE Main
  BY <1>1, MainPreserves
<1>2. CASE Udp \/ SignalHandler
  BY <1>2, UdpPreserves
<1>3. CASE Tcp
  BY <1>3, TcpInitPreserves, TcpQuietPreserves, SelectPreserves, AcceptPreserves,
     ServePreserves DEF Tcp
<1>4. CASE \E c \in Client : Connect(c) \/ Send(c) \/ HangUp(c) \/ Reset(c)
  BY <1>4, ClientPreserves
<1>5. CASE UNCHANGED vars
  <2>1. UNCHANGED <<g_running, running_, wsa, feed_sock, listen_fd_, main, tcp, udp>>
    BY <1>5 DEF vars, shared
  <2>2. UNCHANGED <<sock, unread, peer, clients_, ready, todo>>
    BY <1>5 DEF vars, net, loop
  <2>3. TypeOK' /\ Threads'
    BY <2>1, <2>2 DEF IInv, TypeOK, Threads
  <2> QED
    BY <2>1, <2>2, <2>3, Unmoved DEF IInv
<1> QED
  BY <1>1, <1>2, <1>3, <1>4, <1>5 DEF Next

-----------------------------------------------------------------------------
(* The theorems *)

(* The inductive invariant of the process holds in every state of it,      *)
(* whichever of main's, the feed's and TcpServer's calls of Winsock fail   *)
(* and whenever SIGINT comes.                                              *)
THEOREM ServerInvariance == Spec => []IInv
BY IInvInit, IInvNext, PTL DEF Spec

(* Flags, handles, connections and the list of clients keep their types,   *)
(* and Winsock never counts more than the two startups of the process,     *)
(* also when main's own has failed unseen.                                 *)
THEOREM ServerTypes == Spec => []TypeOK
<1>1. IInv => TypeOK
  BY DEF IInv
<1> QED
  BY <1>1, ServerInvariance, PTL

(* acceptLoop's list holds each open connection once and no other socket,  *)
(* also while it erases from the list the copy of which it walks; at the   *)
(* end of the process every socket is closed.                              *)
THEOREM NoClosedSocketUsed == Spec => []ClientsAreOpen
<1>1. IInv => ClientsAreOpen
  <2> SUFFICES ASSUME IInv PROVE ClientsAreOpen
    OBVIOUS
  <2>1. Startups /\ NeedsWinsock /\ Listed
    BY DEF IInv
  <2>0. wsa > 0 => wsa # 0
    <3>1. wsa \in {0, 1, 2}
      BY Count DEF IInv
    <3> QED
      BY <3>1
  <2>2. ASSUME main = "exit"
        PROVE  feed_sock # "open" /\ listen_fd_ # "open" /\ \A c \in Client : sock[c] # "open"
    <3>1. wsa = 0
      BY <2>1, <2>2 DEF Startups
    <3> QED
      BY <2>1, <3>1 DEF NeedsWinsock
  <2> QED
    BY <2>0, <2>1, <2>2 DEF ClientsAreOpen, Listed
<1> QED
  BY <1>1, ServerInvariance, PTL

(* The TCP thread never makes a socket call, and the UDP thread never      *)
(* sends, after the last WSACleanup, as main joins both before its own; and *)
(* ~TcpServer closes its sockets before the last one, if main's WSAStartup *)
(* succeeded.  Nothing is claimed of ~UdpMarketFeed, which comes after it. *)
THEOREM WinsockStaysUp == Spec => []WinsockUpWhileUsed
<1>1. IInv => WinsockUpWhileUsed
  <2> SUFFICES ASSUME IInv PROVE WinsockUpWhileUsed
    OBVIOUS
  <2>1. TypeOK /\ Threads /\ Startups
    BY DEF IInv
  <2>0. wsa # 0 => wsa > 0
    <3>1. wsa \in {0, 1, 2}
      BY Count DEF IInv
    <3> QED
      BY <3>1
  <2>2. ASSUME tcp \in {"bind", "select", "accept", "serve", "book"} PROVE wsa # 0
    <3>1. tcp \notin {"none", "init", "returned"}
      BY <2>2
    <3> QED
      BY <3>1, TcpRuns
  <2>3. ASSUME udp = "book", feed_sock # "invalid" PROVE wsa # 0
    <3>1. Serving
      BY <2>1, <2>3 DEF TypeOK, Threads, Serving
    <3> QED
      BY <2>1, <2>3, <3>1 DEF Startups
  <2>4. main = "~TcpServer" /\ feed_sock # "invalid" /\ listen_fd_ # "invalid" => wsa # 0
    BY <2>1 DEF Startups
  <2> QED
    BY <2>0, <2>2, <2>3, <2>4 DEF WinsockUpWhileUsed
<1> QED
  BY <1>1, ServerInvariance, PTL
=============================================================================
