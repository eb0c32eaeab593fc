--------------------------- MODULE TradingServer ---------------------------
(***************************************************************************)
(* The process of server_main.cpp: the main thread, the thread that runs   *)
(* TcpServer::start, the thread that ticks the perpetual engine and        *)
(* broadcasts market data, SIGINT, and the clients' sockets.  What a       *)
(* request does to the book is in MatchingEngine; here it is one stay in   *)
(* the book.                                                               *)
(***************************************************************************)
EXTENDS Integers, Sequences, FiniteSets, SequencesExt

CONSTANTS
    Client,        \* the sockets clients connect with
    FdSetSize,     \* FD_SETSIZE: what an fd_set holds
    MayHangUp,     \* bound: the clients that may close their connection
    MayReset,      \* bound: the clients whose connections may be reset
    EarlySignal,   \* may SIGINT come before the TCP loop runs
    MayFail        \* may calls of Winsock fail

ASSUME ServerAssumption ==
    /\ FdSetSize \in Nat \ {0}
    /\ MayHangUp \subseteq Client /\ MayReset \subseteq Client
    /\ EarlySignal \in BOOLEAN /\ MayFail \in BOOLEAN

VARIABLES
    g_running,      \* cleared by SIGINT
    running_,       \* TcpServer::running_
    main, tcp, udp, \* where each thread is
    wsa,            \* Winsock's count of startups not yet cleaned up
    feed_sock,      \* UdpMarketFeed::sock_: "invalid", "open" or "closed"
    listen_fd_,     \* the same of TcpServer's
    sock,           \* [Client -> "new", "backlog", "open", "closed"]
    clients_,       \* TcpServer::clients_
    ready,          \* what select left in read_fds
    todo,           \* the rest of clients_copy
    unread,         \* the clients with bytes to receive, at most one recv's worth
    peer            \* [Client -> "up", "hung up", "reset"]: the client's end

net == <<sock, unread, peer>>
loop == <<clients_, ready, todo>>
shared == <<g_running, running_, wsa, feed_sock, listen_fd_>>
vars == <<shared, main, tcp, udp, net, loop>>

Init ==
    /\ g_running = TRUE
    /\ running_ = FALSE
    /\ main = "boot" /\ tcp = "none" /\ udp = "none"
    /\ wsa = 0
    /\ feed_sock = "invalid" /\ listen_fd_ = "invalid"
    /\ sock = [c \in Client |-> "new"]
    /\ unread = {}
    /\ peer = [c \in Client |-> "up"]
    /\ clients_ = <<>> /\ ready = {} /\ todo = <<>>

-----------------------------------------------------------------------------
(* The main thread *)

MainStartsForBoth ==                             \* fault: TcpServer's startup too
    /\ main = "boot"
    /\ wsa' = wsa + 2
    /\ main' = "init"
    /\ UNCHANGED <<g_running, running_, feed_sock, listen_fd_, tcp, udp, net, loop>>

(* main's WSAStartup, the result of which it does not look at *)
MainStartup ==
    /\ main = "boot"
    /\ \/ wsa' = wsa + 1
       \/ MayFail /\ UNCHANGED wsa
    /\ main' = "init"
    /\ UNCHANGED <<g_running, running_, feed_sock, listen_fd_, tcp, udp, net, loop>>

(* udp_feed.init, and the UDP thread whether it succeeded or not.  There   *)
(* is no socket without Winsock.                                           *)
MainInitFeed ==
    /\ main = "init"
    /\ \/ wsa > 0 /\ feed_sock' = "open"
       \/ (wsa = 0 \/ MayFail) /\ UNCHANGED feed_sock
    /\ udp' = "test"
    /\ main' = "serve"
    /\ UNCHANGED <<g_running, running_, wsa, listen_fd_, tcp, net, loop>>

(* The TCP thread *)
MainServe ==
    /\ main = "serve"
    /\ tcp' = "init"
    /\ main' = "wait"
    /\ UNCHANGED <<shared, udp, net, loop>>

(* The wait loop is left once g_running is false; then stop() *)
MainStop ==
    /\ main = "wait"
    /\ ~g_running
    /\ running_' = FALSE
    /\ main' = "join tcp"
    /\ UNCHANGED <<g_running, wsa, feed_sock, listen_fd_, tcp, udp, net, loop>>

MainJoinTcp ==
    /\ main = "join tcp"
    /\ tcp = "returned"
    /\ main' = "join udp"
    /\ UNCHANGED <<shared, tcp, udp, net, loop>>

MainSkipsUdp ==                                  \* fault: the thread is not joined
    /\ main = "join udp"
    /\ main' = "cleanup"
    /\ UNCHANGED <<shared, tcp, udp, net, loop>>

MainJoinUdp ==
    /\ main = "join udp"
    /\ udp = "returned"
    /\ main' = "cleanup"
    /\ UNCHANGED <<shared, tcp, udp, net, loop>>

(* closesocket, which drops what is unread, of the clients in Freed and,   *)
(* if listens, of the listening socket; then WSACleanup: a call beyond the *)
(* startups fails, the one that meets the last of them closes every socket *)
(* of the process.                                                         *)
CleanUp(Freed, listens) ==
    LET last == wsa = 1 IN
    /\ wsa' = IF wsa > 0 THEN wsa - 1 ELSE 0
    /\ sock' = [c \in Client |->
                   IF c \in Freed \/ (last /\ sock[c] \in {"backlog", "open"})
                     THEN "closed" ELSE sock[c]]
    /\ listen_fd_' = IF listen_fd_ = "open" /\ (listens \/ last) THEN "closed" ELSE listen_fd_
    /\ feed_sock' = IF feed_sock = "open" /\ last THEN "closed" ELSE feed_sock
    /\ unread' = {c \in unread : sock'[c] # "closed"}
    /\ UNCHANGED peer

MainCleanup ==
    /\ main = "cleanup"
    /\ CleanUp({}, FALSE)
    /\ main' = "~TcpServer"
    /\ UNCHANGED <<g_running, running_, tcp, udp, loop>>

(* The locals of main, in the reverse order of construction.  ~TcpServer:  *)
(* stop, the clients, the listening socket, WSACleanup.                    *)
DestroyTcpServer ==
    /\ main = "~TcpServer"
    /\ running_' = FALSE
    /\ CleanUp({c \in Client : Contains(clients_, c)}, TRUE)
    /\ main' = "~UdpMarketFeed"
    /\ UNCHANGED <<g_running, tcp, udp, loop>>

(* ~UdpMarketFeed: closesocket of any socket but the invalid one, whatever *)
(* the last WSACleanup has made of it                                      *)
DestroyFeed ==
    /\ main = "~UdpMarketFeed"
    /\ feed_sock' = IF feed_sock = "invalid" THEN "invalid" ELSE "closed"
    /\ main' = "exit"
    /\ UNCHANGED <<g_running, running_, wsa, listen_fd_, tcp, udp, net, loop>>

SignalHandler ==
    /\ g_running
    /\ EarlySignal \/ tcp \notin {"none", "init", "bind", "start"}
    /\ g_running' = FALSE
    /\ UNCHANGED <<running_, wsa, feed_sock, listen_fd_, main, tcp, udp, net, loop>>

-----------------------------------------------------------------------------
(* The UDP thread: while g_running: tick, broadcast, sleep.  Both calls    *)
(* read the book; broadcast does nothing if udp_feed.init failed.          *)

UdpTest ==
    /\ udp = "test"
    /\ udp' = IF g_running THEN "book" ELSE "returned"
    /\ UNCHANGED <<shared, main, tcp, net, loop>>

UdpBroadcast ==
    /\ udp = "book"
    /\ udp' = "test"
    /\ UNCHANGED <<shared, main, tcp, net, loop>>

-----------------------------------------------------------------------------
(* The TCP thread: start *)

TcpInit ==
    /\ tcp = "init"
    /\ \/ wsa' = wsa + 1 /\ tcp' = "bind"
       \/ MayFail /\ tcp' = "returned" /\ UNCHANGED wsa
    /\ UNCHANGED <<g_running, running_, feed_sock, listen_fd_, main, udp, net, loop>>

(* bindAndListen leaves listen_fd_ invalid when socket, bind or listen fails *)
TcpBind ==
    /\ tcp = "bind"
    /\ \/ listen_fd_' = "open" /\ tcp' = "start"
       \/ MayFail /\ tcp' = "returned" /\ UNCHANGED listen_fd_
    /\ UNCHANGED <<g_running, running_, wsa, feed_sock, main, udp, net, loop>>

TcpStart ==
    /\ tcp = "start"
    /\ running_' = TRUE
    /\ tcp' = "test"
    /\ UNCHANGED <<g_running, wsa, feed_sock, listen_fd_, main, udp, net, loop>>

(* The TCP thread: acceptLoop *)

TcpTestForever ==                        \* fault: the loop never looks at running_
    /\ tcp = "test"
    /\ tcp' = "select"
    /\ UNCHANGED <<shared, main, udp, net, loop>>

TcpTest ==
    /\ tcp = "test"
    /\ tcp' = IF running_ THEN "select" ELSE "returned"
    /\ UNCHANGED <<shared, main, udp, net, loop>>

WatchedNewest == IF clients_ = <<>> THEN {} ELSE {Last(clients_)}   \* fault: one client

(* FD_SET adds the listening socket, then the clients in order, until the  *)
(* set is full; then it does nothing.                                      *)
Watched == {clients_[k] : k \in 1 .. (IF Len(clients_) < FdSetSize - 1
                                        THEN Len(clients_) ELSE FdSetSize - 1)}
Readable == {c \in Watched : c \in unread \/ peer[c] # "up"}
Knocking == {c \in Client : sock[c] = "backlog"}

(* select returns what is readable, or nothing after 100 ms.  Without a    *)
(* connection to accept, clients_copy is made at once.                     *)
TcpSelect ==
    /\ tcp = "select"
    /\ \/ /\ Readable = {} /\ Knocking = {}
          /\ tcp' = "test"
          /\ ready' = {} /\ UNCHANGED todo
       \/ /\ Knocking # {}
          /\ tcp' = "accept"
          /\ ready' = Readable /\ UNCHANGED todo
       \/ /\ Knocking = {} /\ Readable # {}
          /\ tcp' = "serve"
          /\ ready' = Readable /\ todo' = clients_
       \/ /\ MayFail
          /\ tcp' = "returned"
          /\ ready' = {} /\ UNCHANGED todo
    /\ UNCHANGED <<shared, main, udp, net, clients_>>

(* One connection of the backlog, then clients_copy.  accept may fail, and *)
(* for one that was reset in the backlog the connection is gone then.      *)
TcpAccept ==
    /\ tcp = "accept"
    /\ \/ \E c \in Knocking :
             /\ sock' = [sock EXCEPT ![c] = "open"]
             /\ clients_' = Append(clients_, c)
             /\ UNCHANGED unread
       \/ \E c \in Knocking :
             /\ peer[c] = "reset"
             /\ sock' = [sock EXCEPT ![c] = "closed"]
             /\ unread' = unread \ {c}
             /\ UNCHANGED clients_
       \/ MayFail /\ UNCHANGED <<sock, unread, clients_>>
    /\ todo' = clients_'
    /\ tcp' = "serve"
    /\ UNCHANGED <<shared, main, udp, peer, ready>>

(* recv gives bytes, or the end of the connection, or its error *)
Gives(c) == c \in unread /\ peer[c] # "reset"

(* Fault: removeClient closes the socket and leaves it in clients_ *)
TcpServeForgetful ==
    LET c == Head(todo) IN
    /\ tcp = "serve"
    /\ todo # <<>>
    /\ todo' = Tail(todo)
    /\ IF c \in ready /\ ~Gives(c)
         THEN sock' = [sock EXCEPT ![c] = "closed"] /\ UNCHANGED tcp
         ELSE /\ tcp' = IF c \in ready THEN "book" ELSE tcp
              /\ UNCHANGED sock
    /\ unread' = IF c \in ready THEN unread \ {c} ELSE unread
    /\ UNCHANGED <<shared, main, udp, peer, ready, clients_>>

(* erase(remove(...)): the others, in the order they had *)
Without(s, c) ==
    LET kept == {k \in DOMAIN s : s[k] # c}
        nth(i) == CHOOSE k \in kept : Cardinality({j \in kept : j <= k}) = i
    IN  [i \in 1 .. Cardinality(kept) |-> s[nth(i)]]

(* The next client of the copy.  A readable one is received from: what it  *)
(* sent is processed in the book; when nothing is left of a closed         *)
(* connection, or recv fails as it was reset, the client is removed.       *)
(* WSAEWOULDBLOCK cannot come: what select saw only this thread takes.     *)
TcpServe ==
    LET c == Head(todo) IN
    /\ tcp = "serve"
    /\ todo # <<>>
    /\ todo' = Tail(todo)
    /\ \/ /\ c \notin ready
          /\ UNCHANGED <<tcp, sock, unread, clients_>>
       \/ /\ c \in ready /\ Gives(c)
          /\ unread' = unread \ {c}
          /\ tcp' = "book"
          /\ UNCHANGED <<sock, clients_>>
       \/ /\ c \in ready /\ ~Gives(c)
          /\ sock' = [sock EXCEPT ![c] = "closed"]
          /\ clients_' = Without(clients_, c)
          /\ unread' = unread \ {c}
          /\ UNCHANGED tcp
    /\ UNCHANGED <<shared, main, udp, peer, ready>>

(* processMessage is done: engine call, replies, and the callback's        *)
(* broadcast after a trade                                                 *)
TcpProcessed ==
    /\ tcp = "book"
    /\ tcp' = "serve"
    /\ UNCHANGED <<shared, main, udp, net, loop>>

TcpRoundDone ==
    /\ tcp = "serve"
    /\ todo = <<>>
    /\ ready' = {}
    /\ tcp' = "test"
    /\ UNCHANGED <<shared, main, udp, net, clients_, todo>>

-----------------------------------------------------------------------------
(* The clients *)

Connect(c) ==
    /\ sock[c] = "new"
    /\ listen_fd_ = "open"
    /\ sock' = [sock EXCEPT ![c] = "backlog"]
    /\ UNCHANGED <<shared, main, tcp, udp, unread, peer, loop>>

Send(c) ==
    /\ sock[c] \in {"backlog", "open"}
    /\ peer[c] = "up"
    /\ c \notin unread
    /\ unread' = unread \cup {c}
    /\ UNCHANGED <<shared, main, tcp, udp, sock, peer, loop>>

HangUp(c) ==
    /\ sock[c] \in {"backlog", "open"}
    /\ c \in MayHangUp /\ peer[c] = "up"
    /\ peer' = [peer EXCEPT ![c] = "hung up"]
    /\ UNCHANGED <<shared, main, tcp, udp, sock, unread, loop>>

(* Also of a connection the client has closed, when a reply still comes    *)
Reset(c) ==
    /\ sock[c] \in {"backlog", "open"}
    /\ c \in MayReset /\ peer[c] # "reset"
    /\ peer' = [peer EXCEPT ![c] = "reset"]
    /\ UNCHANGED <<shared, main, tcp, udp, sock, unread, loop>>

Main == MainStartup \/ MainInitFeed \/ MainServe \/ MainStop \/ MainJoinTcp \/ MainJoinUdp
            \/ MainCleanup \/ DestroyTcpServer \/ DestroyFeed
Udp == UdpTest \/ UdpBroadcast
Tcp == TcpInit \/ TcpBind \/ TcpStart \/ TcpTest \/ TcpSelect \/ TcpAccept
            \/ TcpServe \/ TcpProcessed \/ TcpRoundDone

Next ==
    \/ Main \/ Udp \/ Tcp
    \/ SignalHandler
    \/ \E c \in Client : Connect(c) \/ Send(c) \/ HangUp(c) \/ Reset(c)

(* Each thread keeps running: sleeps and select's timeout are finite, and  *)
(* a join returns once its thread has.  SIGINT, clients and failures owe   *)
(* nothing.                                                                *)
Spec == Init /\ [][Next]_vars /\ WF_vars(Main) /\ WF_vars(Udp) /\ WF_vars(Tcp)

-----------------------------------------------------------------------------
(* The flags, handles, threads and connections keep their types; Winsock's *)
(* count never exceeds the two WSAStartup calls of main and TcpServer.     *)
TypeOK ==
    /\ {g_running, running_} \subseteq BOOLEAN
    /\ wsa \in 0 .. 2
    /\ {feed_sock, listen_fd_} \subseteq {"invalid", "open", "closed"}
    /\ main \in {"boot", "init", "serve", "wait", "join tcp", "join udp", "cleanup",
                 "~TcpServer", "~UdpMarketFeed", "exit"}
    /\ tcp \in {"none", "init", "bind", "start", "test", "select", "accept",
                "serve", "book", "returned"}
    /\ udp \in {"none", "test", "book", "returned"}
    /\ sock \in [Client -> {"new", "backlog", "open", "closed"}]
    /\ peer \in [Client -> {"up", "hung up", "reset"}]
    /\ unread \subseteq Client /\ ready \subseteq Client
    /\ clients_ \in Seq(Client) /\ todo \in Seq(Client)

(* While Winsock is up, clients_ holds each connection once, and only      *)
(* connections: no closed socket is given to select or recv, or closed     *)
(* again by removeClient or ~TcpServer, however clients hang up, are reset *)
(* or fail to be accepted.  When the process ends no socket is open, also  *)
(* when the TCP thread ended on an error.                                  *)
ClientsAreOpen ==
    /\ wsa > 0 =>
        /\ IsInjective(clients_)
        /\ \A c \in Client : Contains(clients_, c) <=> sock[c] = "open"
        /\ \A k \in DOMAIN todo : sock[todo[k]] = "open"
    /\ main = "exit" => /\ feed_sock # "open" /\ listen_fd_ # "open"
                        /\ \A c \in Client : sock[c] # "open"

(* Winsock is up while the TCP thread is in a socket call, while the UDP   *)
(* thread broadcasts on a socket it has, and while ~TcpServer closes its   *)
(* sockets, unless main's own WSAStartup failed.  ~UdpMarketFeed is not    *)
(* among them: it closes its socket after the last WSACleanup.             *)
WinsockUpWhileUsed ==
    /\ tcp \in {"bind", "select", "accept", "serve", "book"} => wsa > 0
    /\ udp = "book" /\ feed_sock # "invalid" => wsa > 0
    /\ main = "~TcpServer" /\ feed_sock # "invalid" /\ listen_fd_ # "invalid" => wsa > 0

(* SIGINT ends the process: the flags reach every thread, no join waits    *)
(* for ever.                                                               *)
ShutdownCompletes == ~g_running ~> main = "exit"

(* The first FD_SETSIZE - 1 clients of clients_ have a place in the set. *)
HasPlace(c) == \E k \in DOMAIN clients_ : k < FdSetSize /\ clients_[k] = c

(* What a client with a place in the set has sent is received, whatever    *)
(* other clients send and however they come and go, unless the connection  *)
(* is reset, as long as the server runs.  A client beyond the set is not   *)
(* promised anything: it waits until one before it leaves.                 *)
RequestsReceived ==
    \A c \in Client :
        HasPlace(c) /\ c \in unread
            ~> \/ c \notin unread /\ sock[c] = "open"
               \/ peer[c] = "reset" \/ ~g_running \/ tcp = "returned"
=============================================================================
