-------------------------------- MODULE Tiny --------------------------------
(***************************************************************************)
(* The iterative web server of tiny.c over the I/O package of csapp.c,     *)
(* with the clients that connect to it (the proxy, curl, a browser) and    *)
(* the CGI programs it runs.  A step is one system call of one process.    *)
(*                                                                         *)
(* A request is its method, its path and the text of its header lines; on  *)
(* the wire each text and each end of a line is one element.               *)
(***************************************************************************)
EXTENDS Rio

CONSTANTS
    Clients, NoClient,
    Requests,      \* what each client may ask for
    Unlinked,      \* bound of the model: the files of which one may be removed
    Paths,
    Dynamic,       \* the paths with cgi-bin in them
    HomeOf,        \* the page behind a path that ends in a slash
    Extensions,    \* the extensions that occur in a path, in any place
    Disk,          \* the files at the start
    MaxLine        \* MAXLINE

FileKinds == {"page", "empty", "program", "forbidden", "missing"}

ASSUME DiskAssumption ==
    /\ Disk \in [Paths -> FileKinds] /\ Dynamic \subseteq Paths
    /\ \A p \in DOMAIN HomeOf : p \in Paths /\ HomeOf[p] \in Paths
    /\ MaxLine \in Nat /\ MaxLine > 2 /\ Paths # {}

Ops == {"readn", "readnb", "readlineb"}
Methods == {"none", "GET", "POST", "blank"}   \* POST for all that are not implemented
AnyRequest == [method : Methods, path : Paths, headers : Seq(Seq(STRING)), op : Ops]

ASSUME RequestAssumption ==
    NL \notin Methods /\ NL \notin STRING /\ \A c \in Clients : Requests[c] \subseteq AnyRequest

VARIABLES
    disk,          \* the files
    backlog,       \* connections not accepted yet
    client,        \* the clients
    crio, srio,    \* the readers of the clients and of the server
    up, down,      \* the two directions of each connection
    wrote,         \* history: all that was written to each client
    server,        \* pc and locals of the server
    child          \* the CGI program

vars == <<disk, backlog, client, crio, srio, up, down, wrote, server, child>>
wires == <<up, down, wrote>>

(* The line of a request without words has only its end. *)
RequestLine(r) == IF r.method = "blank" THEN <<NL>> ELSE <<r.method, NL>>
Script(r) ==
    RequestLine(r) \o FlattenSeq([i \in DOMAIN r.headers |-> r.headers[i] \o <<NL>>]) \o <<NL>>

NoRequest == [method |-> "none", path |-> CHOOSE p \in Paths : TRUE, headers |-> <<>>,
              op |-> "readn"]
NoServer == [pc |-> "accept", conn |-> NoClient, line |-> <<>>, path |-> NoRequest.path,
             todo |-> <<>>, then |-> "close", took |-> 0, whole |-> FALSE]

(* client.link: the state of the connection as the server's kernel sees it. *)
Init ==
    /\ disk = Disk /\ backlog = <<>>
    /\ client = [c \in Clients |-> [pc |-> "idle", link |-> "none", request |-> NoRequest,
                                    todo |-> <<>>, seen |-> <<>>, unread |-> FALSE]]
    /\ crio = [c \in Clients |-> ReadInitB] /\ srio = ReadInitB
    /\ up = [c \in Clients |-> <<>>] /\ down = up /\ wrote = up
    /\ server = [NoServer EXCEPT !.pc = "start"]
    /\ child = [pc |-> "none", todo |-> <<>>]

-----------------------------------------------------------------------------
(* The clients *)

(* How the addresses of getaddrinfo's list turn out: open_clientfd takes the
   first it can connect to, open_listenfd the first it can bind. *)
AddressLists == {<<>>} \cup [1 .. 2 -> {"no socket", "refused", "good"}]
Found(list) == \E i \in DOMAIN list : list[i] = "good"

(* open_clientfd; the caller of a failed one ends in unix_error. *)
Connect(c) ==
    /\ client[c].pc = "idle" /\ server.pc # "start"
    /\ \E list \in AddressLists :
           \/ /\ Found(list) /\ server.pc # "dead"
              /\ \E r \in Requests[c] :
                     client' = [client EXCEPT ![c] =
                         [pc |-> "up", link |-> "queued", request |-> r, todo |-> Script(r),
                          seen |-> <<>>, unread |-> FALSE]]
              /\ backlog' = Append(backlog, c)
           \/ /\ ~Found(list) \/ server.pc = "dead"
              /\ client' = [client EXCEPT ![c].pc = "failed"]
              /\ UNCHANGED backlog
    /\ UNCHANGED <<disk, crio, srio, wires, server, child>>

(* rio_writen of the request; what comes after the server has closed the
   connection is answered with a reset. *)
Send(c) ==
    /\ client[c].pc = "up" /\ client[c].todo # <<>>
    /\ \/ /\ client[c].link # "closed"
          /\ \E k \in Accepts(client[c].todo, up[c]) :
                 /\ up' = [up EXCEPT ![c] = @ \o First(k, client[c].todo)]
                 /\ client' = [client EXCEPT ![c].todo = Rest(k, @)]
       \/ /\ client[c].link = "closed"
          /\ client' = [client EXCEPT ![c].todo = <<>>, ![c].unread = TRUE]
          /\ UNCHANGED up
    /\ UNCHANGED <<disk, backlog, crio, srio, down, wrote, server, child>>

(* The reads of the answer, until one of them returns nothing. *)
StartRead(c) ==
    /\ client[c].pc = "up" /\ client[c].todo = <<>> /\ ~Reads(crio[c])
    /\ \/ /\ crio[c].eof /\ crio[c].got = <<>>
          /\ client' = [client EXCEPT ![c].pc = "done"]
          /\ UNCHANGED crio
       \/ /\ ~(crio[c].eof /\ crio[c].got = <<>>)
          /\ client' = [client EXCEPT ![c].seen = @ \o crio[c].got]
          /\ crio' = [crio EXCEPT ![c] = Begun(@, client[c].request.op, MaxLine)]
    /\ UNCHANGED <<disk, backlog, srio, wires, server, child>>

Read(c) ==
    /\ client[c].pc = "up" /\ Reads(crio[c])
    /\ \/ \E chunk \in Chunks(crio[c], down[c]) :
              /\ crio' = [crio EXCEPT ![c] = After(@, chunk)]
              /\ down' = [down EXCEPT ![c] = Rest(Len(chunk), @)]
       \/ /\ down[c] = <<>> /\ client[c].link = "closed"
          /\ crio' = [crio EXCEPT ![c] = AtEof(@)]
          /\ UNCHANGED down
    /\ UNCHANGED <<disk, backlog, client, srio, up, wrote, server, child>>

(* The client's process ends, or gives the connection up. *)
Ends(c, how) ==
    /\ client' = [client EXCEPT ![c].pc = how, ![c].seen = <<>>]
    /\ crio' = [crio EXCEPT ![c] = ReadInitB]
    /\ down' = [down EXCEPT ![c] = <<>>] /\ wrote' = [wrote EXCEPT ![c] = <<>>]

(* The reset of a connection closed with data unread overtakes the answer. *)
Reset(c) ==
    /\ client[c].pc = "up" /\ client[c].unread
    /\ Ends(c, "reset")
    /\ UNCHANGED <<disk, backlog, srio, up, server, child>>

(* A client goes away at any time; the proxy does when any of its workers fails. *)
Leave(c) ==
    /\ client[c].pc = "up"
    /\ Ends(c, "left")
    /\ UNCHANGED <<disk, backlog, srio, up, server, child>>

(* Somebody removes a file. *)
Unlink(p) ==
    /\ disk = Disk /\ server.pc \notin {"start", "dead"}
    /\ disk' = [disk EXCEPT ![p] = "missing"]
    /\ UNCHANGED <<backlog, client, crio, srio, wires, server, child>>

-----------------------------------------------------------------------------
(* The server *)

At(pc) == server.pc = pc
GoTo(pc) == server' = [server EXCEPT !.pc = pc]
Left(c) == client[c].pc = "left"

(* mutant: the connection stays open *)
ClosedNot(c) == client[c]

(* How the kernel closes a connection: with a reset if data was unread. *)
Closed(c) == [client[c] EXCEPT !.link = "closed", !.unread = @ \/ up[c] # <<>>]

(* unix_error, or SIGPIPE: the process ends, and its connections are closed. *)
Dies ==
    /\ server' = [NoServer EXCEPT !.pc = "dead"]
    /\ client' = [c \in Clients |->
           IF client[c].link \in {"queued", "served"} THEN Closed(c) ELSE client[c]]
    /\ backlog' = <<>>

(* open_listenfd fails as well if listen does. *)
OpenListenfd ==
    /\ At("start")
    /\ \E list \in AddressLists, listens \in BOOLEAN :
           GoTo(IF Found(list) /\ listens THEN "accept" ELSE "dead")
    /\ UNCHANGED <<disk, backlog, client, crio, srio, wires, child>>

(* main accepts, and doit initialises its reader and starts to read. *)
Accept ==
    /\ At("accept") /\ backlog # <<>>
    /\ LET c == Head(backlog)
       IN  /\ server' = [NoServer EXCEPT !.pc = "request", !.conn = c]
           /\ client' = [client EXCEPT ![c].link = "served"]
    /\ backlog' = Tail(backlog)
    /\ srio' = Begun(ReadInitB, "readlineb", MaxLine)
    /\ UNCHANGED <<disk, crio, wires, child>>

(* A system call read of the server. *)
ServerRead ==
    /\ server.pc \in {"request", "headers"} /\ Reads(srio)
    /\ LET c == server.conn
       IN  \/ /\ \E chunk \in Chunks(srio, up[c]) :
                     /\ srio' = After(srio, chunk)
                     /\ up' = [up EXCEPT ![c] = Rest(Len(chunk), @)]
              /\ UNCHANGED <<backlog, client, server>>
           \/ /\ Left(c) /\ up[c] = <<>>
              /\ srio' = AtEof(srio)
              /\ UNCHANGED <<backlog, client, up, server>>
           \/ /\ Left(c) /\ Dies                                  \* ECONNRESET
              /\ UNCHANGED <<srio, up>>
    /\ UNCHANGED <<disk, crio, down, wrote, child>>

(* clienterror *)
ErrorPage(number) == <<number, NL, NL, number>>

(* parse_uri *)
IsStatic(path) == path \notin Dynamic
Filename(path) == IF IsStatic(path) /\ path \in DOMAIN HomeOf THEN HomeOf[path] ELSE path

ReadNext == srio' = Begun(srio, "readlineb", MaxLine)
Took == server.took + Len(srio.got)
Writes(todo, then) == [server EXCEPT !.pc = "write", !.todo = todo, !.then = then, !.took = Took]

(* The request line.  One without words leaves method and uri as they were on
   the stack. *)
Request ==
    /\ At("request") /\ Returned(srio)
    /\ LET r == client[server.conn].request
           blank == srio.got = <<NL>>
       IN  \/ /\ srio.got = <<>> /\ GoTo("close")
              /\ UNCHANGED srio
           \/ /\ srio.got # <<>> /\ (r.method # "GET" \/ blank)
              /\ server' = Writes(ErrorPage("501"), "close")
              /\ UNCHANGED srio
           \/ /\ srio.got # <<>> /\ (r.method = "GET" \/ blank)
              /\ \E path \in IF blank THEN Paths ELSE {r.path} :
                     server' = [server EXCEPT !.pc = "headers", !.path = path, !.took = Took]
              /\ ReadNext
    /\ UNCHANGED <<disk, backlog, client, crio, wires, child>>

(* mutant: any line with an end counts as the empty one *)
EmptyLineAny(line) == line = <<>> \/ (line # <<>> /\ line[Len(line)] = NL)

(* What is on the stack at first may by chance be an empty line. *)
EmptyLine(line) == line \in {<<NL>>, <<>>}

(* read_requesthdrs compares what is in buf: at the end of the input that is
   the line before, or whatever was on the stack. *)
Headers ==
    /\ At("headers") /\ Returned(srio)
    /\ LET line == IF srio.got # <<>> THEN srio.got ELSE server.line
       IN  \/ /\ EmptyLine(line)
              /\ server' = [server EXCEPT !.pc = "stat", !.line = <<NL>>, !.took = Took,
                                          !.whole = srio.got # <<>>]
              /\ UNCHANGED srio
           \/ /\ line = <<>> \/ ~EmptyLine(line)
              /\ server' = [server EXCEPT !.line = IF line = <<>> THEN <<"junk">> ELSE line,
                                          !.took = Took]
              /\ ReadNext
    /\ UNCHANGED <<disk, backlog, client, crio, wires, child>>

(* get_filetype: the first of these that occurs anywhere in the name *)
FileType(name) ==
    CASE "html" \in Extensions[name] -> "html" [] OTHER ->
    CASE "gif" \in Extensions[name]  -> "gif"  [] OTHER ->
    CASE "png" \in Extensions[name]  -> "png"  [] OTHER ->
    CASE "jpg" \in Extensions[name]  -> "jpeg" [] OTHER -> "plain"

StaticHeader(name) == <<"200", NL, FileType(name), NL, NL>>
DynamicHeader == <<"200", NL>>
Body(name) == <<name>>
Output(name) == <<NL, name>>

(* doit after the headers: parse_uri, stat and the tests of the mode. *)
Locate ==
    /\ At("stat")
    /\ LET name == Filename(server.path)
           kind == disk[name]
           answer(todo, then) == server' = [server EXCEPT !.pc = "write", !.path = name,
                                                          !.todo = todo, !.then = then]
       IN  \/ kind = "missing" /\ answer(ErrorPage("404"), "close")
           \/ /\ kind # "missing" /\ IsStatic(server.path)
              /\ \/ kind = "forbidden" /\ answer(ErrorPage("403"), "close")
                 \/ kind # "forbidden" /\ answer(StaticHeader(name), "open")
           \/ /\ kind # "missing" /\ ~IsStatic(server.path)
              /\ \/ kind # "program" /\ answer(ErrorPage("403"), "close")
                 \/ kind = "program" /\ answer(DynamicHeader, "fork")
    /\ UNCHANGED <<disk, backlog, client, crio, srio, wires, child>>

(* mutant: what a short write leaves is forgotten *)
WroteOnce(k) == [server EXCEPT !.todo = <<>>, !.pc = server.then]

Wrote(k) == IF k = Len(server.todo) THEN [server EXCEPT !.todo = <<>>, !.pc = server.then]
            ELSE [server EXCEPT !.todo = Rest(k, @)]

(* One write of rio_writen.  A write to a client that has gone is lost, or
   raises SIGPIPE. *)
Write ==
    /\ At("write")
    /\ LET c == server.conn
       IN  \/ /\ ~Left(c)
              /\ \E k \in Accepts(server.todo, down[c]) :
                     /\ down' = [down EXCEPT ![c] = @ \o First(k, server.todo)]
                     /\ wrote' = [wrote EXCEPT ![c] = @ \o First(k, server.todo)]
                     /\ server' = Wrote(k)
              /\ UNCHANGED <<backlog, client>>
           \/ /\ Left(c)
              /\ \/ server' = Wrote(Len(server.todo)) /\ UNCHANGED <<backlog, client>>
                 \/ Dies
              /\ UNCHANGED <<down, wrote>>
    /\ UNCHANGED <<disk, crio, srio, up, child>>

(* Open, Mmap and Close of the file in serve_static.  The file may have gone
   since stat, and mmap refuses a length of zero. *)
Open ==
    /\ At("open")
    /\ \/ /\ disk[server.path] \in {"page", "program"}
          /\ server' = [server EXCEPT !.pc = "write", !.todo = Body(server.path), !.then = "close"]
          /\ UNCHANGED <<client, backlog>>
       \/ disk[server.path] \notin {"page", "program"} /\ Dies
    /\ UNCHANGED <<disk, crio, srio, wires, child>>

(* Fork, and in the child Dup2 and Execve.  If the program has gone unix_error
   ends the child, and exit flushes what the server had printed to a log and
   not yet written: to the client. *)
Fork ==
    /\ At("fork") /\ GoTo("wait")
    /\ \E todo \in IF disk[server.path] = "program" THEN {Output(server.path)}
                   ELSE {<<>>, <<"log">>} :
           child' = [pc |-> "runs", todo |-> todo]
    /\ UNCHANGED <<disk, backlog, client, crio, srio, wires>>

ChildWrites ==
    /\ child.pc = "runs" /\ child.todo # <<>>
    /\ LET c == server.conn
       IN  \/ /\ ~Left(c)
              /\ \E k \in Accepts(child.todo, down[c]) :
                     /\ down' = [down EXCEPT ![c] = @ \o First(k, child.todo)]
                     /\ wrote' = [wrote EXCEPT ![c] = @ \o First(k, child.todo)]
                     /\ child' = [child EXCEPT !.todo = Rest(k, @)]
           \/ Left(c) /\ child' = [child EXCEPT !.todo = <<>>] /\ UNCHANGED <<down, wrote>>
    /\ UNCHANGED <<disk, backlog, client, crio, srio, up, server>>

ChildExits ==
    /\ child.pc = "runs" /\ child.todo = <<>>
    /\ child' = [child EXCEPT !.pc = "zombie"]
    /\ UNCHANGED <<disk, backlog, client, crio, srio, wires, server>>

(* mutant: the server does not wait for the program *)
WaitNot ==
    /\ At("wait")
    /\ GoTo("close")
    /\ UNCHANGED <<disk, backlog, client, crio, srio, wires, child>>

Wait ==
    /\ At("wait") /\ child.pc = "zombie"
    /\ child' = [child EXCEPT !.pc = "none"]
    /\ GoTo("close")
    /\ UNCHANGED <<disk, backlog, client, crio, srio, wires>>

Close ==
    /\ At("close")
    /\ client' = [client EXCEPT ![server.conn] = Closed(server.conn)]
    /\ server' = NoServer
    /\ UNCHANGED <<disk, backlog, crio, srio, wires, child>>

-----------------------------------------------------------------------------
ServerStep == \/ OpenListenfd \/ Accept \/ ServerRead \/ Request \/ Headers \/ Locate
              \/ Write \/ Open \/ Fork \/ Wait \/ Close
ChildStep == ChildWrites \/ ChildExits
Transfers(c) == Send(c) \/ StartRead(c) \/ Read(c)

Next == \/ ServerStep \/ ChildStep
        \/ \E c \in Clients : Connect(c) \/ Transfers(c) \/ Reset(c) \/ Leave(c)
        \/ \E p \in Unlinked : Unlink(p)

Spec == Init /\ [][Next]_vars

(* The processes are scheduled, and a client that has not left goes on sending
   its request and reading the answer.  Nobody has to connect or to leave. *)
FairSpec == /\ Spec /\ WF_vars(ServerStep) /\ WF_vars(ChildStep)
            /\ \A c \in Clients : WF_vars(Transfers(c))

-----------------------------------------------------------------------------
(* What each end has sent of its stream so far. *)
Sent(c) == First(Len(Script(client[c].request)) - Len(client[c].todo), Script(client[c].request))

(* However the transfers were cut up, and whatever was read ahead in earlier
   calls, each call of the I/O package returns what it promises of the stream
   the other side wrote ("Robustly read a text line (buffered)", csapp.c:857). *)
CallsKeepPromise ==
    /\ server.pc \in {"request", "headers"} /\ Returned(srio) =>
           KeepsPromise(srio, Rest(server.took, Sent(server.conn)))
    /\ \A c \in Clients : client[c].pc = "up" /\ Returned(crio[c]) =>
           KeepsPromise(crio[c], Rest(Len(client[c].seen), wrote[c]))

(* What doit may answer to a request, if files go and none come. *)
AnswerFor(path) ==
    LET name == Filename(path)
        good == IF IsStatic(path) THEN {"page", "program", "empty"} ELSE {"program"}
    IN  {ErrorPage("404")} \cup
        IF Disk[name] = "missing" THEN {}
        ELSE IF Disk[name] \notin good THEN {ErrorPage("403")}
        ELSE IF IsStatic(path) THEN {StaticHeader(name) \o Body(name)}
        ELSE {DynamicHeader \o Output(name)}

Answers(r) ==
    (IF r.method # "GET" THEN {ErrorPage("501")} ELSE {}) \cup
    (IF r.method = "GET" THEN AnswerFor(r.path)
     ELSE IF r.method = "blank" THEN UNION {AnswerFor(p) : p \in Paths} ELSE {})

(* A client that has read to the end has one whole answer to its own request,
   and no part of another's, unless the server has died meanwhile or the CGI
   program was removed. *)
AnswerIntact ==
    \A c \in Clients : client[c].pc = "done" =>
        \/ client[c].seen \in Answers(client[c].request)
        \/ /\ server.pc = "dead"
           /\ \E answer \in Answers(client[c].request) : IsPrefix(client[c].seen, answer)
        \/ /\ \E p \in Dynamic : Disk[p] = "program" /\ disk[p] = "missing"
           /\ IsPrefix(DynamicHeader, client[c].seen)

(* A line that fills the buffer leaves its end to the next read, and an end
   alone is taken for the empty line behind the headers. *)
Ordinary(r) == r.method = "GET" /\ \A i \in DOMAIN r.headers : Len(r.headers[i]) % (MaxLine - 1) # 0

(* The server has read all of a request when it answers, except one that it
   refuses or whose lines fill the buffer; else the close resets the connection
   and the answer may be lost. *)
ReadsWholeRequest ==
    /\ server.whole /\ Ordinary(client[server.conn].request) =>
           server.took = Len(Script(client[server.conn].request))
    /\ \A c \in Clients :
           client[c].unread => ~Ordinary(client[c].request) \/ server.pc = "dead"

(* read_requesthdrs goes round for ever once the client has gone in the headers. *)
Spins == server.pc = "headers" /\ Left(server.conn)

(* The server answers a client that is still sending, and each may wait for the
   other to read. *)
Stalls == server.pc = "write" /\ client[server.conn].todo # <<>>

(* A client that sends its request and reads is answered, though clients are
   served one at a time, unless the server has died, spins, or answers a request
   that it did not read. *)
ClientsAnswered ==
    \A c \in Clients :
        client[c].pc = "up" ~> client[c].pc # "up" \/ server.pc = "dead" \/ Spins \/ Stalls

=============================================================================
