----------------------------- MODULE Connections -----------------------------
(***************************************************************************)
(* The connections of the file server of Project4: main's accept loop,     *)
(* handle_requests with the parsing of a request, the receive loop of      *)
(* handle_writeblock and send_response.  Each connection has a thread of   *)
(* its own.  What the request does to the disk is FileServer's: here it is *)
(* answered or refused.                                                    *)
(*                                                                         *)
(* A request is a sequence of characters, in which the word of its type is *)
(* one character.  A client sends its stream at once, be it a request, a   *)
(* part of one or something else; it may end the connection properly at    *)
(* any time, or have it reset, in which case recv and send return -1 from  *)
(* then on.                                                                *)
(***************************************************************************)
EXTENDS Integers, Sequences, FiniteSets, SequencesExt

CONSTANTS Connection,     \* the connections clients make
          Streams,        \* what the clients may send, each on its connection
          Request,        \* some legal requests
          MaxQueue,       \* max_queue_size
          MaxUserName, MaxPathName, MaxFileName, MaxFileBlocks, BlockSize,  \* fs_param.h
          AnswerLength,   \* length of every answer
          MaxFailures     \* bound: failed sends that are told apart

ASSUME SizesAssumption ==
  /\ {MaxQueue, MaxUserName, MaxPathName, MaxFileName, MaxFileBlocks} \subseteq Nat
  /\ {BlockSize, AnswerLength} \subseteq Nat \ {0} /\ MaxFailures \in Nat

\* Streams are sequences, of anything.
ASSUME StreamsAssumption ==
  \A st \in Streams :
    st = [c \in Connection |-> st[c]] /\ \A c \in Connection : st[c] \in Seq(Range(st[c]))

\* Users and names are text, without the characters that separate them.
ASSUME RequestAssumption ==
  \A r \in Request :
    /\ r = [type |-> r.type, user |-> r.user, path |-> r.path, arg |-> r.arg]
    /\ r.user \in Seq(Range(r.user)) /\ Range(r.user) \cap {" ", "\t", "NUL"} = {}
    /\ r.path \in Seq(Range(r.path))
    /\ \A n \in Range(r.path) : n \in Seq(Range(n)) /\ Range(n) \cap {" ", "\t", "NUL", "/"} = {}
    /\ r.arg \in Seq(Range(r.arg))

VARIABLES server,    \* starting, up, deaf (no socket to accept on), or down
          stage,     \* where the thread of a connection is
          peer,      \* the client's side: open, finished or reset
          stream,    \* what the client sends in all
          inbox,     \* and what recv has not yet returned of it
          header,    \* req_header
          request,   \* the request read from it
          recvd,     \* bytes of the block received
          sent       \* bytes of the answer sent, as send_response counts them

vars == <<server, stage, peer, stream, inbox, header, request, recvd, sent>>

-----------------------------------------------------------------------------
(* Parsing *)

Space      == {" ", "\t"}
Digit      == {"0", "1", "2", "3", "4", "5", "6", "7", "8", "9"}
DigitValue == [x \in Digit |-> CHOOSE n \in 0..9 : ToString(n) = x]

\* The k-th smallest number in S.
Nth(S, k) == CHOOSE i \in S : Cardinality({j \in S : j < i}) = k - 1

\* The pieces of s between the characters of a set, empty ones included.
Cuts(s, separators) == {0, Len(s) + 1} \cup {i \in DOMAIN s : s[i] \in separators}
Pieces(s, separators) ==
  [k \in 1..(Cardinality(Cuts(s, separators)) - 1) |->
     SubSeq(s, Nth(Cuts(s, separators), k) + 1, Nth(Cuts(s, separators), k + 1) - 1)]

\* What operator>> reads one after the other.
WordStarts(s) == {i \in DOMAIN s : s[i] \notin Space /\ (i = 1 \/ s[i - 1] \in Space)}
WordEnd(s, i) ==
  CHOOSE j \in i..Len(s) : (\A m \in i..j : s[m] \notin Space) /\ (j = Len(s) \/ s[j + 1] \in Space)
Words(s) ==
  [k \in 1..Cardinality(WordStarts(s)) |->
     LET i == Nth(WordStarts(s), k) IN SubSeq(s, i, WordEnd(s, i))]

\* Mutant: the spaces are forgotten.
header_len_short == 1 + MaxUserName + MaxPathName + 3
\* A type, a user, a path, a block number, and the spaces between them.
max_header_len == 1 + MaxUserName + MaxPathName + 3 + 3

find_space(s) == Cardinality({i \in DOMAIN s : s[i] = " "})

isblock(s) == Len(s) <= 3 /\ Range(s) \subseteq Digit

stoi(s) == FoldLeft(LAMBDA n, x : 10 * n + DigitValue[x], 0, s)

\* Mutant: the test of the last character is missing.
path_parser_lax(s) == /\ Head(s) = "/"
                      /\ \A n \in Range(Tail(Pieces(s, {"/"}))) : Len(n) <= MaxFileName
\* The path of names in s is accepted.
path_parser(s) ==
  /\ Head(s) = "/" /\ Last(s) # "/"
  /\ \A n \in Range(Tail(Pieces(s, {"/"}))) : Len(n) \in 1..MaxFileName

PathNames(s) == Tail(Pieces(s, {"/"}))

\* The handler that is called for a header, if any.
check_request_type(type, s) ==
  \/ type \in {<<"FS_READBLOCK">>, <<"FS_WRITEBLOCK">>, <<"FS_CREATE">>} /\ find_space(s) = 3
  \/ type = <<"FS_DELETE">> /\ find_space(s) = 2

Dispatched(s) ==
  LET w == Words(s) IN
  /\ Len(w) >= 3
  /\ Len(w[2]) <= MaxUserName /\ Len(w[3]) <= MaxPathName
  /\ check_request_type(w[1], s)

\* A handler's checks of the word behind the path.
ArgumentAccepted(w) ==
  \/ w[1] = <<"FS_DELETE">>
  \/ /\ Len(w) >= 4
     /\ IF w[1] = <<"FS_CREATE">> THEN w[4] \in {<<"f">>, <<"d">>}
                                 ELSE isblock(w[4]) /\ stoi(w[4]) < MaxFileBlocks

NoRequest == [type |-> "none"]

\* The request the handler goes on with.
Parsed(w) == [type |-> w[1][1], user |-> w[2], path |-> PathNames(w[3]),
              arg |-> IF w[1] = <<"FS_DELETE">> THEN <<>> ELSE w[4]]

-----------------------------------------------------------------------------
(* The server *)

Init ==
  /\ server = "starting"
  /\ stage = [c \in Connection |-> "none"]
  /\ peer = [c \in Connection |-> "open"]
  /\ stream \in Streams
  /\ inbox = stream
  /\ header = [c \in Connection |-> <<>>]
  /\ request = [c \in Connection |-> NoRequest]
  /\ recvd = [c \in Connection |-> 0]
  /\ sent = [c \in Connection |-> 0]

\* setup_socket; init_server does not look at its result.
SetUp ==
  /\ server = "starting"
  /\ server' \in {"up", "deaf"}
  /\ UNCHANGED <<stage, peer, stream, inbox, header, request, recvd, sent>>

Accept(c) ==
  /\ server = "up" /\ stage[c] = "queued"
  /\ stage' = [stage EXCEPT ![c] = "header"]
  /\ UNCHANGED <<server, peer, stream, inbox, header, request, recvd, sent>>

Close(c) ==
  /\ stage' = [stage EXCEPT ![c] = "closed"]
  /\ UNCHANGED <<server, peer, stream, request, recvd, sent>>

\* An exception nobody catches ends the process, and all connections with it.
Terminate == server' = "down" /\ UNCHANGED <<stage, peer, stream, inbox, header, request, recvd, sent>>

\* recv returns one more character of the header, not its end.
HeaderCharacter(c) ==
  /\ server = "up" /\ stage[c] = "header" /\ inbox[c] # <<>> /\ Head(inbox[c]) # "NUL"
  /\ header' = [header EXCEPT ![c] = Append(@, Head(inbox[c]))]
  /\ inbox' = [inbox EXCEPT ![c] = Tail(@)]
  /\ IF Len(header[c]) + 1 > max_header_len
     THEN Close(c)
     ELSE UNCHANGED <<server, stage, peer, stream, request, recvd, sent>>

\* The header is complete: parse it and call its handler, which goes on until
\* it needs a block from the client, or the disk.
HeaderEnds(c) ==
  /\ server = "up" /\ stage[c] = "header" /\ inbox[c] # <<>> /\ Head(inbox[c]) = "NUL"
  /\ inbox' = [inbox EXCEPT ![c] = Tail(@)]
  /\ UNCHANGED header
  /\ \E w \in {Words(header[c])} :
     IF /\ Dispatched(header[c]) /\ ArgumentAccepted(w)
        /\ w[1] = <<"FS_WRITEBLOCK">> \/ path_parser(w[3])
     THEN /\ request' = [request EXCEPT ![c] = Parsed(w)]
          /\ stage' = [stage EXCEPT ![c] = IF w[1] = <<"FS_WRITEBLOCK">> THEN "data" ELSE "handling"]
          /\ UNCHANGED <<server, peer, stream, recvd, sent>>
     ELSE Close(c)

\* recv returns 0 in the header, or -1.  buf[0] is tested first: it is the last
\* character, or uninitialized before the first.  If it is not NUL the result
\* is given to append, which throws for -1.
HeaderFails(c) ==
  /\ server = "up" /\ stage[c] = "header" /\ inbox[c] = <<>> /\ peer[c] # "open"
  /\ \/ /\ peer[c] = "finished" \/ header[c] = <<>>
        /\ Close(c) /\ UNCHANGED <<inbox, header>>
     \/ peer[c] = "reset" /\ Terminate

\* Mutant: recv may return bytes that are not the block's any more.
RoomIgnored(c) == BlockSize
Room(c) == BlockSize - recvd[c]

DataEnds(c) ==
  stage' = [stage EXCEPT ![c] = IF path_parser(Words(header[c])[3]) THEN "handling" ELSE "closed"]

\* recv returns some of the block.
Data(c) ==
  /\ server = "up" /\ stage[c] = "data"
  /\ \E n \in 1..Room(c) :
       /\ n <= Len(inbox[c])
       /\ inbox' = [inbox EXCEPT ![c] = SubSeq(@, n + 1, Len(@))]
       /\ recvd' = [recvd EXCEPT ![c] = @ + n]
       /\ IF recvd[c] + n >= BlockSize THEN DataEnds(c) ELSE UNCHANGED stage
  /\ UNCHANGED <<server, peer, stream, header, request, sent>>

\* Mutant: the loop goes on until the block is complete.
DataFailsUnnoticed(c) ==
  /\ server = "up" /\ stage[c] = "data" /\ inbox[c] = <<>>
  /\ peer[c] = "reset" /\ Terminate

\* The client has ended before the block did: the handler writes what it has.
\* After a reset, append(buf, -1) throws.
DataFails(c) ==
  /\ server = "up" /\ stage[c] = "data" /\ inbox[c] = <<>>
  /\ \/ /\ peer[c] = "finished"
        /\ DataEnds(c)
        /\ UNCHANGED <<server, peer, stream, inbox, header, request, recvd, sent>>
     \/ peer[c] = "reset" /\ Terminate

\* The file system refuses the request: its handler returns without an answer.
Refuse(c) ==
  /\ server = "up" /\ stage[c] = "handling"
  /\ Close(c)
  /\ UNCHANGED <<inbox, header>>

Answer(c) ==
  /\ server = "up" /\ stage[c] = "handling"
  /\ stage' = [stage EXCEPT ![c] = "answering"]
  /\ UNCHANGED <<server, peer, stream, inbox, header, request, recvd, sent>>

\* send takes some of the answer; behind the loop the connection is closed.
Send(c) ==
  /\ server = "up" /\ stage[c] = "answering" /\ peer[c] # "reset"
  /\ \E n \in 1..(AnswerLength - sent[c]) :
       /\ sent' = [sent EXCEPT ![c] = @ + n]
       /\ stage' = [stage EXCEPT ![c] = IF sent[c] + n < AnswerLength THEN @ ELSE "closed"]
  /\ UNCHANGED <<server, peer, stream, inbox, header, request, recvd>>

\* send returns -1, which is added to sent, and the loop goes on.
SendFails(c) ==
  /\ server = "up" /\ stage[c] = "answering" /\ peer[c] = "reset"
  /\ sent' = [sent EXCEPT ![c] = IF @ > -MaxFailures THEN @ - 1 ELSE @]
  /\ UNCHANGED <<server, stage, peer, stream, inbox, header, request, recvd>>

-----------------------------------------------------------------------------
(* The clients *)

\* The kernel queues a connection while listen's queue has room.
Connect(c) ==
  /\ server = "up" /\ stage[c] = "none"
  /\ Cardinality({b \in Connection : stage[b] = "queued"}) < MaxQueue
  /\ stage' = [stage EXCEPT ![c] = "queued"]
  /\ UNCHANGED <<server, peer, stream, inbox, header, request, recvd, sent>>

\* The client ends: recv returns 0 behind the stream.
ClientEnds(c) ==
  /\ peer[c] = "open" /\ stage[c] \notin {"none", "closed"}
  /\ peer' = [peer EXCEPT ![c] = "finished"]
  /\ UNCHANGED <<server, stage, stream, inbox, header, request, recvd, sent>>

\* The connection breaks; what was not yet received is lost.
Reset(c) ==
  /\ peer[c] # "reset" /\ stage[c] \notin {"none", "closed"}
  /\ peer' = [peer EXCEPT ![c] = "reset"]
  /\ inbox' = [inbox EXCEPT ![c] = <<>>]
  /\ UNCHANGED <<server, stage, stream, header, request, recvd, sent>>

Serve(c) ==
  \/ HeaderCharacter(c) \/ HeaderEnds(c) \/ HeaderFails(c) \/ Data(c) \/ DataFails(c)
  \/ Refuse(c) \/ Answer(c) \/ Send(c) \/ SendFails(c)

Client(c) == Connect(c) \/ ClientEnds(c) \/ Reset(c)

Next == SetUp \/ \E c \in Connection : Accept(c) \/ Serve(c) \/ Client(c)

Spec == Init /\ [][Next]_vars

\* Every thread of the server runs, main included, and a client ends some day.
FairSpec ==
  /\ Spec
  /\ \A c \in Connection : WF_vars(Accept(c)) /\ WF_vars(Serve(c)) /\ WF_vars(ClientEnds(c))

-----------------------------------------------------------------------------
(* Reference definitions and properties *)

\* The path of names, and the header of a request, as the answers to it show them.
Pathname(path) == FlattenSeq([i \in DOMAIN path |-> <<"/">> \o path[i]])
Line(r) ==
  <<r.type, " ">> \o r.user \o <<" ">> \o Pathname(r.path)
    \o (IF r.arg = <<>> THEN <<>> ELSE <<" ">> \o r.arg)
Encoded(r) == Line(r) \o <<"NUL">>

Legal(r) ==
  /\ Len(r.user) \in 1..MaxUserName
  /\ r.path # <<>> /\ \A i \in DOMAIN r.path : Len(r.path[i]) \in 1..MaxFileName
  /\ Len(Pathname(r.path)) <= MaxPathName
  /\ \/ r.type = "FS_DELETE" /\ r.arg = <<>>
     \/ r.type = "FS_CREATE" /\ r.arg \in {<<"f">>, <<"d">>}
     \/ /\ r.type \in {"FS_READBLOCK", "FS_WRITEBLOCK"}
        /\ Len(r.arg) \in 1..3 /\ Range(r.arg) \subseteq Digit /\ stoi(r.arg) < MaxFileBlocks

\* The legal ones of Request, by their headers.
LegalRequests == {[is |-> r, header |-> Encoded(r)] : r \in {q \in Request : Legal(q)}}

\* Whatever a client sends, the file system is given legal requests only: a
\* user and names of 1 to the maximal number of characters, a path that is not
\* too long, a block number within a file, a type, and nothing that is missing
\* (file_server.cpp:70-87, 169, 396-400, 475-503, 533).
\* FileServer is specified for these.
OnlyLegalRequests == \A c \in Connection : stage[c] \in {"handling", "answering"} => Legal(request[c])

\* A legal request is understood as what it is, and is not turned away: if the
\* client sends it in full and keeps the connection open, its thread does not
\* close the connection before the file system has had the request
\* (file_server.cpp:514-554; a header of the maximal length passes).
RequestsUnderstood ==
  \A c \in Connection :
    request[c] # NoRequest \/ (stage[c] = "closed" /\ peer[c] = "open") =>
      \A r \in LegalRequests : IsPrefix(r.header, stream[c]) => request[c] = r.is

\* The block that a write brings to the file is complete and nothing else, or
\* the client has ended before it was (file_server.cpp:403-416).
WholeBlocks ==
  \A c \in Connection :
    stage[c] \in {"handling", "answering"} /\ request[c].type = "FS_WRITEBLOCK" =>
      recvd[c] = BlockSize \/ (recvd[c] < BlockSize /\ peer[c] # "open")

\* A connection that the kernel has queued is accepted, served and closed: no
\* client can keep a thread for ever by ending early, at any place of the
\* protocol.  It may be kept by a reset, and lost with the server.
EveryConnectionClosed ==
  \A c \in Connection :
    stage[c] = "queued" ~> (stage[c] = "closed" \/ peer[c] = "reset" \/ server = "down")

\* "Close connection" (file_server.cpp:555): the thread of a connection whose
\* request the file system has had closes it, whatever the network does.
ClosedOnceServed ==
  \A c \in Connection : stage[c] = "answering" ~> (stage[c] = "closed" \/ server = "down")
=============================================================================
