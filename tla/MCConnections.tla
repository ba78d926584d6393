----------------------------- MODULE MCConnections -----------------------------
(***************************************************************************)
(* Names of at most 2 characters, users of at most 2, paths of at most 5,  *)
(* files of 11 blocks, blocks of 2 bytes.                                  *)
(***************************************************************************)
EXTENDS Connections

CONSTANTS c1, c2

Block == <<"D", "D">>

Types      == {"FS_READBLOCK", "FS_WRITEBLOCK", "FS_CREATE", "FS_DELETE", "FS_NONE"}
Separators == {<<" ">>, <<"\t">>}
Users      == {<<"u", "u">>, <<"u", "u", "u">>}
Paths      == {<<"/">>, <<"/", "a">>, <<"/", "a", "/">>, <<"/", "/", "a">>, <<"/", "a", "/", "b">>, <<"a", "/", "b">>,
               <<"/", "a", "b">>, <<"/", "a", "b", "c">>, <<"/", "a", "/", "b", "/", "c">>}
Arguments  == {<<>>, <<" ", "f">>, <<" ", "1">>, <<" ", "1", "0">>, <<" ", "1", "1">>, <<" ", "1", "f">>,
               <<" ", "0", "0", "1">>, <<" ", "0", "0", "0", "1">>, <<" ", " ", "1">>, <<" ", "1", " ">>}

\* Streams that are close to the grammar: each of its rules kept or broken, the
\* type's with the separators' and the argument's, and the user's with the path's.
NearStreams ==
  {<<t>> \o s \o <<"u", " ", "/", "a">> \o a \o <<"NUL">> \o Block :
     t \in Types, s \in Separators, a \in Arguments}
  \cup
  {<<r[1], " ">> \o w \o <<" ">> \o p \o r[2] \o <<"NUL">> \o Block :
     w \in Users, p \in Paths,
     r \in {<<"FS_DELETE", <<>>>>, <<"FS_CREATE", <<" ", "f">>>>, <<"FS_WRITEBLOCK", <<" ", "1">>>>}}

\* Requests, a header that is too long, and everything that ends before they do.
PlainStreams ==
  UNION {{SubSeq(s, 1, n) : n \in 0..Len(s)} : s \in
    {<<"FS_DELETE", " ", "u", " ", "/", "a", "NUL">>,
     <<"FS_WRITEBLOCK", " ", "u", " ", "/", "a", " ", "0", "NUL">> \o Block,
     <<"FS_WRITEBLOCK", " ", "u", " ", "/", " ", "0", "NUL">> \o Block,
     <<"FS_WRITEBLOCK", " ", "u", "u", " ", "/", "a", "/", "b", "b", " ", "0", "0", "1", "NUL">> \o Block \o Block,
     [i \in 1..15 |-> "a"]}}

PairsOfStreams ==
  [Connection -> {<<"FS_DELETE", " ", "u", " ", "/", "a", "NUL">>,
                  <<"FS_WRITEBLOCK", " ", "u", " ", "/", "a", " ", "0", "NUL">> \o Block}]

SomeStreams == PairsOfStreams \cup {c1 :> s @@ c2 :> <<>> : s \in NearStreams \cup PlainStreams}

SomeRequests ==
  [type : {"FS_READBLOCK", "FS_WRITEBLOCK"}, user : {<<"u">>, <<"u", "u">>},
   path : {<<<<"a">>>>, <<<<"a">>, <<"b">>>>, <<<<"a", "b">>>>, <<<<"a">>, <<"b", "b">>>>}, arg : {<<"1">>, <<"1", "0">>, <<"0", "0", "1">>}]
  \cup
  [type : {"FS_CREATE"}, user : {<<"u">>, <<"u", "u">>},
   path : {<<<<"a">>>>, <<<<"a">>, <<"b">>>>, <<<<"a", "b">>>>}, arg : {<<"f">>}]
  \cup
  [type : {"FS_DELETE"}, user : {<<"u">>}, path : {<<<<"a">>>>, <<<<"a">>, <<"b">>>>}, arg : {<<>>}]
=============================================================================
