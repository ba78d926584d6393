------------------------------ MODULE FileSystem ------------------------------
(***************************************************************************)
(* What the file server of Project4 promises its clients: a tree of files  *)
(* and directories on which every request takes effect at once, at some    *)
(* moment between its arrival and its answer, or not at all if it fails or *)
(* the server ends first.  The restrictions are those of the checks in     *)
(* file_server.cpp; nothing is said of blocks, locks or free lists.        *)
(***************************************************************************)
EXTENDS Naturals, Sequences

CONSTANTS Handler, Request, NoReq,
          Path,          \* the paths requests speak of, closed under prefixes
          InitialTree,   \* the tree at the start
          Absent,        \* the node of a path that does not exist
          Value, Junk    \* contents of a block, and contents nobody chose

VARIABLES tree,          \* path -> node
          call,          \* the request each handler serves
          result         \* its outcome, or "none" before it takes effect

vars == <<call, result, tree>>

Node(type, owner, data) == [type |-> type, owner |-> owner, data |-> data]

Exists(path) == tree[path] # Absent
IsDirOf(path, user)  == Exists(path) /\ tree[path].type = "d" /\ tree[path].owner = user
IsFileOf(path, user) == Exists(path) /\ tree[path].type = "f" /\ tree[path].owner = user
Reachable(path, user) == \A n \in 1 .. Len(path) - 1 : IsDirOf(SubSeq(path, 1, n), user)
Empty(path) == \A p \in Path : Exists(p) => ~(Len(p) = Len(path) + 1 /\ SubSeq(p, 1, Len(path)) = path)

\* When a request may succeed.
Allowed(r) ==
  /\ Reachable(r.path, r.user)
  /\ CASE r.op = "create" -> ~Exists(r.path)
       [] r.op = "delete" -> /\ Exists(r.path) /\ tree[r.path].owner = r.user
                             /\ tree[r.path].type = "d" => Empty(r.path)
       [] r.op = "read"   -> IsFileOf(r.path, r.user) /\ r.block < Len(tree[r.path].data)
       [] r.op = "write"  -> IsFileOf(r.path, r.user) /\ r.block <= Len(tree[r.path].data)

\* It may fail all the same if it needs space.
NeedsSpace(r) ==
  r.op = "create" \/ (r.op = "write" /\ (Allowed(r) => r.block = Len(tree[r.path].data)))

\* The block of a file that a write stores.
Stored(r) == IF r.data = Junk THEN Value \cup {Junk} ELSE {r.data}

Succeed(h, answer, node) ==
  /\ result' = [result EXCEPT ![h] = answer]
  /\ Allowed(call[h])
  /\ tree' = [tree EXCEPT ![call[h].path] = node]

Invoke(h, r) ==
  /\ call[h] = NoReq
  /\ call' = [call EXCEPT ![h] = r]
  /\ UNCHANGED <<result, tree>>

Apply(h) ==
  /\ call[h] # NoReq /\ result[h] = "none"
  /\ UNCHANGED call
  /\ LET r    == call[h]
         data == tree[r.path].data
     IN
     \/ r.op = "create" /\ Succeed(h, "ok", Node(r.type, r.user, <<>>))
     \/ r.op = "delete" /\ Succeed(h, "ok", Absent)
     \/ /\ r.op = "read" /\ UNCHANGED tree
        /\ Allowed(r) /\ result' = [result EXCEPT ![h] = data[r.block + 1]]
     \/ /\ r.op = "write"
        /\ \E v \in Stored(r) :
             LET new == [k \in (1 .. Len(data)) \cup {r.block + 1} |->
                           IF k = r.block + 1 THEN v ELSE data[k]]
             IN  Succeed(h, "ok", [tree[r.path] EXCEPT !.data = new])

Refuse(h) ==
  /\ call[h] # NoReq /\ result[h] = "none"
  /\ result' = [result EXCEPT ![h] = "failed"]
  /\ ~Allowed(call[h]) \/ NeedsSpace(call[h])
  /\ UNCHANGED <<call, tree>>

Respond(h) ==
  /\ result[h] # "none"
  /\ call' = [call EXCEPT ![h] = NoReq]
  /\ result' = [result EXCEPT ![h] = "none"]
  /\ UNCHANGED tree

\* The tree survives a crash of the server; the requests in progress do not.
Crash ==
  /\ call' = [h \in Handler |-> NoReq]
  /\ result' = [h \in Handler |-> "none"]
  /\ UNCHANGED tree

Init ==
  /\ tree = InitialTree
  /\ call = [h \in Handler |-> NoReq]
  /\ result = [h \in Handler |-> "none"]

Next ==
  \/ \E h \in Handler, r \in Request : Invoke(h, r)
  \/ \E h \in Handler : Apply(h) \/ Refuse(h) \/ Respond(h)
  \/ Crash

Spec == Init /\ [][Next]_vars
=============================================================================
