--------------------------- MODULE SnapshotCache ---------------------------
(***************************************************************************)
(* snapshot_cache.py and the MCP context servers in front of it            *)
(* (mcp_server.py): several server processes share one cache directory,    *)
(* each answers one request at a time, files of the source tree are        *)
(* touched underneath, and any process may be killed.                      *)
(*                                                                         *)
(* store() writes ".<key>.tmp" and then renames it over "<key>.json"; the  *)
(* temporary name is the same for every process that stores that key, so   *)
(* one process may rename a file another still writes.  A server that      *)
(* writes remembers where its open file went ("fd").                       *)
(* A payload is abstracted to the request it answers, the version of the   *)
(* tree it was computed from and its "_cache" stamp; a file's age to       *)
(* whether it exceeds --cache-ttl.                                         *)
(***************************************************************************)
EXTENDS Naturals

CONSTANTS
    Server,         \* server processes
    Request,        \* (tool, arguments) pairs
    AddonsPath,     \* whether --addons-path is given
    MaxTree         \* bound: touches of the source tree

ASSUME CacheAssumption ==
    MaxTree \in Nat /\ AddonsPath \in BOOLEAN /\ Request # {}

Tree == 0..MaxTree

\* A touch flips mtimes, so a version of the tree never comes back.
addons_fingerprint(t) == IF AddonsPath THEN t ELSE 0

\* Mutants: the fingerprint, or the arguments, are left out of the key.
cache_key_unversioned(r, f) == [request |-> r, fingerprint |-> 0]
cache_key_by_tool(r, f) == [request |-> CHOOSE x \in Request : TRUE, fingerprint |-> f]

cache_key(r, f) == [request |-> r, fingerprint |-> f]

CacheKey == [request : Request, fingerprint : Tree]

Provenance == {"cold", "warm"}

Payload == [request : Request, tree : Tree, provenance : Provenance,
            merge_eligible : BOOLEAN]

\* Mutant: a stamp that is already there is kept.
mark_provenance_once(p, provenance) ==
    IF "provenance" \in DOMAIN p THEN p
    ELSE [request |-> p.request, tree |-> p.tree, provenance |-> provenance,
          merge_eligible |-> provenance = "cold"]

\* Mutant: nothing is stamped.
mark_provenance_skipped(p, provenance) == p

mark_provenance(p, provenance) ==
    [request |-> p.request, tree |-> p.tree, provenance |-> provenance,
     merge_eligible |-> provenance = "cold"]

\* A path: not there, holding text that is no JSON, or holding a record.
Nothing == [kind |-> "nothing"]
Torn == [kind |-> "torn", old |-> FALSE]
Record(p, old) == [kind |-> "record", payload |-> p, old |-> old]

Content == {Nothing} \union [kind : {"torn"}, old : BOOLEAN]
           \union [kind : {"record"}, payload : Payload, old : BOOLEAN]

NoAnswer == [kind |-> "none"]
Failure == [kind |-> "error"]
Answer(p) == [kind |-> "result", payload |-> p]

Answers == {NoAnswer, Failure} \union [kind : {"result"}, payload : Payload]

Step == {"down", "idle", "stat", "read", "handler", "open", "write", "rename"}

Process == [step : Step, fingerprint : Tree, request : Request, since : Tree,
            payload : Answers, fd : {"none", "temp", "file", "gone"},
            answer : Answers]

VARIABLES
    tree,       \* the version of the source tree now
    server,     \* the server processes
    file,       \* <key>.json for each key
    temp        \* .<key>.tmp for each key

cacheVars == <<tree, server, file, temp>>

CacheTypeOK ==
    /\ tree \in Tree
    /\ server \in [Server -> Process]
    /\ file \in [CacheKey -> Content]
    /\ temp \in [CacheKey -> Content]

Down == [step |-> "down", fingerprint |-> 0, since |-> 0, payload |-> NoAnswer,
         request |-> CHOOSE r \in Request : TRUE, fd |-> "none", answer |-> NoAnswer]

CacheInit ==
    /\ tree = 0
    /\ server = [s \in Server |-> Down]
    /\ file = [k \in CacheKey |-> Nothing]
    /\ temp = [k \in CacheKey |-> Nothing]

key(s) == cache_key(server[s].request, server[s].fingerprint)

-----------------------------------------------------------------------------
(* The life of a process.  The fingerprint is computed once, by            *)
(* _build_cache, before the first request.                                 *)

Start(s) ==
    /\ server[s].step = "down"
    /\ server' = [server EXCEPT ![s].step = "idle",
                                ![s].fingerprint = addons_fingerprint(tree)]
    /\ UNCHANGED <<tree, file, temp>>

Kill(s) ==
    /\ server[s].step # "down"
    /\ server' = [server EXCEPT ![s] = Down]
    /\ UNCHANGED <<tree, file, temp>>

Receive(s, r) ==
    /\ server[s].step = "idle"
    /\ server' = [server EXCEPT ![s].step = "stat", ![s].request = r,
                                ![s].since = tree, ![s].answer = NoAnswer]
    /\ UNCHANGED <<tree, file, temp>>

Reply(s, answer) ==
    [server EXCEPT ![s].step = "idle", ![s].answer = answer,
                   ![s].payload = NoAnswer, ![s].fd = "none"]

-----------------------------------------------------------------------------
(* lookup: the age is taken from stat, the text is read afterwards.        *)

LookupStat(s) ==
    /\ server[s].step = "stat"
    /\ LET f == file[key(s)]
           usable == f # Nothing /\ ~f.old
       IN  server' = [server EXCEPT ![s].step = IF usable THEN "read" ELSE "handler"]
    /\ UNCHANGED <<tree, file, temp>>

\* Mutant: a lookup waits until there is something to read.
LookupReadWaiting(s) ==
    /\ server[s].step = "read"
    /\ file[key(s)].kind = "record"
    /\ server' = Reply(s, Answer(mark_provenance(file[key(s)].payload, "warm")))
    /\ UNCHANGED <<tree, file, temp>>

LookupRead(s) ==
    /\ server[s].step = "read"
    /\ LET f == file[key(s)]
       IN  server' = IF f.kind = "record"
                     THEN Reply(s, Answer(mark_provenance(f.payload, "warm")))
                     ELSE [server EXCEPT ![s].step = "handler"]
    /\ UNCHANGED <<tree, file, temp>>

-----------------------------------------------------------------------------
(* A miss: the handler runs odoo-bin, then the result is stored, then it   *)
(* is returned.  A fault anywhere is returned as the tool's result.        *)

HandlerFault(s) ==
    /\ server[s].step = "handler"
    /\ server' = Reply(s, Failure)
    /\ UNCHANGED <<tree, file, temp>>

Cold(s) ==
    /\ server[s].step = "handler"
    /\ LET p == mark_provenance([request |-> server[s].request, tree |-> tree], "cold")
       IN  server' = [server EXCEPT ![s].step = "open", ![s].payload = Answer(p)]
    /\ UNCHANGED <<tree, file, temp>>

\* write_text opens the temporary file, creating or truncating it.
StoreOpen(s) ==
    /\ server[s].step = "open"
    /\ temp' = [temp EXCEPT ![key(s)] = Torn]
    /\ server' = [server EXCEPT ![s].step = "write", ![s].fd = "temp"]
    /\ UNCHANGED <<tree, file>>

\* Writing over a text of another length may leave a tail of the old one.
Written(s, old) ==
    {Record(server[s].payload.payload, FALSE)}
    \union (IF old.kind = "record" THEN {Torn} ELSE {})

StoreWrite(s) ==
    /\ server[s].step = "write"
    /\ \/ /\ server[s].fd = "temp"
          /\ \E c \in Written(s, temp[key(s)]) : temp' = [temp EXCEPT ![key(s)] = c]
          /\ UNCHANGED file
       \/ /\ server[s].fd = "file"
          /\ \E c \in Written(s, file[key(s)]) : file' = [file EXCEPT ![key(s)] = c]
          /\ UNCHANGED temp
       \/ server[s].fd = "gone" /\ UNCHANGED <<file, temp>>
    /\ server' = [server EXCEPT ![s].step = "rename", ![s].fd = "none"]
    /\ UNCHANGED tree

\* A process that has the temporary file of key k open keeps it through the
\* rename; one that has the replaced file open is left with an unnamed file.
Renamed(k) ==
    [t \in Server |->
        IF server[t].step # "write" \/ key(t) # k THEN server[t]
        ELSE [server[t] EXCEPT !.fd = IF @ = "temp" THEN "file" ELSE "gone"]]

\* os.replace fails when another process has renamed the file already.
StoreRename(s) ==
    /\ server[s].step = "rename"
    /\ temp[key(s)] # Nothing
    /\ file' = [file EXCEPT ![key(s)] = temp[key(s)]]
    /\ temp' = [temp EXCEPT ![key(s)] = Nothing]
    /\ server' = [Renamed(key(s)) EXCEPT
                    ![s] = Reply(s, server[s].payload)[s]]
    /\ UNCHANGED tree

StoreFault(s) ==
    /\ \/ server[s].step \in {"open", "write"}
       \/ server[s].step = "rename" /\ temp[key(s)] = Nothing
    /\ server' = Reply(s, Failure)
    /\ UNCHANGED <<tree, file, temp>>

-----------------------------------------------------------------------------
(* The world around the servers.                                           *)

Touch ==
    /\ tree < MaxTree
    /\ tree' = tree + 1
    /\ UNCHANGED <<server, file, temp>>

Expire(k) ==
    /\ file[k] # Nothing /\ ~file[k].old
    /\ file' = [file EXCEPT ![k].old = TRUE]
    /\ UNCHANGED <<tree, server, temp>>

\* "snapshot_cache.py clear" unlinks *.json one by one.
Clear(k) ==
    /\ file[k] # Nothing
    /\ file' = [file EXCEPT ![k] = Nothing]
    /\ server' = [t \in Server |->
          IF server[t].step = "write" /\ key(t) = k /\ server[t].fd = "file"
          THEN [server[t] EXCEPT !.fd = "gone"] ELSE server[t]]
    /\ UNCHANGED <<tree, temp>>

Serve(s) ==
    \/ LookupStat(s) \/ LookupRead(s)
    \/ HandlerFault(s) \/ Cold(s)
    \/ StoreOpen(s) \/ StoreWrite(s) \/ StoreRename(s) \/ StoreFault(s)

CacheNext ==
    \/ \E s \in Server : Start(s) \/ Kill(s) \/ Serve(s)
    \/ \E s \in Server, r \in Request : Receive(s, r)
    \/ Touch
    \/ \E k \in CacheKey : Expire(k) \/ Clear(k)

CacheSpec == CacheInit /\ [][CacheNext]_cacheVars

\* serve() handles each line to the end before it reads the next, and every
\* handler has a timeout, so a server at work keeps taking steps.
FairCacheSpec == CacheSpec /\ \A s \in Server : WF_cacheVars(Serve(s))

-----------------------------------------------------------------------------
(* Properties                                                              *)

Answered(s) == server[s].answer.kind = "result"

\* An answer is for the request that was asked, however the processes that
\* share the directory overlap in store, lookup and clear.
AnswersTheRequest ==
    \A s \in Server :
        Answered(s) => server[s].answer.payload.request = server[s].request

\* Only an answer computed for this very request may be used to approve a
\* merge: whatever is eligible was computed no earlier than the request came.
EligibleIsFresh ==
    \A s \in Server :
        Answered(s) /\ server[s].answer.payload.merge_eligible
            => server[s].answer.payload.tree >= server[s].since

\* With --addons-path, no answer is older than the server that gives it: what
\* an earlier server stored about an earlier tree is never served.
NeverOlderThanServer ==
    AddonsPath => \A s \in Server :
        Answered(s) => server[s].answer.payload.tree >= server[s].fingerprint

\* Every request is answered, if only by an error, unless the process is
\* killed: no step of the cache waits for another process.
Responds ==
    \A s \in Server :
        server[s].step = "stat" ~> server[s].step \in {"idle", "down"}
=============================================================================
