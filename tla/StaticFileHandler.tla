-------------------------- MODULE StaticFileHandler --------------------------
(***************************************************************************)
(* What a worker does with a request: main()'s task asks the Router, and   *)
(* then StaticFileHandler::handle, which resolves the path, opens it, and  *)
(* serves a small file from a cache the workers share under one lock.      *)
(*                                                                         *)
(* The lock is not held while the file is read, and the files change under *)
(* the server.  A content is a version of a file; a write in place changes *)
(* what an open descriptor reads, a replaced file does not.  The cache is  *)
(* kept as the code keeps it, a map and a list whose nodes the entries     *)
(* point to: a node may outlive its entry, and then the list names a path  *)
(* twice.                                                                  *)
(***************************************************************************)
EXTENDS Router, SequencesExt

CONSTANTS Workers,       \* the threads that run handle() at the same time
          Names,         \* the files of the directory
          Kind,          \* of each: "small", "large", "huge", "special", "fifo"
          Files,         \* which of them lies at a path from the directory
          Directories,   \* the paths of the directories, its own among them
          Menus,         \* sets of [method, path]: what clients may ask for
          MaxCacheEntries,   \* kMaxCacheEntries
          MaxVersions,   \* bound: the versions of each file
          None           \* no file, no descriptor, no reply

ASSUME HandlerAssumption ==
    /\ \A m \in Menus : m \subseteq [method : STRING, path : Seq(STRING)]
    /\ Kind \in [Names -> {"small", "large", "huge", "special", "fifo"}]
    /\ \A at \in DOMAIN Files : Files[at] \in Names
    /\ \A at, by \in DOMAIN Files : Files[at] = Files[by] => at = by
    /\ MaxCacheEntries \in Nat \ {0}
    /\ MaxVersions \in [Names -> Nat \ {0}]

(* None is none of the values it stands in for.                            *)
ASSUME NoneAssumption ==
    /\ None \notin Names
    /\ None \notin [method : STRING, path : Seq(STRING)]
    /\ None \notin [method : STRING, path : Seq(STRING),
                    held : [content : Nat, modified : Nat] \union {None}]
    /\ None \notin [content : Nat, modified : Nat]
    /\ None \notin [content : Nat, mtime : Nat, linked : BOOLEAN]

VARIABLES
    menu,          \* what the clients of this run ask for
    enabled,       \* enabled_: the directory was there at the start
    stamps,        \* st_mtime of each version of each file, in seconds
    place,         \* what a path holds: a file, nothing, a link to elsewhere
    cacheMap,      \* cacheMap_: [content, mtime, node] of some of the files
    lruList,       \* lruList_: [path, node], the last one used in front
    pc,            \* where each worker stands
    request,       \* its request, with the copy its client holds
    fd,            \* its descriptor: what it reads, and st_mtime when opened
    answer,        \* its last response
    seen           \* history: what the path has held since the request

setup == <<menu, enabled>>
diskVars  == <<stamps, place>>
cacheVars == <<cacheMap, lruList>>
workVars  == <<pc, request, fd, answer, seen>>
vars == <<setup, diskVars, cacheVars, workVars>>

Requests == UNION Menus

(***************************************************************************)
(* Responses: the status, the route that answered with its parameters, or  *)
(* the version of the file that is sent and its Last-Modified.  A worker   *)
(* that has not answered yet has none.                                     *)
(***************************************************************************)
Status(code) == [code |-> code, route |-> 0, args |-> {}, content |-> 0, modified |-> 0]
Unanswered == Status(0)
Body(content, modified) ==
    [Status(200) EXCEPT !.content = content, !.modified = modified]

Init ==
    /\ menu \in Menus
    /\ enabled \in BOOLEAN
    /\ stamps = [f \in Names |-> <<1>>]
    /\ place = [f \in Names |-> "file"]
    /\ cacheMap = <<>> /\ lruList = <<>>
    /\ pc = [w \in Workers |-> "idle"]
    /\ request = [w \in Workers |-> None]
    /\ fd = [w \in Workers |-> None]
    /\ answer = [w \in Workers |-> Unanswered]
    /\ seen = [w \in Workers |-> {}]

(* realpath: slashes in a row count as one, "." for nothing, and a slash   *)
(* or a dot after the name of a file is an error.                          *)
Canonical(path) == SelectSeq(path, LAMBDA s : s \notin {"", "."})
EndsInName(path) == path[Len(path)] \notin {"", "."}

(* What a directory is asked for: "index.html" comes after the path as it  *)
(* was written, which makes another name of a path with no slash at its    *)
(* end.                                                                    *)
IndexPath_mutated(path) == Append(path, "index.html")
IndexPath(path) == [path EXCEPT ![Len(path)] = @ \o "index.html"]

(* The file handle() comes to for a path, or None.                         *)
IsDirectory(path) == Canonical(path) \in Directories
FileAt(at) == IF at \in DOMAIN Files THEN Files[at] ELSE None
FileOf(path) ==
    IF IsDirectory(path) THEN FileAt(Canonical(IndexPath(path)))
    ELSE IF EndsInName(path) THEN FileAt(Canonical(path))
    ELSE None

File(w) == FileOf(request[w].path)

Version(f) == Len(stamps[f])
Look(path) ==
    IF FileOf(path) = None THEN None
    ELSE [place |-> place[FileOf(path)], version |-> Version(FileOf(path))]

(* The worker answers, and closes its descriptor.                          *)
Reply_mutated(w, r) ==
    /\ answer' = [answer EXCEPT ![w] = r]
    /\ pc' = [pc EXCEPT ![w] = "idle"]
    /\ seen' = [seen EXCEPT ![w] = {}]
    /\ UNCHANGED <<request, fd>>
Reply(w, r) ==
    /\ answer' = [answer EXCEPT ![w] = r]
    /\ pc' = [pc EXCEPT ![w] = "idle"]
    /\ fd' = [fd EXCEPT ![w] = None]
    /\ seen' = [seen EXCEPT ![w] = {}]
    /\ UNCHANGED request

Goes(w, to) == /\ pc' = [pc EXCEPT ![w] = to]
               /\ UNCHANGED <<request, answer, seen>>

(* The copy the client holds when it has its answer; after 304 the same.   *)
Held(w) ==
    LET a == answer[w]
    IN  IF a.code = 0 \/ request[w].method # "GET" THEN None
        ELSE IF a.code = 304 THEN request[w].held
        ELSE IF a.content > 0 THEN [content |-> a.content, modified |-> a.modified]
        ELSE None

(* The client's next request, with If-Modified-Since when it asks again    *)
(* for what it holds.                                                      *)
Arrives(w) ==
    /\ pc[w] = "idle"
    /\ \E r \in menu :
         /\ \E h \in {None} \union
                     (IF request[w] # None /\ r.path = request[w].path
                      THEN {Held(w)} ELSE {}) :
              request' = [request EXCEPT ![w] =
                            [method |-> r.method, path |-> r.path, held |-> h]]
         /\ seen' = [seen EXCEPT ![w] = {Look(r.path)}]
    /\ pc' = [pc EXCEPT ![w] = "route"]
    /\ answer' = [answer EXCEPT ![w] = Unanswered]
    /\ UNCHANGED <<setup, diskVars, cacheVars, fd>>

(***************************************************************************)
(* The worker's task: a route's handler takes its parameters from the map  *)
(* with at(), which throws if one is missing, and a handler that throws    *)
(* is answered with 500.                                                   *)
(***************************************************************************)
ParamsOf(i) ==
    LET p == Segments(Routes[i].pattern)
    IN  {p[j] : j \in {k \in DOMAIN p : /\ p[k] \in ParamSegs
                                        /\ \A m \in 1 .. k : p[m] \notin StarSegs}}

Handler(i, params) ==
    IF ParamsOf(i) \subseteq DOMAIN params
    THEN [Status(200) EXCEPT !.route = i, !.args = {<<n, params[n]>> : n \in ParamsOf(i)}]
    ELSE Status(500)

(* handle() up to realpath: what it refuses whatever the path holds.       *)
Refused(r) ==
    IF ~enabled \/ r.method \notin {"GET", "HEAD"} THEN Status(404)
    ELSE IF \E i \in DOMAIN r.path : r.path[i] = ".." THEN Status(403)
    ELSE Unanswered

RouteTask(w) ==
    /\ pc[w] = "route"
    /\ LET r == Route(request[w].method, request[w].path)
       IN  CASE r.result = "found" -> Reply(w, Handler(r.handler, r.params))
             [] r.result = "methodNotAllowed" -> Reply(w, Status(405))
             [] r.result = "notFound" ->
                  IF Refused(request[w]).code # 0 THEN Reply(w, Refused(request[w]))
                  ELSE Goes(w, "resolve") /\ UNCHANGED fd
    /\ UNCHANGED <<setup, diskVars, cacheVars>>

(***************************************************************************)
(* StaticFileHandler::handle                                               *)
(***************************************************************************)

(* realpath follows the link, and isWithinRoot sees where it leads.        *)
Resolve(w) ==
    /\ pc[w] = "resolve"
    /\ LET f == File(w)
       IN  IF f = None THEN Reply(w, Status(404))
           ELSE CASE place[f] = "absent" -> Reply(w, Status(404))
                  [] place[f] = "elsewhere" -> Reply(w, Status(403))
                  [] place[f] = "file" -> Goes(w, "open") /\ UNCHANGED fd
    /\ UNCHANGED <<setup, diskVars, cacheVars>>

(* openResolved with RESOLVE_NO_SYMLINKS: a link that has come in between  *)
(* is not followed.                                                        *)
Openable(f) == place[f] = "file"

(* fstat on the descriptor; the index of a directory is neither compared   *)
(* with If-Modified-Since nor cached.                                      *)
Opened(w, f, mtime) ==
    LET held == request[w].held
    IN  IF Kind[f] = "special" THEN Reply(w, Status(404))
        ELSE IF /\ ~IsDirectory(request[w].path)
                /\ request[w].method = "GET" /\ held # None
                /\ mtime <= held.modified
        THEN Reply(w, Status(304))
        ELSE IF Kind[f] = "huge" THEN Reply(w, Status(413))
        ELSE IF Kind[f] = "large" \/ IsDirectory(request[w].path)
        THEN Reply(w, Body(Version(f), mtime))
        ELSE /\ fd' = [fd EXCEPT ![w] = [content |-> Version(f),
                                         mtime |-> mtime, linked |-> TRUE]]
             /\ Goes(w, "lookup")

Open(w) ==
    /\ pc[w] = "open"
    /\ LET f == File(w)
       IN  IF ~Openable(f) THEN Reply(w, Status(404))
           ELSE IF Kind[f] = "fifo" THEN Goes(w, "blocked") /\ UNCHANGED fd
           ELSE Opened(w, f, stamps[f][Version(f)])
    /\ UNCHANGED <<setup, diskVars, cacheVars>>

(* The open of a FIFO returns when somebody opens it to write; fstat then  *)
(* says what it is.                                                        *)
WriterComes(w) ==
    /\ pc[w] = "blocked"
    /\ Reply(w, Status(404))
    /\ UNCHANGED <<setup, diskVars, cacheVars>>

(***************************************************************************)
(* The cache.  Both sections hold mtx_.                                    *)
(***************************************************************************)
WithoutNode(node) ==
    RemoveAt(lruList, CHOOSE i \in DOMAIN lruList : lruList[i].node = node)

(* A node with an address no other node has.                               *)
NewNode(list) == CHOOSE n \in 1 .. Len(list) + 1 : \A i \in DOMAIN list : list[i].node # n
Pushed(list, f) == <<[path |-> f, node |-> NewNode(list)]>> \o list

Forget(map, f) == [g \in DOMAIN map \ {f} |-> map[g]]
Store(map, f, entry) ==
    [g \in DOMAIN map \union {f} |-> IF g = f THEN entry ELSE map[g]]

Current_mutated(entry, mtime) == entry.mtime <= mtime
Current(entry, mtime) == entry.mtime = mtime

(* A hit moves the entry's node to the front; a stale entry goes from the  *)
(* map and from the list.                                                  *)
Lookup(w) ==
    /\ pc[w] = "lookup"
    /\ LET f == File(w)
       IN  IF f \notin DOMAIN cacheMap
           THEN Goes(w, "read") /\ UNCHANGED <<cacheVars, fd>>
           ELSE LET entry == cacheMap[f]
                    rest == WithoutNode(entry.node)
                IN  IF Current(entry, fd[w].mtime)
                    THEN /\ lruList' = Pushed(rest, f)
                         /\ cacheMap' = [cacheMap EXCEPT ![f].node = NewNode(rest)]
                         /\ Reply(w, Body(entry.content, fd[w].mtime))
                    ELSE /\ lruList' = rest
                         /\ cacheMap' = Forget(cacheMap, f)
                         /\ Goes(w, "read")
                         /\ UNCHANGED fd
    /\ UNCHANGED <<setup, diskVars>>

(* readFd, without the lock; a read may fail.                              *)
Read(w) ==
    /\ pc[w] = "read"
    /\ \/ /\ fd' = [fd EXCEPT ![w].linked = FALSE]
          /\ Goes(w, "insert")
       \/ Reply(w, Status(500))
    /\ UNCHANGED <<setup, diskVars, cacheVars>>

(* Nobody asks whether another worker has inserted the path meanwhile: the *)
(* entry is replaced and its node stays in the list.  What is evicted is   *)
(* the path of the last node, whichever node its entry points to.          *)
Evicted_mutated(map, list) == map
Evicted(map, list) == Forget(map, list[Len(list)].path)

Insert(w) ==
    /\ pc[w] = "insert"
    /\ LET f == File(w)
           full == Cardinality(DOMAIN cacheMap) >= MaxCacheEntries
           map == IF full THEN Evicted(cacheMap, lruList) ELSE cacheMap
           list == IF full THEN SubSeq(lruList, 1, Len(lruList) - 1) ELSE lruList
       IN  /\ lruList' = Pushed(list, f)
           /\ cacheMap' = Store(map, f, [content |-> fd[w].content,
                                         mtime |-> fd[w].mtime,
                                         node |-> NewNode(list)])
    /\ Reply(w, Body(fd[w].content, fd[w].mtime))
    /\ UNCHANGED <<setup, diskVars>>

(***************************************************************************)
(* The files change: written in place, which an open descriptor reads, or  *)
(* replaced.  st_mtime is the second of the last change or the next, or an *)
(* earlier one: a file that is moved or copied with its times brings its   *)
(* own.  A path that has lost its file gets one again.                     *)
(***************************************************************************)
Watched(f) ==
    seen' = [w \in Workers |->
                IF pc[w] = "idle" \/ FileOf(request[w].path) # f THEN seen[w]
                ELSE seen[w] \union {[place |-> place'[f], version |-> Len(stamps'[f])]}]

NewVersion(f) ==
    /\ Version(f) < MaxVersions[f]
    /\ place' = [place EXCEPT ![f] = "file"]
    /\ \E t \in 0 .. stamps[f][Version(f)] + 1 :
          stamps' = [stamps EXCEPT ![f] = Append(@, t)]
    /\ Watched(f)
    /\ UNCHANGED <<setup, cacheVars, pc, request, answer>>

Reads(w, f) == fd[w] # None /\ fd[w].linked /\ File(w) = f

WriteInPlace(f) ==
    /\ place[f] = "file"
    /\ NewVersion(f)
    /\ fd' = [w \in Workers |-> IF Reads(w, f) THEN [fd[w] EXCEPT !.content = @ + 1]
                                               ELSE fd[w]]

Unlinked(f) ==
    fd' = [w \in Workers |-> IF Reads(w, f) THEN [fd[w] EXCEPT !.linked = FALSE]
                                            ELSE fd[w]]

Replace(f) == NewVersion(f) /\ Unlinked(f)

RemoveFile(f) ==
    /\ place[f] = "file"
    /\ Version(f) < MaxVersions[f]
    /\ \E p \in {"absent", "elsewhere"} : place' = [place EXCEPT ![f] = p]
    /\ UNCHANGED <<setup, stamps, cacheVars, pc, request, answer>>
    /\ Unlinked(f)
    /\ Watched(f)

WorkerStep(w) == Arrives(w) \/ RouteTask(w) \/ Resolve(w) \/ Open(w)
                    \/ WriterComes(w) \/ Lookup(w) \/ Read(w) \/ Insert(w)
FilesChange(f) == WriteInPlace(f) \/ Replace(f) \/ RemoveFile(f)

Next == \/ \E w \in Workers : WorkerStep(w)
        \/ \E f \in Names : FilesChange(f)

Spec == Init /\ [][Next]_vars

-----------------------------------------------------------------------------
(***************************************************************************)
(* Properties                                                              *)
(***************************************************************************)

(* A descriptor is open exactly while a worker may still read it, whatever *)
(* way handle() returns; what is cached is a version the file has had.     *)
TypeOK ==
    /\ stamps \in [Names -> Seq(Nat)]
    /\ place \in [Names -> {"file", "absent", "elsewhere"}]
    /\ \A f \in DOMAIN cacheMap : /\ f \in Names
                                  /\ cacheMap[f].content \in 1 .. Version(f)
                                  /\ cacheMap[f].mtime \in Nat
                                  /\ cacheMap[f].node \in Nat \ {0}
    /\ \A i \in DOMAIN lruList : /\ lruList[i].path \in Names
                                 /\ lruList[i].node \in Nat \ {0}
    /\ pc \in [Workers -> {"idle", "route", "resolve", "open", "blocked",
                        "lookup", "read", "insert"}]
    /\ \A w \in Workers : (fd[w] # None) <=> (pc[w] \in {"lookup", "read", "insert"})

(* An entry's iterator always points to a node of the list, and to one of  *)
(* its own path, however the two locked sections of the workers alternate: *)
(* lruList_.erase(it) is only called on a node that is there, and back()   *)
(* and pop_back() only on a list that has one.                             *)
EntriesValid ==
    /\ \A f \in DOMAIN cacheMap :
          \E i \in DOMAIN lruList : lruList[i] = [path |-> f, node |-> cacheMap[f].node]
    /\ \A i, j \in DOMAIN lruList : lruList[i].node = lruList[j].node => i = j

(* Every answer is one RequestService allows: the declared route's, with   *)
(* its own parameters, and never a handler's exception for want of one; or *)
(* a content of the file as old as the file was while it was being served, *)
(* from the disk, from another worker's cache entry, or in the client's    *)
(* hands when it is told 304.                                              *)
Meaning(w) ==
    LET a == answer[w]
    IN  IF a.code = 0 THEN None
        ELSE [code |-> IF a.code = 304 THEN 200 ELSE a.code,
              from |-> IF a.route > 0 THEN <<"route", a.route>>
                       ELSE IF a.code = 304 THEN <<File(w), request[w].held.content>>
                       ELSE IF a.content > 0 THEN <<File(w), a.content>>
                       ELSE None,
              args |-> a.args]

Service == INSTANCE RequestService WITH
    Parts <- Segments,
    Location <- Canonical,
    asked <- [w \in Workers |->
                IF pc[w] = "idle" THEN None
                ELSE [method |-> request[w].method, path |-> request[w].path]],
    reply <- [w \in Workers |-> Meaning(w)]

ImplementsRequestService == Service!Spec

-----------------------------------------------------------------------------
(* What the comments and documents say, and the code does not do.          *)

(* The cache never holds more than kMaxCacheEntries files.                 *)
CacheBounded == Cardinality(DOMAIN cacheMap) <= MaxCacheEntries
=============================================================================
