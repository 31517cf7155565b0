-------------------------------- MODULE MCHost -------------------------------
(***************************************************************************)
(* Instances of Host for TLC.                                              *)
(***************************************************************************)
EXTENDS Host

A == <<1>>
B == <<1, 2>>
C == <<2>>

\* What every instance starts from; each one overrides the fields of its mode.
Base ==
    [mode |-> "store", stores |-> ("s" :> LocalStore), held |-> ("s" :> {}), outboard |-> TRUE,
     dest |-> "s", faults |-> 0, crashes |-> 0, calls |-> Empty, files |-> Empty,
     sources |-> <<>>, remote |-> {}, wanted |-> {}, fetches |-> 0, importer |-> "local", relative |-> FALSE, few |-> FALSE,
     base |-> "top", links |-> Empty, max |-> 1, always |-> FALSE, runs |-> 0, edits |-> 0, editable |-> {}, contents |-> {},
     ups |-> {TRUE}, callers |-> {}, paths |-> {}, dirs |-> {}, handles |-> 0, length |-> 0,
     readOnly |-> FALSE, tree |-> NoTree, clients |-> {}, requests |-> 0, block |-> 2, inline |-> 1,
     page |-> 2]

CallOf(op, s, arg) == [op |-> op, store |-> s, arg |-> arg]

\* Two imports of one content and a delete of it, on each store; and a crash.
StoreConfig(kind, held, nfaults, ncrashes) ==
    [Base EXCEPT !.stores = ("s" :> kind), !.held = ("s" :> held), !.faults = nfaults,
                 !.crashes = ncrashes,
                 !.calls = (1 :> CallOf("bytes", "s", B)) @@ (2 :> CallOf("stream", "s", B))
                           @@ (3 :> CallOf("delete", "s", B))]

StoreConfigs ==
    {StoreConfig(k, {}, 1, 0) : k \in {LocalStore, MemoryStore, S3Store, SiaStore}}
    \cup {StoreConfig(k, {B}, 0, 0) : k \in {LocalStore, SiaStore}}
    \cup {StoreConfig(LocalStore, {}, 1, 1)}

\* Two sources and a destination, while one source loses the blob; the sources are
\* stores or nodes.
FetchConfigs ==
    {[Base EXCEPT !.remote = hn[2], !.mode = "fetch", !.stores = [x \in {"s", "t", "d"} |-> LocalStore], !.dest = "d",
                  !.held = ("s" :> hn[1]) @@ ("t" :> {B}) @@ ("d" :> {}),
                  !.faults = 2, !.crashes = 1, !.sources = <<"s", "t">>, !.wanted = {B, C}, !.fetches = 2,
                  !.calls = (1 :> CallOf("delete", "s", B))] :
        hn \in {<<{}, {}>>, <<{B}, {}>>, <<{B}, {"s"}>>, <<{}, {"t"}>>}}

File(c) == [data |-> c, time |-> 1, up |-> TRUE]

\* Two files, of which one changes and the process may stop, at once or one after
\* the other into a directory; and one file that changes twice.
LocalConfigs ==
    {[Base EXCEPT !.mode = "import", !.files = ("a" :> File(A)) @@ ("b" :> File(C)),
                  !.max = m, !.relative = (m = 1), !.few = (m = 2), !.runs = 2, !.edits = 2,
                  !.editable = {"a"}, !.contents = {B}, !.outboard = FALSE, !.crashes = m - 1,
                  !.faults = m - 1] : m \in {1, 2}}
    \cup
    {[Base EXCEPT !.mode = "import", !.files = ("a" :> File(A)), !.always = always, !.few = ~always, !.runs = 3,
                  !.edits = 3, !.editable = {"a"}, !.contents = {B, C}, !.ups = BOOLEAN] :
        always \in BOOLEAN}

\* A page that links to a file twice removed and to one without Last-Modified.
HttpConfigs ==
    {[Base EXCEPT !.mode = "import", !.importer = "http", !.stores = ("s" :> S3Store),
                  !.files = ("top" :> File(<<>>)) @@ ("sub" :> File(<<>>)) @@ ("a" :> File(A))
                            @@ ("b" :> [File(C) EXCEPT !.time = 0]),
                  !.links = ("top" :> {"sub", "a", "top"}) @@ ("sub" :> {"a", "b"}),
                  !.max = 1, !.few = TRUE, !.runs = 2, !.edits = 2, !.editable = {"a", "b"}, !.contents = {B}, !.ups = BOOLEAN, !.faults = 1]}

\* Two callers that write one file, or into a directory that one of them makes;
\* and one caller whose steps fail.
MountConfig(n, paths, dirs, nhandles, nfaults, ncrashes) ==
    [Base EXCEPT !.mode = "mount", !.callers = 1..n, !.paths = paths, !.dirs = dirs,
                 !.handles = nhandles, !.length = 1, !.contents = {A}, !.faults = nfaults,
                 !.crashes = ncrashes]

MountConfigs ==
    {MountConfig(2, {<<"a">>}, {}, 2, 0, 1),
     MountConfig(2, {<<"d", "a">>}, {<<"d">>}, 1, 0, 1),
     MountConfig(1, {<<"a">>}, {}, 2, 1, 1),
     MountConfig(1, {<<"a">>, <<"d", "a">>}, {<<"d">>}, 2, 1, 0)}

P(n) == [plain |-> n]

\* Contents that fit into the directory, into one block, and into one block and a
\* byte; and a file that a node has put into the root unencrypted.
ClientConfig(n, contents, paths, nrequests, nfaults, ncrashes) ==
    [Base EXCEPT !.mode = "client", !.clients = 1..n, !.requests = nrequests, !.contents = contents,
                 !.stores = ("s" :> LocalStore), !.held = ("s" :> {<<P(1)>>}),
                 !.paths = paths, !.dirs = IF ncrashes = 0 THEN {<<"d">>} ELSE {}, !.faults = nfaults, !.crashes = ncrashes,
                 !.tree = [NoTree EXCEPT !.files = (<<"a">> :> FileRef(<<P(1)>>, 1, 0))]]

ClientConfigs ==
    {ClientConfig(2, {<<P(2)>>, <<P(1), P(2)>>}, {<<"a">>}, 3, 0, 1),
     ClientConfig(2, {<<P(1), P(2)>>}, {<<"a">>}, 3, 1, 0),
     ClientConfig(1, {<<P(1), P(2), P(1)>>}, {<<"a">>, <<"b">>, <<"c">>}, 3, 1, 0)}

MCConfigs == ClientConfigs \cup StoreConfigs \cup FetchConfigs \cup LocalConfigs \cup HttpConfigs \cup MountConfigs
==============================================================================
