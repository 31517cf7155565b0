---------------------------- MODULE MultiFetcher -----------------------------
(***************************************************************************)
(* The fetcher that tries several blob sources in order                    *)
(* (s5_blobs/src/multi_fetcher.rs).  A source is a blob store, reached      *)
(* directly or through the RPC client of another node: in both cases it is *)
(* first asked whether it has the blob and then read.                      *)
(***************************************************************************)
EXTENDS BlobStore

VARIABLE fetch      \* The fetch that runs, or the last one

\* had, errs and hid are indices of sources: those that held the blob when the call
\* began, those that answered with an error, and those whose node could not look
\* and said that it has no blob.  cut: the stream of a node ended early.
NoFetch(n) == [op |-> "none", hash |-> <<>>, step |-> "idle", k |-> 0, had |-> {}, errs |-> {},
               hid |-> {}, cut |-> FALSE, n |-> n]

FetchId == <<0, fetch.n>>
Source(k) == config.sources[k]

\* A source that is another node.
Remote(k) == Source(k) \in config.remote

\* The calls that only ask whether some source has the blob.
Asks == {"exists", "exists_blinded"}

FetchEnded == {"idle", "ok", "err", "failed", "notfound", "yes", "no"}

StartFetch(op, h) ==
    /\ fetch.step \in FetchEnded
    /\ fetch.n < config.fetches
    /\ fetch' = [op |-> op, hash |-> h, k |-> 1, errs |-> {}, hid |-> {}, cut |-> FALSE,
                 n |-> fetch.n + 1,
                 step |-> IF op \in Asks THEN "ask" ELSE "have",
                 had |-> {k \in DOMAIN config.sources : contains(Source(k), h)}]
    /\ UNCHANGED storeVars

\* fetch_to_store looks into the destination first; an error there is ignored.
CheckDestination ==
    /\ fetch.step = "have"
    /\ \/ fetch' = [fetch EXCEPT !.step = IF contains(config.dest, fetch.hash) THEN "ok" ELSE "ask"]
          /\ UNCHANGED faults
       \/ faults < config.faults /\ faults' = faults + 1
          /\ fetch' = [fetch EXCEPT !.step = "ask"]
    /\ UNCHANGED <<objects, jobs, grown, removed, broken>>

\* The answer when every source has been tried.
Exhausted(f) ==
    IF f.op \in Asks THEN "no" ELSE IF f.errs = {} THEN "notfound" ELSE "failed"

NextSource(f) ==
    IF f.k < Len(config.sources) THEN [f EXCEPT !.k = @ + 1, !.step = "ask"]
    ELSE [f EXCEPT !.step = Exhausted(f)]

\* Broken variant of SourceFails: a source that fails counts as one without the blob.
SourceFailsAsAbsent(f) == NextSource(f)

\* try_fetch_from: an error is kept and the next source is tried.
SourceFails(f) == NextSource([f EXCEPT !.errs = @ \cup {f.k}])

\* A blinded hash is looked up among the hashes that the source lists.
Has(s) ==
    IF fetch.op = "exists_blinded" THEN fetch.hash \in list_hashes(s) ELSE contains(s, fetch.hash)

\* The node that answers a query takes an error of its own store for "not there".
AskSource ==
    LET there == fetch.k \in DOMAIN config.sources /\ Has(Source(fetch.k)) IN
    /\ fetch.step = "ask"
    /\ \/ /\ fetch' = IF ~there THEN NextSource(fetch)
                       ELSE [fetch EXCEPT !.step = IF fetch.op \in Asks THEN "yes" ELSE "read"]
          /\ UNCHANGED faults
       \/ /\ there /\ Remote(fetch.k)
          /\ faults < config.faults /\ faults' = faults + 1
          /\ fetch' = NextSource([fetch EXCEPT !.hid = @ \cup {fetch.k}])
    /\ UNCHANGED <<objects, jobs, grown, removed, broken>>

\* What was read is imported into the destination.
Store(c) == jobs' = With(jobs, FetchId, NewJob("bytes", config.dest, c))

\* The blob may have gone since the source was asked.  A node that does not have it
\* any more, or that cannot read on, ends the stream, and the client takes what has
\* come for the blob.
ReadSource ==
    LET s == Source(fetch.k)
        there == contains(s, fetch.hash)
    IN
    /\ fetch.step = "read"
    /\ \/ /\ there
          /\ Store(read_as_bytes(s, fetch.hash, 0, size(s, fetch.hash)))
          /\ fetch' = [fetch EXCEPT !.step = "store"]
          /\ UNCHANGED faults
       \/ /\ ~there /\ ~Remote(fetch.k)
          /\ fetch' = SourceFails(fetch)
          /\ UNCHANGED <<jobs, faults>>
       \/ /\ ~there /\ Remote(fetch.k)
          /\ Store(<<>>)
          /\ fetch' = [fetch EXCEPT !.step = "store", !.cut = TRUE]
          /\ UNCHANGED faults
       \/ /\ there /\ Remote(fetch.k)
          /\ faults < config.faults /\ faults' = faults + 1
          /\ \E n \in 0..(size(s, fetch.hash) - 1) : Store(read_as_bytes(s, fetch.hash, 0, n))
          /\ fetch' = [fetch EXCEPT !.step = "store", !.cut = TRUE]
    /\ UNCHANGED <<objects, grown, removed, broken>>

SourceError ==
    /\ fetch.step \in {"ask", "read"} /\ fetch.k \in DOMAIN config.sources
    /\ faults < config.faults
    /\ faults' = faults + 1
    /\ fetch' = SourceFails(fetch)
    /\ UNCHANGED <<objects, jobs, grown, removed, broken>>

StoreFetched ==
    /\ fetch.step = "store"
    /\ jobs[FetchId].step \in Ended
    /\ fetch' = [fetch EXCEPT !.step = jobs[FetchId].step]
    /\ jobs' = Without(jobs, FetchId)
    /\ UNCHANGED <<objects, faults, grown, removed, broken>>

FetchStep ==
    \/ CheckDestination
    \/ AskSource
    \/ ReadSource
    \/ SourceError
    \/ StoreFetched

FetchInit == fetch = NoFetch(0)

\* A source that held the blob for the whole call is passed over only if it failed
\* or could not look: the blob is reported missing when no other source kept it, and
\* a call that fails has an error from each other one that did.  A fetch that
\* succeeds has left the blob in the destination, unless it was deleted there, or
\* the source had under its hash a file that grew while it was imported, or the
\* stream of a node ended early: neither hash nor length is compared.
FetchIsRight ==
    LET lasting == {k \in fetch.had : <<Source(k), fetch.hash>> \notin removed} IN
    /\ fetch.step = "notfound" => lasting \subseteq fetch.hid
    /\ fetch.step \in {"failed", "no"} => lasting \subseteq fetch.errs \cup fetch.hid
    /\ fetch.step = "ok" =>
        \/ contains(config.dest, fetch.hash) \/ <<config.dest, fetch.hash>> \in removed
        \/ fetch.hash \in grown
        \/ fetch.cut
==============================================================================
