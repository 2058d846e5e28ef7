------------------------------ MODULE MarketData ------------------------------
(***************************************************************************)
(* A load of daily prices (gather.py, data_port.py) and what stops it.     *)
(*                                                                         *)
(* run_with_deadline runs the load on a thread of its own (io) while the   *)
(* thread that asked (caller) waits; the load looks each symbol up in the  *)
(* price cache on disk, hands the missing ones to a small pool of fetch    *)
(* threads, and collects what they finish.  The caller may give up at its  *)
(* deadline, or the research may be deleted: both cancel the generation of *)
(* the load, which every thread only notices at its next check.  Threads   *)
(* are never interrupted, so a load outlives its answer.                   *)
(*                                                                         *)
(* A window is a set of days, a series the set of days it has a price for. *)
(***************************************************************************)
EXTENDS Naturals, FiniteSets

CONSTANTS
    Loads, Threads, Researches, Sources, Symbols,
    ThreadOf, OwnerOf, SymbolsOf, WindowOf,  \* functions on Loads
    Before,           \* the providers, each with the cache an earlier engine left
    Workers,          \* YAHOO_FETCH_CONCURRENCY, cn_market_data_max_workers
    RateAttempts,     \* MAX_RATE_LIMIT_ATTEMPTS
    SymbolAttempts,   \* SYMBOL_FETCH_ATTEMPTS
    None

ASSUME LoadsAssumption ==
    /\ IsFiniteSet(Loads)
    /\ ThreadOf \in [Loads -> Threads]
    /\ OwnerOf \in [Loads -> Researches \cup {None}]
    /\ SymbolsOf \in [Loads -> (SUBSET Symbols) \ {{}}]
ASSUME AttemptsAssumption ==
    /\ Workers \in Nat \ {0}
    /\ RateAttempts \in Nat \ {0}
    /\ SymbolAttempts \in Nat \ {0}
\* The cache an earlier engine left has whole entries.
ASSUME CacheAssumption ==
    /\ None \notin Loads \X Symbols
    /\ \A b \in Before :
          /\ b[1] \in Sources
          /\ DOMAIN b[2] = Sources \X Symbols
          /\ \A k \in Sources \X Symbols :
                /\ DOMAIN b[2][k] = {"meta", "csv"}
                /\ b[2][k].meta # None => b[2][k].csv \in {b[2][k].meta, {}}

VARIABLES
    source,      \* the provider of these symbols' market
    bound,       \* the generation a thread is bound to (context variable), or 0
    gens,        \* how many generations were opened
    cancelled,   \* the generations that were cancelled
    loadsOf,     \* the generations noted for a research
    removed,     \* the researches that were deleted
    gen,         \* the generation of a load
    caller,      \* what the thread that asked has been told
    io,          \* the thread of the load
    fetch,       \* where the fetch of each symbol of a load is
    seen,        \* the symbols whose fetch a load has collected
    late,        \* requests sent for a symbol after its load was cancelled
    cache,       \* the two files of a symbol: window of the .json, days of the .csv
    lock,        \* who holds the lock of the writers of the cache
    progress     \* whether the desktop is told that prices are being fetched

cancelVars == <<bound, gens, cancelled, loadsOf, removed, gen>>
vars == <<source, cancelVars, caller, io, fetch, seen, late, cache, lock, progress>>

Answers == {"frame", "failed", "cancelled", "timeout"}
\* A fetch thread is busy with a symbol.
Busy == {"retry", "checked", "sent", "put", "half"}
\* A fetch thread is done with a symbol.
Done == {"ok", "none", "failed", "cancelled"}
Replies == {"ok", "none", "limited", "broken"}

NewFetch == [pc |-> "idle", rate |-> 0, sym |-> 0, series |-> {}]

\* The fetch of a symbol is past its attempts.
Left(pc) == [NewFetch EXCEPT !.pc = pc]

Key(s) == <<source, s>>
Fetches(L, pcs) == {s \in SymbolsOf[L] : fetch[L][s].pc \in pcs}
IsCancelled(L) == gen[L] \in cancelled
\* One missing symbol is fetched by the load's own thread, more by a pool.
Pooled(L) ==
    Workers > 1 /\ Cardinality(SymbolsOf[L] \ Fetches(L, {"hit"})) > 1
Set(L, s, field, value) == fetch' = [fetch EXCEPT ![L][s][field] = value]

TypeOK ==
    /\ source \in Sources
    /\ bound \in [Threads -> 0..Cardinality(Loads)]
    /\ gens \in 0..Cardinality(Loads)
    /\ cancelled \subseteq 1..gens
    /\ loadsOf \in [Researches -> SUBSET (1..gens)]
    /\ removed \subseteq Researches
    /\ gen \in [Loads -> 0..gens]
    /\ caller \in [Loads -> Answers \cup {"unborn", "waiting"}]
    /\ io \in [Loads -> {"none", "queued", "look", "collect", "dropped"} \cup Answers]
    /\ \A L \in Loads, s \in Symbols :
          /\ fetch[L][s].pc \in Busy \cup Done \cup
                {"idle", "meta", "hit", "missing", "queued", "dropped"}
          /\ fetch[L][s].rate \in 0..RateAttempts - 1
          /\ fetch[L][s].sym \in 0..SymbolAttempts - 1
    /\ seen \in [Loads -> SUBSET Symbols]
    /\ lock \in (Loads \X Symbols) \cup {None}
    /\ progress \in BOOLEAN

Init ==
    /\ \E b \in Before : source = b[1] /\ cache = b[2]
    /\ bound = [t \in Threads |-> 0]
    /\ gens = 0
    /\ cancelled = {}
    /\ loadsOf = [r \in Researches |-> {}]
    /\ removed = {}
    /\ gen = [L \in Loads |-> 0]
    /\ caller = [L \in Loads |-> "unborn"]
    /\ io = [L \in Loads |-> "none"]
    /\ fetch = [L \in Loads |-> [s \in Symbols |-> NewFetch]]
    /\ seen = [L \in Loads |-> {}]
    /\ late = [L \in Loads |-> [s \in Symbols |-> 0]]
    /\ lock = None
    /\ progress = FALSE

-----------------------------------------------------------------------------
(* The thread that asks.                                                   *)

\* begin_market_data_generation: a thread that is bound keeps its generation.
Opened(L) == IF bound[ThreadOf[L]] # 0 THEN bound[ThreadOf[L]] ELSE gens + 1

\* load_daily of the port: opens a generation, notes its research, submits the load.
Begin(L) ==
    /\ caller[L] = "unborn"
    /\ \A K \in Loads : ThreadOf[K] = ThreadOf[L] => caller[K] # "waiting"
    /\ OwnerOf[L] \notin removed
    /\ LET g == Opened(L) IN
       /\ bound' = [bound EXCEPT ![ThreadOf[L]] = g]
       /\ gens' = IF g > gens THEN g ELSE gens
       /\ cancelled' = IF g > gens THEN cancelled \ {g} ELSE cancelled
       /\ gen' = [gen EXCEPT ![L] = g]
       /\ loadsOf' = [r \in Researches |->
                        IF r = OwnerOf[L] THEN loadsOf[r] \cup {g} ELSE loadsOf[r]]
    /\ caller' = [caller EXCEPT ![L] = "waiting"]
    /\ io' = [io EXCEPT ![L] = "queued"]
    /\ UNCHANGED <<source, removed, fetch, seen, late, cache, lock, progress>>

\* Slip: the token is not given back, and the thread stays bound.
KeepGeneration(t) == bound' = [bound EXCEPT ![t] = @]
\* end_market_data_generation, in the finally of run_with_deadline.
EndGeneration(t) == bound' = [bound EXCEPT ![t] = 0]

\* The load ended before the deadline.
Answer(L) ==
    /\ caller[L] = "waiting"
    /\ io[L] \in Answers
    /\ caller' = [caller EXCEPT ![L] = io[L]]
    /\ EndGeneration(ThreadOf[L])
    /\ UNCHANGED <<source, gens, cancelled, loadsOf, removed, gen, io, fetch, seen, late,
                   cache, lock, progress>>

\* Slip: shutdown waits for the load's thread, which nothing interrupts.
TimeoutWaits(L) ==
    /\ caller[L] = "waiting"
    /\ io[L] \in Answers
    /\ caller' = [caller EXCEPT ![L] = "timeout"]
    /\ cancelled' = cancelled \cup {bound[ThreadOf[L]]}
    /\ EndGeneration(ThreadOf[L])
    /\ UNCHANGED <<source, gens, loadsOf, removed, gen, io, fetch, seen, late, cache, lock, progress>>
\* The deadline: cancel the generation, drop a load that has not started, and
\* answer without waiting for the threads.
Timeout(L) ==
    /\ caller[L] = "waiting"
    /\ caller' = [caller EXCEPT ![L] = "timeout"]
    /\ cancelled' = cancelled \cup {bound[ThreadOf[L]]}
    /\ io' = [io EXCEPT ![L] = IF @ = "queued" THEN "dropped" ELSE @]
    /\ EndGeneration(ThreadOf[L])
    /\ UNCHANGED <<source, gens, loadsOf, removed, gen, fetch, seen, late, cache, lock, progress>>

\* mark_research_removed: deleting a research cancels the loads noted for it.
Remove(r) ==
    /\ r \notin removed
    /\ removed' = removed \cup {r}
    /\ cancelled' = cancelled \cup loadsOf[r]
    /\ UNCHANGED <<source, bound, gens, loadsOf, gen, caller, io, fetch, seen, late, cache,
                   lock, progress>>

-----------------------------------------------------------------------------
(* The thread of the load.                                                 *)

\* load_daily of the adapter starts.
Open(L) ==
    /\ io[L] = "queued"
    /\ io' = [io EXCEPT ![L] = "look"]
    /\ progress' = TRUE
    /\ UNCHANGED <<source, cancelVars, caller, fetch, seen, late, cache, lock>>

\* get_cached_close reads the window of the entry, without the writers' lock ...
LookWindow(L, s) ==
    /\ io[L] = "look"
    /\ fetch[L][s].pc = "idle"
    /\ Fetches(L, {"meta"}) = {}
    /\ LET entry == cache[Key(s)] IN
       Set(L, s, "pc", IF entry.meta # None /\ WindowOf[L] \subseteq entry.meta
                       THEN "meta" ELSE "missing")
    /\ UNCHANGED <<source, cancelVars, caller, io, seen, late, cache, lock, progress>>

\* ... and then the prices, cut to the window that was asked.
LookPrices(L, s) ==
    /\ io[L] = "look"
    /\ fetch[L][s].pc = "meta"
    /\ fetch' = [fetch EXCEPT ![L][s].pc = "hit",
                              ![L][s].series = cache[Key(s)].csv \cap WindowOf[L]]
    /\ UNCHANGED <<source, cancelVars, caller, io, seen, late, cache, lock, progress>>

\* The missing symbols are submitted to the fetch threads.
Submit(L) ==
    /\ io[L] = "look"
    /\ Fetches(L, {"idle", "meta"}) = {}
    /\ io' = [io EXCEPT ![L] = "collect"]
    /\ fetch' = [fetch EXCEPT ![L] = [s \in Symbols |->
                    IF @[s].pc = "missing" THEN [@[s] EXCEPT !.pc = "queued"] ELSE @[s]]]
    /\ UNCHANGED <<source, cancelVars, caller, seen, late, cache, lock, progress>>

\* Slip: the bar is cleared only by a load that delivers.
ClearedOnSuccess(answer) == IF answer = "frame" THEN FALSE ELSE progress
\* clear_market_data_progress, in the finally of load_daily.
Cleared(answer) == FALSE

\* The load leaves load_daily; what its pool has not started is dropped.
End(L, answer) ==
    /\ io' = [io EXCEPT ![L] = answer]
    /\ fetch' = [fetch EXCEPT ![L] = [s \in Symbols |->
                    IF @[s].pc = "queued" THEN [@[s] EXCEPT !.pc = "dropped"] ELSE @[s]]]
    /\ progress' = Cleared(answer)

\* Slip: a symbol whose fetch failed is left out of the frame.
NoFailure == {}
\* The fetches that end the load when they are collected.
Failure == {"failed", "cancelled"}

\* A fetch is done.  A pool checks for cancellation before it looks at the
\* result; a failed or cancelled fetch ends the load.
Collect(L, s) ==
    /\ io[L] = "collect"
    /\ fetch[L][s].pc \in Done
    /\ s \notin seen[L]
    /\ IF Pooled(L) /\ IsCancelled(L) THEN End(L, "cancelled") /\ UNCHANGED seen
       ELSE IF fetch[L][s].pc \in Failure THEN End(L, fetch[L][s].pc) /\ UNCHANGED seen
       ELSE seen' = [seen EXCEPT ![L] = @ \cup {s}] /\ UNCHANGED <<source, io, fetch, progress>>
    /\ UNCHANGED <<source, cancelVars, caller, late, cache, lock>>

\* Every symbol is accounted for: the frame is built, without those that have
\* no prices.
Finish(L) ==
    /\ io[L] = "collect"
    /\ SymbolsOf[L] = seen[L] \cup Fetches(L, {"hit"})
    /\ End(L, "frame")
    /\ UNCHANGED <<source, cancelVars, caller, seen, late, cache, lock>>

-----------------------------------------------------------------------------
(* The fetch threads.                                                      *)

\* A thread is free for a symbol: one at a time without a pool.
Free(L) ==
    Cardinality(Fetches(L, Busy)) < (IF Pooled(L) THEN Workers ELSE 1)

\* Slip: only the start of a fetch looks at the cancellation, a retry does not.
CheckedOnce(L, s) == fetch[L][s].pc = "queued" /\ IsCancelled(L)
\* raise_if_market_data_cancelled: at the start of a fetch, before each attempt
\* on a symbol, and again inside each attempt on a provider.
Stopped(L, s) == IsCancelled(L)

\* Look for a cancellation before the next request.
Check(L, s) ==
    /\ \/ fetch[L][s].pc = "queued" /\ Free(L)
       \/ fetch[L][s].pc = "retry"
    /\ fetch' = [fetch EXCEPT ![L][s] = IF Stopped(L, s) THEN Left("cancelled")
                                       ELSE [@ EXCEPT !.pc = "checked"]]
    /\ UNCHANGED <<source, cancelVars, caller, io, seen, late, cache, lock, progress>>

\* The request goes out; a cancellation since the check no longer stops it.
Send(L, s) ==
    /\ fetch[L][s].pc = "checked"
    /\ Set(L, s, "pc", "sent")
    /\ late' = [late EXCEPT ![L][s] = IF IsCancelled(L) THEN @ + 1 ELSE @]
    /\ UNCHANGED <<source, cancelVars, caller, io, seen, cache, lock, progress>>

\* call_with_rate_limit_retry, then call_with_symbol_retry: where a fetch goes
\* after an answer.  A rate limit is retried by the inner loop alone, which
\* ends with an error the outer loop does not retry.
AfterReply(f, reply) ==
    CASE reply = "limited" ->
           IF f.rate + 1 < RateAttempts
           THEN [f EXCEPT !.pc = "retry", !.rate = @ + 1]
           ELSE Left("failed")
      [] reply = "broken" ->
           IF f.sym + 1 < SymbolAttempts
           THEN [f EXCEPT !.pc = "retry", !.rate = 0, !.sym = @ + 1]
           ELSE Left("failed")

\* The provider answers: prices, none at all, HTTP 429, or any other failure.
\* Yahoo leaves a symbol without prices out; AkShare keeps its empty series.
Reply(L, s) ==
    /\ fetch[L][s].pc = "sent"
    /\ \E reply \in Replies :
          fetch' = [fetch EXCEPT ![L][s] =
             CASE reply = "ok" -> [Left("put") EXCEPT !.series = WindowOf[L]]
               [] reply = "none" -> Left(IF source = "yahoo" THEN "none" ELSE "put")
               [] OTHER -> AfterReply(@, reply)]
    /\ UNCHANGED <<source, cancelVars, caller, io, seen, late, cache, lock, progress>>

\* Slip: a writer of the cache does not wait for another.
AnyWriter == TRUE
\* The lock of put_cached_close.
OnlyWriter == lock = None

\* put_cached_close writes the prices first ...
WritePrices(L, s) ==
    /\ fetch[L][s].pc = "put"
    /\ OnlyWriter
    /\ cache' = [cache EXCEPT ![Key(s)].csv = fetch[L][s].series]
    /\ lock' = <<L, s>>
    /\ Set(L, s, "pc", "half")
    /\ UNCHANGED <<source, cancelVars, caller, io, seen, late, progress>>

\* ... and then the window they cover.  A load that was cancelled does so too.
WriteWindow(L, s) ==
    /\ fetch[L][s].pc = "half"
    /\ cache' = [cache EXCEPT ![Key(s)].meta = WindowOf[L]]
    /\ lock' = None
    /\ fetch' = [fetch EXCEPT ![L][s] = Left("ok")]
    /\ UNCHANGED <<source, cancelVars, caller, io, seen, late, progress>>

-----------------------------------------------------------------------------
Next ==
    \/ \E L \in Loads :
          \/ Begin(L) \/ Answer(L) \/ Timeout(L)
          \/ Open(L) \/ Submit(L) \/ Finish(L)
          \/ \E s \in SymbolsOf[L] :
                \/ LookWindow(L, s) \/ LookPrices(L, s) \/ Collect(L, s)
                \/ Check(L, s) \/ Send(L, s) \/ Reply(L, s)
                \/ WritePrices(L, s) \/ WriteWindow(L, s)
    \/ \E r \in Researches : Remove(r)

Spec == Init /\ [][Next]_vars

\* Only the clock is fair: a provider may never answer.
FairSpec == Spec /\ \A L \in Loads : WF_vars(Timeout(L))

-----------------------------------------------------------------------------
(* What a failed symbol must not do is look like a smaller pool: a frame   *)
(* holds every symbol but those the provider said have no prices, whatever *)
(* was cancelled, limited or broken on the way (gather.py:426-429).        *)
FrameIsWhole ==
    \A L \in Loads : caller[L] = "frame" =>
       \A s \in SymbolsOf[L] : fetch[L][s].pc \in {"hit", "ok", "none"}

(* After a deadline or a deletion a load sends, for each symbol, at most    *)
(* the request whose check had already passed, whatever the two nested     *)
(* retry loops still had to do (market_data_timeouts.py:73).               *)
LateSendsBounded == \A L \in Loads, s \in Symbols : late[L][s] <= 1

(* While nobody writes, the two files of an entry belong to one fetch: the *)
(* prices are those of the window the entry claims, or empty, though the   *)
(* threads of live, late and cancelled loads all write it                  *)
(* (price_cache.py:88).                                                    *)
CacheAgrees ==
    lock = None => \A k \in DOMAIN cache :
                      cache[k].meta # None => cache[k].csv \in {cache[k].meta, {}}

(* The desktop says that prices are being fetched at most as long as some  *)
(* load runs, however the loads overlap and end (gather.py:414,628).       *)
IdleShowsNothing ==
    (\A L \in Loads : io[L] \notin {"look", "collect"}) => ~progress

(* A load never starts cancelled: neither an earlier deadline on the same  *)
(* thread nor a deletion of another research reaches it                    *)
(* (market_data_cancel.py:70).                                             *)
LoadsStartFresh ==
    [][\A L \in Loads : caller[L] = "unborn" /\ caller'[L] = "waiting"
                           => gen'[L] \notin cancelled']_vars

(* Every caller is answered, even when the provider is silent for ever     *)
(* (market_data_timeouts.py:69).                                           *)
EveryLoadAnswers ==
    \A L \in Loads : caller[L] = "waiting" ~> caller[L] # "waiting"

(* What a load shows is true, while it runs and after: the frame it returns *)
(* and the progress the desktop polls.                                      *)
LoadsShowTheTruth == TypeOK /\ FrameIsWhole /\ IdleShowsNothing

(* Every load starts fresh and is answered.                                 *)
LoadsAreServed == LoadsStartFresh /\ EveryLoadAnswers
=============================================================================
