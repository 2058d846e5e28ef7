---------------------------- MODULE MarketProofs ----------------------------
(***************************************************************************)
(* What the user and the providers agree on: the data that is loaded       *)
(* (MarketData) and the list of symbols it is loaded for (SymbolCard).     *)
(* The two modules share no state; the second part is at the end.          *)
(*                                                                         *)
(* For every finite set of loads, every set of symbols, threads and        *)
(* researches, every number of workers and attempts, and whatever the      *)
(* providers answer: a load starts with a generation nobody has cancelled, *)
(* a cancelled load sends at most one more request for a symbol, what      *)
(* stands in the cache while nobody writes it is whole, and a frame leaves *)
(* out no symbol but those without prices.                                 *)
(*                                                                         *)
(* None of them is inductive.  A late request is the last because a        *)
(* generation once cancelled stays cancelled (BornInv: it is never opened  *)
(* again) and the next check sees it (LateInv).  The cache is whole        *)
(* because the entry of the one writer is the only one that may be halfway *)
(* (CacheInv).  A frame is whole because each symbol that the load has     *)
(* collected was fetched or has no prices, and no fetch leaves that place  *)
(* (FrameInv); the generations stay below the loads because each load that *)
(* begins finds its thread unbound (OpenedInv).                            *)
(***************************************************************************)
EXTENDS MarketData, SymbolCard, FiniteSetTheorems, TLAPS

-----------------------------------------------------------------------------
(* The state *)

\* The fields of a fetch and of an entry of the cache.
FetchFields == {"pc", "rate", "sym", "series"}
EntryFields == {"meta", "csv"}
Keys == Sources \X Symbols
\* The attempts of a fetch are within its two retry loops.
Counted(f) == f.rate \in 0..RateAttempts - 1 /\ f.sym \in 0..SymbolAttempts - 1

\* What is indexed by what; nothing is said of the values that do not matter.
ShapeInv ==
    /\ source \in Sources
    /\ gens \in Nat
    /\ bound \in [Threads -> 0..gens]
    /\ gen \in [Loads -> 0..gens]
    /\ cancelled \subseteq 0..gens
    /\ loadsOf \in [Researches -> SUBSET (0..gens)]
    /\ caller \in [Loads -> Answers \cup {"unborn", "waiting"}]
    /\ DOMAIN io = Loads
    /\ DOMAIN fetch = Loads
    /\ \A L \in Loads : DOMAIN fetch[L] = Symbols
    /\ \A L \in Loads, s \in Symbols : DOMAIN fetch[L][s] = FetchFields
    /\ late \in [Loads -> [Symbols -> Nat]]
    /\ DOMAIN cache = Keys
    /\ \A k \in Keys : DOMAIN cache[k] = EntryFields

\* A load that has not begun has done nothing, its thread fetches nothing, and
\* a thread is bound only while it waits for a load.
BornInv ==
    /\ \A L \in Loads : caller[L] = "unborn" =>
          io[L] = "none" /\ \A s \in Symbols : late[L][s] = 0
    /\ \A L \in Loads, s \in Symbols : io[L] = "none" => fetch[L][s].pc = "idle"
    /\ \A t \in Threads : bound[t] # 0 =>
          \E L \in Loads : ThreadOf[L] = t /\ caller[L] = "waiting"

\* A symbol that got a late request belongs to a cancelled load, and the next
\* request for it would need another check.
LateInv ==
    \A L \in Loads, s \in Symbols :
       /\ late[L][s] <= 1
       /\ late[L][s] = 1 => IsCancelled(L) /\ fetch[L][s].pc # "checked"

\* An entry that is not whole is the one its only writer is at, and holds that
\* writer's prices.
Whole(k) == cache[k].meta # None => cache[k].csv \in {cache[k].meta, {}}
Halfway(k, L, s) ==
    /\ lock = <<L, s>> /\ k = Key(s) /\ fetch[L][s].pc = "half"
    /\ cache[k].csv \in {WindowOf[L], {}}
CacheInv ==
    /\ \A k \in Keys : Whole(k) \/ \E L \in Loads, s \in Symbols : Halfway(k, L, s)
    /\ \A L \in Loads, s \in Symbols :
          /\ fetch[L][s].pc = "half" => lock = <<L, s>>
                                        /\ cache[Key(s)].csv \in {WindowOf[L], {}}
          /\ fetch[L][s].pc = "put" => fetch[L][s].series \in {WindowOf[L], {}}

Inv == ShapeInv /\ BornInv /\ LateInv /\ CacheInv

-----------------------------------------------------------------------------
(* The steps that touch one fetch *)

\* A field of a fetch that is set, and the fields that are not.
LEMMA FieldSet ==
  ASSUME NEW f, DOMAIN f = FetchFields, NEW pc
  PROVE  /\ DOMAIN [f EXCEPT !.pc = pc] = FetchFields
         /\ [f EXCEPT !.pc = pc].pc = pc
         /\ [f EXCEPT !.pc = pc].series = f.series
         /\ Counted(f) => Counted([f EXCEPT !.pc = pc])
  BY DEF FetchFields, Counted

\* A fetch past its attempts.
LEMMA LeftIs ==
  ASSUME NEW pc
  PROVE  /\ DOMAIN Left(pc) = FetchFields
         /\ Left(pc).pc = pc
         /\ Left(pc).series = {}
         /\ Counted(Left(pc))
  BY AttemptsAssumption DEF Left, NewFetch, FetchFields, Counted

\* What a fetch is after an answer of its provider.
LEMMA AnsweredIs ==
  ASSUME ShapeInv, NEW L \in Loads, NEW s \in SymbolsOf[L], s \in Symbols, Reply(L, s)
  PROVE  \E f : /\ fetch' = [fetch EXCEPT ![L][s] = f]
                /\ DOMAIN f = FetchFields
                /\ f.pc \in {"put", "none", "retry", "failed"}
                /\ f.pc = "put" => f.series \in {WindowOf[L], {}}
                /\ Counted(fetch[L][s]) => Counted(f)
<1> DEFINE g == fetch[L][s]
           After(reply) ==
             CASE reply = "ok" -> [Left("put") EXCEPT !.series = WindowOf[L]]
               [] reply = "none" -> Left(IF source = "yahoo" THEN "none" ELSE "put")
               [] OTHER -> AfterReply(g, reply)
<1>1. PICK reply \in Replies : fetch' = [fetch EXCEPT ![L][s] = After(reply)]
  BY DEF Reply, ShapeInv
<1>2. DOMAIN g = FetchFields
  BY DEF ShapeInv
<1>3. CASE reply = "ok"
  <2>1. After(reply) = [Left("put") EXCEPT !.series = WindowOf[L]]
    BY <1>3
  <2>2. /\ DOMAIN [Left("put") EXCEPT !.series = WindowOf[L]] = FetchFields
        /\ [Left("put") EXCEPT !.series = WindowOf[L]].pc = "put"
        /\ [Left("put") EXCEPT !.series = WindowOf[L]].series = WindowOf[L]
        /\ Counted([Left("put") EXCEPT !.series = WindowOf[L]])
    BY LeftIs DEF FetchFields, Counted
  <2>3. QED BY <1>1, <2>1, <2>2
<1>4. CASE reply = "none"
  <2>1. After(reply) = Left(IF source = "yahoo" THEN "none" ELSE "put")
    BY <1>4
  <2>2. QED BY <1>1, <2>1, LeftIs
<1>5. CASE reply = "limited"
  <2>1. After(reply) = AfterReply(g, "limited")
    BY <1>5
  <2>2. CASE g.rate + 1 < RateAttempts
    <3>1. AfterReply(g, "limited") = [g EXCEPT !.pc = "retry", !.rate = g.rate + 1]
      BY <2>2, <1>2 DEF AfterReply, FetchFields
    <3>2. /\ DOMAIN [g EXCEPT !.pc = "retry", !.rate = g.rate + 1] = FetchFields
          /\ [g EXCEPT !.pc = "retry", !.rate = g.rate + 1].pc = "retry"
          /\ Counted(g) => Counted([g EXCEPT !.pc = "retry", !.rate = g.rate + 1])
      BY <1>2, <2>2, AttemptsAssumption DEF FetchFields, Counted
    <3>3. QED BY <1>1, <2>1, <3>1, <3>2
  <2>3. CASE ~(g.rate + 1 < RateAttempts)
    <3>1. AfterReply(g, "limited") = Left("failed")
      BY <2>3 DEF AfterReply
    <3>2. QED BY <1>1, <2>1, <3>1, LeftIs
  <2>4. QED BY <2>2, <2>3
<1>6. CASE reply = "broken"
  <2>1. After(reply) = AfterReply(g, "broken")
    BY <1>6
  <2>2. CASE g.sym + 1 < SymbolAttempts
    <3> DEFINE again == [g EXCEPT !.pc = "retry", !.rate = 0, !.sym = g.sym + 1]
    <3>1. AfterReply(g, "broken") = again
      BY <2>2, <1>2 DEF AfterReply, FetchFields
    <3>2. /\ DOMAIN again = FetchFields
          /\ again.pc = "retry"
          /\ Counted(g) => Counted(again)
      BY <1>2, <2>2, AttemptsAssumption DEF FetchFields, Counted
    <3>3. QED BY <1>1, <2>1, <3>1, <3>2
  <2>3. CASE ~(g.sym + 1 < SymbolAttempts)
    <3>1. AfterReply(g, "broken") = Left("failed")
      BY <2>3 DEF AfterReply
    <3>2. QED BY <1>1, <2>1, <3>1, LeftIs
  <2>4. QED BY <2>2, <2>3
<1>7. QED BY <1>3, <1>4, <1>5, <1>6 DEF Replies

\* What a step does to one fetch: it keeps its place and its prices, or takes
\* the step that its action describes.
Moves(L, s) ==
    /\ DOMAIN fetch'[L][s] = FetchFields
    /\ Counted(fetch[L][s]) => Counted(fetch'[L][s])
    /\ \/ /\ fetch'[L][s].pc = fetch[L][s].pc
          /\ fetch'[L][s].series = fetch[L][s].series
       \/ /\ io[L] \in {"look", "collect"}
          /\ fetch[L][s].pc \in {"idle", "meta", "missing", "queued"}
          /\ fetch'[L][s].pc \in {"meta", "missing", "hit", "queued", "dropped"}
       \/ /\ fetch[L][s].pc \in {"queued", "retry"}
          /\ \/ fetch'[L][s].pc = "cancelled"
             \/ fetch'[L][s].pc = "checked" /\ ~IsCancelled(L)
       \/ fetch[L][s].pc = "checked" /\ fetch'[L][s].pc = "sent"
       \/ /\ fetch[L][s].pc = "sent"
          /\ fetch'[L][s].pc \in {"put", "none", "retry", "failed"}
          /\ fetch'[L][s].pc = "put" => fetch'[L][s].series \in {WindowOf[L], {}}
       \/ /\ fetch[L][s].pc = "put" /\ lock = None
          /\ fetch'[L][s].pc = "half" /\ lock' = <<L, s>>
       \/ /\ fetch[L][s].pc = "half"
          /\ fetch'[L][s].pc = "ok" /\ lock' = None
AllMove ==
    /\ DOMAIN fetch' = Loads
    /\ \A L \in Loads : DOMAIN fetch'[L] = Symbols
    /\ \A L \in Loads, s \in Symbols : Moves(L, s)

\* A step that leaves the fetches alone.
LEMMA NoneMoved ==
  ASSUME ShapeInv, UNCHANGED fetch
  PROVE  AllMove
  BY DEF ShapeInv, AllMove, Moves

\* A step of one fetch.
LEMMA OneMoved ==
  ASSUME ShapeInv, NEW L \in Loads, NEW s \in Symbols, NEW f,
         fetch' = [fetch EXCEPT ![L][s] = f], Moves(L, s)
  PROVE  AllMove
<1>1. /\ DOMAIN fetch' = Loads
      /\ \A K \in Loads : DOMAIN fetch'[K] = Symbols
      /\ \A K \in Loads, q \in Symbols :
            <<K, q>> # <<L, s>> => fetch'[K][q] = fetch[K][q]
  BY DEF ShapeInv
<1>2. ASSUME NEW K \in Loads, NEW q \in Symbols PROVE Moves(K, q)
  <2>1. CASE <<K, q>> = <<L, s>> BY <2>1
  <2>2. CASE <<K, q>> # <<L, s>>
    <3>1. fetch'[K][q] = fetch[K][q] BY <1>1, <2>2
    <3>2. DOMAIN fetch[K][q] = FetchFields BY DEF ShapeInv
    <3>3. QED BY <3>1, <3>2 DEF Moves
  <2>3. QED BY <2>1, <2>2
<1>3. QED BY <1>1, <1>2 DEF AllMove

\* A step of all the fetches of a load that wait at one place.
LEMMA SomeMoved ==
  ASSUME ShapeInv, NEW L \in Loads, NEW from \in {"missing", "queued"},
         NEW to \in {"queued", "dropped"},
         io[L] \in {"look", "collect"},
         fetch' = [fetch EXCEPT ![L] = [s \in Symbols |->
                     IF fetch[L][s].pc = from THEN [fetch[L][s] EXCEPT !.pc = to]
                     ELSE fetch[L][s]]]
  PROVE  AllMove
<1>1. \A K \in Loads : K # L => fetch'[K] = fetch[K]
  BY DEF ShapeInv
<1>2. \A q \in Symbols :
         fetch'[L][q] = IF fetch[L][q].pc = from THEN [fetch[L][q] EXCEPT !.pc = to]
                        ELSE fetch[L][q]
  BY DEF ShapeInv
<1>3. DOMAIN fetch' = Loads /\ \A K \in Loads : DOMAIN fetch'[K] = Symbols
  BY DEF ShapeInv
<1>4. \A q \in Symbols :
         /\ DOMAIN fetch'[L][q] = FetchFields
         /\ fetch'[L][q].series = fetch[L][q].series
         /\ Counted(fetch[L][q]) => Counted(fetch'[L][q])
         /\ \/ fetch'[L][q].pc = fetch[L][q].pc
            \/ fetch[L][q].pc = from /\ fetch'[L][q].pc = to
  <2>1. \A q \in Symbols : DOMAIN fetch[L][q] = FetchFields
    BY DEF ShapeInv
  <2>2. QED BY <1>2, <2>1, FieldSet
<1>5. \A K \in Loads, q \in Symbols : Moves(K, q)
  <2>1. \A q \in Symbols : Moves(L, q)
    BY <1>4 DEF Moves
  <2>2. \A K \in Loads, q \in Symbols : K # L => Moves(K, q)
    BY <1>1 DEF Moves, ShapeInv
  <2>3. QED BY <2>1, <2>2
<1>6. QED BY <1>3, <1>5 DEF AllMove

\* Every step of a load, of its caller and of its fetches.
LEMMA FetchSteps ==
  ASSUME ShapeInv, Next
  PROVE  AllMove
<1>1. ASSUME NEW L \in Loads, NEW s \in SymbolsOf[L],
             \/ LookWindow(L, s) \/ LookPrices(L, s) \/ Check(L, s) \/ Send(L, s)
             \/ Reply(L, s) \/ WritePrices(L, s) \/ WriteWindow(L, s)
      PROVE  AllMove
  <2>1. s \in Symbols
    BY LoadsAssumption
  <2>2. DOMAIN fetch[L][s] = FetchFields
    BY <2>1 DEF ShapeInv
  <2>3. CASE LookWindow(L, s)
    <3>1. PICK pc \in {"meta", "missing"} :
             fetch' = [fetch EXCEPT ![L][s] = [fetch[L][s] EXCEPT !.pc = pc]]
      BY <2>3, <2>1 DEF LookWindow, Set, ShapeInv
    <3> DEFINE f == [fetch[L][s] EXCEPT !.pc = pc]
    <3>2. io[L] = "look" /\ fetch[L][s].pc = "idle"
      BY <2>3 DEF LookWindow
    <3>3. DOMAIN f = FetchFields /\ f.pc = pc /\ (Counted(fetch[L][s]) => Counted(f))
      BY <2>2, FieldSet
    <3>4. fetch'[L][s] = f
      BY <3>1, <2>1 DEF ShapeInv
    <3>5. Moves(L, s)
      BY <3>2, <3>3, <3>4 DEF Moves
    <3>6. QED BY <2>1, <3>1, <3>5, OneMoved
  <2>4. CASE LookPrices(L, s)
    <3> DEFINE f == [fetch[L][s] EXCEPT !.pc = "hit",
                        !.series = cache[Key(s)].csv \cap WindowOf[L]]
    <3>1. io[L] = "look" /\ fetch[L][s].pc = "meta" /\ fetch' = [fetch EXCEPT ![L][s] = f]
      BY <2>4, <2>1 DEF LookPrices, ShapeInv
    <3>2. DOMAIN f = FetchFields /\ f.pc = "hit" /\ (Counted(fetch[L][s]) => Counted(f))
      BY <2>2 DEF FetchFields, Counted
    <3>3. fetch'[L][s] = f
      BY <3>1, <2>1 DEF ShapeInv
    <3>4. Moves(L, s)
      BY <3>1, <3>2, <3>3 DEF Moves
    <3>5. QED BY <2>1, <3>1, <3>4, OneMoved
  <2>5. CASE Check(L, s)
    <3> DEFINE f == IF IsCancelled(L) THEN Left("cancelled")
                    ELSE [fetch[L][s] EXCEPT !.pc = "checked"]
    <3>1. fetch' = [fetch EXCEPT ![L][s] = f] /\ fetch[L][s].pc \in {"queued", "retry"}
      BY <2>5, <2>1 DEF Check, Stopped, ShapeInv
    <3>2. /\ DOMAIN f = FetchFields
          /\ f.pc = "cancelled" \/ (f.pc = "checked" /\ ~IsCancelled(L))
          /\ Counted(fetch[L][s]) => Counted(f)
      <4>1. CASE IsCancelled(L)
        BY <4>1, LeftIs
      <4>2. CASE ~IsCancelled(L)
        BY <4>2, <2>2, FieldSet
      <4>3. QED BY <4>1, <4>2
    <3>3. fetch'[L][s] = f
      BY <3>1, <2>1 DEF ShapeInv
    <3>4. Moves(L, s)
      BY <3>1, <3>2, <3>3 DEF Moves
    <3>5. QED BY <2>1, <3>1, <3>4, OneMoved
  <2>6. CASE Send(L, s)
    <3> DEFINE f == [fetch[L][s] EXCEPT !.pc = "sent"]
    <3>0. fetch[L][s].pc = "checked"
      BY <2>6 DEF Send
    <3>1. fetch' = [fetch EXCEPT ![L][s] = f]
      BY <2>6, <2>1 DEF Send, Set, ShapeInv
    <3>2. DOMAIN f = FetchFields /\ f.pc = "sent" /\ (Counted(fetch[L][s]) => Counted(f))
      BY <2>2, FieldSet
    <3>3. fetch'[L][s] = f
      BY <3>1, <2>1 DEF ShapeInv
    <3>4. Moves(L, s)
      BY <3>0, <3>2, <3>3 DEF Moves
    <3>5. QED BY <2>1, <3>1, <3>4, OneMoved
  <2>7. CASE Reply(L, s)
    <3>0. fetch[L][s].pc = "sent"
      BY <2>7 DEF Reply
    <3>1. PICK f : /\ fetch' = [fetch EXCEPT ![L][s] = f]
                   /\ DOMAIN f = FetchFields
                   /\ f.pc \in {"put", "none", "retry", "failed"}
                   /\ f.pc = "put" => f.series \in {WindowOf[L], {}}
                   /\ Counted(fetch[L][s]) => Counted(f)
      BY <2>7, <2>1, AnsweredIs
    <3>2. fetch'[L][s] = f
      BY <3>1, <2>1 DEF ShapeInv
    <3>3. Moves(L, s)
      BY <3>0, <3>1, <3>2 DEF Moves
    <3>4. QED BY <2>1, <3>1, <3>3, OneMoved
  <2>8. CASE WritePrices(L, s)
    <3> DEFINE f == [fetch[L][s] EXCEPT !.pc = "half"]
    <3>0. fetch[L][s].pc = "put" /\ lock = None /\ lock' = <<L, s>>
      BY <2>8 DEF WritePrices, OnlyWriter
    <3>1. fetch' = [fetch EXCEPT ![L][s] = f]
      BY <2>8, <2>1 DEF WritePrices, Set, ShapeInv
    <3>2. DOMAIN f = FetchFields /\ f.pc = "half" /\ (Counted(fetch[L][s]) => Counted(f))
      BY <2>2, FieldSet
    <3>3. fetch'[L][s] = f
      BY <3>1, <2>1 DEF ShapeInv
    <3>4. Moves(L, s)
      BY <3>0, <3>2, <3>3 DEF Moves
    <3>5. QED BY <2>1, <3>1, <3>4, OneMoved
  <2>9. CASE WriteWindow(L, s)
    <3>0. fetch[L][s].pc = "half" /\ lock' = None
      BY <2>9 DEF WriteWindow
    <3>1. fetch' = [fetch EXCEPT ![L][s] = Left("ok")]
      BY <2>9 DEF WriteWindow
    <3>2. fetch'[L][s] = Left("ok")
      BY <3>1, <2>1 DEF ShapeInv
    <3>3. Moves(L, s)
      BY <3>0, <3>2, LeftIs DEF Moves
    <3>4. QED BY <2>1, <3>1, <3>3, OneMoved
  <2>10. QED BY <1>1, <2>3, <2>4, <2>5, <2>6, <2>7, <2>8, <2>9
<1>2. ASSUME NEW L \in Loads, NEW answer, io[L] = "collect", End(L, answer)
      PROVE  AllMove
  <2>1. fetch' = [fetch EXCEPT ![L] = [s \in Symbols |->
                    IF fetch[L][s].pc = "queued" THEN [fetch[L][s] EXCEPT !.pc = "dropped"]
                    ELSE fetch[L][s]]]
    BY <1>2 DEF End, ShapeInv
  <2>2. io[L] \in {"look", "collect"}
    BY <1>2
  <2>3. QED BY <2>1, <2>2, SomeMoved
<1>3. ASSUME NEW L \in Loads, Submit(L) PROVE AllMove
  <2>1. fetch' = [fetch EXCEPT ![L] = [s \in Symbols |->
                    IF fetch[L][s].pc = "missing" THEN [fetch[L][s] EXCEPT !.pc = "queued"]
                    ELSE fetch[L][s]]]
    BY <1>3 DEF Submit, ShapeInv
  <2>2. io[L] \in {"look", "collect"}
    BY <1>3 DEF Submit
  <2>3. QED BY <2>1, <2>2, SomeMoved
<1>4. ASSUME NEW L \in Loads, NEW s \in SymbolsOf[L], Collect(L, s) PROVE AllMove
  <2>1. io[L] = "collect"
    BY <1>4 DEF Collect
  <2>2. (\E answer : End(L, answer)) \/ UNCHANGED fetch
    BY <1>4 DEF Collect
  <2>3. QED BY <1>2, <2>1, <2>2, NoneMoved
<1>5. ASSUME NEW L \in Loads, Finish(L) PROVE AllMove
  BY <1>2, <1>5 DEF Finish
<1>6. ASSUME NEW L \in Loads, Begin(L) \/ Answer(L) \/ Timeout(L) \/ Open(L) PROVE AllMove
  BY <1>6, NoneMoved DEF Begin, Answer, Timeout, Open
<1>7. ASSUME NEW r \in Researches, Remove(r) PROVE AllMove
  BY <1>7, NoneMoved DEF Remove
<1>8. QED
  BY <1>1, <1>3, <1>4, <1>5, <1>6, <1>7 DEF Next

-----------------------------------------------------------------------------
(* The steps that touch the rest *)


\* Who writes which variable.
Writers ==
    /\ source' = source
    /\ \/ UNCHANGED <<bound, gens, cancelled, loadsOf, removed, gen, caller>>
       \/ \E L \in Loads : Begin(L) \/ Answer(L) \/ Timeout(L)
       \/ \E r \in Researches : Remove(r)
    /\ UNCHANGED late \/ \E L \in Loads : \E s \in SymbolsOf[L] : Send(L, s)
    /\ \/ UNCHANGED <<cache, lock>>
       \/ \E L \in Loads : \E s \in SymbolsOf[L] : WritePrices(L, s) \/ WriteWindow(L, s)
    /\ DOMAIN io' = Loads
    /\ \A L \in Loads : io'[L] = "none" <=> io[L] = "none" /\ ~Begin(L)

\* A step writes a variable only through the actions that name it.
LEMMA StepWriters ==
  ASSUME ShapeInv, Next
  PROVE  Writers
<1>1. ASSUME NEW L \in Loads, Begin(L) PROVE Writers
  BY <1>1 DEF Begin, Writers, ShapeInv
<1>2. ASSUME NEW L \in Loads, Answer(L) PROVE Writers
  BY <1>2 DEF Answer, Begin, Writers, ShapeInv
<1>3. ASSUME NEW L \in Loads, Timeout(L) PROVE Writers
  BY <1>3 DEF Timeout, Begin, Writers, ShapeInv
<1>4. ASSUME NEW L \in Loads, Open(L) \/ Submit(L) PROVE Writers
  BY <1>4 DEF Open, Submit, Begin, Writers, ShapeInv, cancelVars
<1>5. ASSUME NEW L \in Loads, NEW answer \in Answers, End(L, answer),
             io[L] = "collect", ~\E K \in Loads : Begin(K),
             UNCHANGED <<source, cancelVars, caller, late, cache, lock>>
      PROVE  Writers
  BY <1>5 DEF End, Writers, ShapeInv, cancelVars, Answers
<1>6. ASSUME NEW L \in Loads, Finish(L) PROVE Writers
  <2>1. ~\E K \in Loads : Begin(K)
    BY <1>6 DEF Finish, Begin, ShapeInv
  <2>2. io[L] = "collect" /\ End(L, "frame")
        /\ UNCHANGED <<source, cancelVars, caller, late, cache, lock>>
    BY <1>6 DEF Finish
  <2>3. QED BY <1>5, <2>1, <2>2 DEF Answers
<1>7. ASSUME NEW L \in Loads, NEW s \in SymbolsOf[L], Collect(L, s) PROVE Writers
  <2>1. ~\E K \in Loads : Begin(K)
    BY <1>7 DEF Collect, Begin, ShapeInv
  <2>2. io[L] = "collect" /\ UNCHANGED <<source, cancelVars, caller, late, cache, lock>>
    BY <1>7 DEF Collect
  <2>3. \/ End(L, "cancelled")
        \/ End(L, fetch[L][s].pc) /\ fetch[L][s].pc \in {"failed", "cancelled"}
        \/ UNCHANGED io
    BY <1>7 DEF Collect, Failure
  <2>4. CASE UNCHANGED io
    BY <2>1, <2>2, <2>4 DEF Writers, ShapeInv, cancelVars
  <2>5. QED BY <1>5, <2>1, <2>2, <2>3, <2>4 DEF Answers
<1>8. ASSUME NEW L \in Loads, NEW s \in SymbolsOf[L],
             LookWindow(L, s) \/ LookPrices(L, s) \/ Check(L, s) \/ Reply(L, s)
      PROVE  Writers
  BY <1>8 DEF LookWindow, LookPrices, Check, Reply, Begin, Writers, ShapeInv, cancelVars
<1>9. ASSUME NEW L \in Loads, NEW s \in SymbolsOf[L], Send(L, s) PROVE Writers
  <2>1. UNCHANGED <<source, cancelVars, caller, io, cache, lock>>
    BY <1>9 DEF Send
  <2>2. QED BY <1>9, <2>1 DEF Begin, Writers, ShapeInv, cancelVars
<1>10. ASSUME NEW L \in Loads, NEW s \in SymbolsOf[L], WritePrices(L, s) \/ WriteWindow(L, s)
       PROVE  Writers
  <2>1. UNCHANGED <<source, cancelVars, caller, io, late>>
    BY <1>10 DEF WritePrices, WriteWindow
  <2>2. QED BY <1>10, <2>1 DEF Begin, Writers, ShapeInv, cancelVars
<1>11. ASSUME NEW r \in Researches, Remove(r) PROVE Writers
  BY <1>11 DEF Remove, Begin, Writers, ShapeInv
<1>12. QED
  BY <1>1, <1>2, <1>3, <1>4, <1>6, <1>7, <1>8, <1>9, <1>10, <1>11 DEF Next

\* Opening a generation: the thread's own or a new one.
LEMMA BeginOpens ==
  ASSUME ShapeInv, NEW L \in Loads, Begin(L)
  PROVE  /\ gens' \in Nat /\ gens <= gens'
         /\ gen'[L] \in 0..gens'
         /\ gen' = [gen EXCEPT ![L] = gen'[L]]
         /\ bound' = [bound EXCEPT ![ThreadOf[L]] = gen'[L]]
         /\ cancelled' = cancelled
         /\ loadsOf' \in [Researches -> SUBSET (0..gens')]
         /\ bound[ThreadOf[L]] = 0 => gen'[L] = gens + 1
<1> DEFINE g == Opened(L)
<1>1. ThreadOf[L] \in Threads
  BY LoadsAssumption
<1>2. bound[ThreadOf[L]] \in 0..gens
  BY <1>1 DEF ShapeInv
<1>3. /\ gens' = (IF g > gens THEN g ELSE gens)
      /\ bound' = [bound EXCEPT ![ThreadOf[L]] = g]
      /\ cancelled' = (IF g > gens THEN cancelled \ {g} ELSE cancelled)
      /\ gen' = [gen EXCEPT ![L] = g]
      /\ loadsOf' = [r \in Researches |->
                       IF r = OwnerOf[L] THEN loadsOf[r] \cup {g} ELSE loadsOf[r]]
  BY DEF Begin
<1>4. g \in 0..gens + 1 /\ (bound[ThreadOf[L]] = 0 => g = gens + 1)
  BY <1>2 DEF Opened, ShapeInv
<1>5. gens \in Nat /\ cancelled \subseteq 0..gens
  BY DEF ShapeInv
<1>6. gens' \in Nat /\ gens <= gens' /\ g \in 0..gens'
  BY <1>3, <1>4, <1>5
<1>7. gen'[L] = g
  BY <1>3 DEF ShapeInv
<1>8. cancelled' = cancelled
  BY <1>3, <1>4, <1>5
<1>9. loadsOf' \in [Researches -> SUBSET (0..gens')]
  <2>1. \A r \in Researches : loadsOf[r] \subseteq 0..gens
    BY DEF ShapeInv
  <2>2. 0..gens \subseteq 0..gens'
    BY <1>5, <1>6
  <2>3. \A r \in Researches :
           (IF r = OwnerOf[L] THEN loadsOf[r] \cup {g} ELSE loadsOf[r]) \subseteq 0..gens'
    BY <1>6, <2>1, <2>2
  <2>4. QED BY <1>3, <2>3
<1>10. QED BY <1>3, <1>4, <1>6, <1>7, <1>8, <1>9

-----------------------------------------------------------------------------
(* The invariant *)

\* The engine starts without a load and with the cache of the last one.
LEMMA InitInv ==
  ASSUME Init
  PROVE  Inv
<1>1. PICK b \in Before : source = b[1] /\ cache = b[2]
  BY DEF Init
<1>2. /\ source \in Sources
      /\ DOMAIN cache = Keys
      /\ \A k \in Keys : DOMAIN cache[k] = EntryFields /\ Whole(k)
  BY <1>1, CacheAssumption DEF Keys, EntryFields, Whole
<1>3. \A L \in Loads, s \in Symbols :
         /\ DOMAIN fetch = Loads /\ DOMAIN fetch[L] = Symbols
         /\ DOMAIN fetch[L][s] = FetchFields
         /\ fetch[L][s].pc = "idle"
         /\ late[L][s] = 0
  BY DEF Init, NewFetch, FetchFields
<1>4. ShapeInv
  BY <1>2, <1>3 DEF Init, ShapeInv, FetchFields, NewFetch
<1>5. BornInv
  BY <1>3 DEF Init, BornInv
<1>6. LateInv
  BY <1>3 DEF LateInv
<1>7. CacheInv
  BY <1>2, <1>3 DEF CacheInv
<1>8. QED BY <1>4, <1>5, <1>6, <1>7 DEF Inv

\* No step disturbs the shape.
LEMMA ShapeStep ==
  ASSUME ShapeInv, Next
  PROVE  ShapeInv'
<1>1. AllMove /\ Writers
  BY FetchSteps, StepWriters
<1>2. source' \in Sources /\ DOMAIN io' = Loads
  BY <1>1 DEF Writers, ShapeInv
<1>3. /\ DOMAIN fetch' = Loads
      /\ \A L \in Loads : DOMAIN fetch'[L] = Symbols
      /\ \A L \in Loads, s \in Symbols : DOMAIN fetch'[L][s] = FetchFields
  BY <1>1 DEF AllMove, Moves
<1> DEFINE Generations ==
             /\ gens' \in Nat
             /\ bound' \in [Threads -> 0..gens']
             /\ gen' \in [Loads -> 0..gens']
             /\ cancelled' \subseteq 0..gens'
             /\ loadsOf' \in [Researches -> SUBSET (0..gens')]
             /\ caller' \in [Loads -> Answers \cup {"unborn", "waiting"}]
           Entries == DOMAIN cache' = Keys /\ \A k \in Keys : DOMAIN cache'[k] = EntryFields
<1>4. Generations
  <2>1. CASE UNCHANGED <<bound, gens, cancelled, loadsOf, gen, caller>>
    BY <2>1 DEF ShapeInv
  <2>2. ASSUME NEW L \in Loads, Begin(L) PROVE Generations
    <3>1. /\ gens' \in Nat /\ gens <= gens' /\ gens \in Nat
          /\ gen'[L] \in 0..gens'
          /\ gen' = [gen EXCEPT ![L] = gen'[L]]
          /\ bound' = [bound EXCEPT ![ThreadOf[L]] = gen'[L]]
          /\ cancelled' = cancelled
          /\ loadsOf' \in [Researches -> SUBSET (0..gens')]
      BY <2>2, BeginOpens DEF ShapeInv
    <3>2. 0..gens \subseteq 0..gens'
      BY <3>1
    <3>3. gen' \in [Loads -> 0..gens'] /\ bound' \in [Threads -> 0..gens']
      BY <3>1, <3>2 DEF ShapeInv
    <3>4. cancelled' \subseteq 0..gens'
      BY <3>1, <3>2 DEF ShapeInv
    <3>5. caller' \in [Loads -> Answers \cup {"unborn", "waiting"}]
      BY <2>2 DEF Begin, ShapeInv
    <3>6. QED BY <3>1, <3>3, <3>4, <3>5
  <2>3. ASSUME NEW L \in Loads, Answer(L) PROVE Generations
    <3>1. io[L] \in Answers /\ UNCHANGED <<gens, gen, cancelled, loadsOf>>
      BY <2>3 DEF Answer
    <3>2. caller' = [caller EXCEPT ![L] = io[L]]
          /\ bound' = [bound EXCEPT ![ThreadOf[L]] = 0]
      BY <2>3 DEF Answer, EndGeneration
    <3>3. gens \in Nat /\ 0 \in 0..gens
      BY DEF ShapeInv
    <3>4. bound' \in [Threads -> 0..gens]
      BY <3>2, <3>3 DEF ShapeInv
    <3>5. caller' \in [Loads -> Answers \cup {"unborn", "waiting"}]
      BY <3>1, <3>2 DEF ShapeInv
    <3>6. QED BY <3>1, <3>3, <3>4, <3>5 DEF ShapeInv
  <2>4. ASSUME NEW L \in Loads, Timeout(L) PROVE Generations
    <3>1. bound[ThreadOf[L]] \in 0..gens
      BY LoadsAssumption DEF ShapeInv
    <3>2. /\ UNCHANGED <<gens, gen, loadsOf>>
          /\ cancelled' = cancelled \cup {bound[ThreadOf[L]]}
      BY <2>4 DEF Timeout
    <3>3. caller' = [caller EXCEPT ![L] = "timeout"]
          /\ bound' = [bound EXCEPT ![ThreadOf[L]] = 0]
      BY <2>4 DEF Timeout, EndGeneration
    <3>4. gens \in Nat /\ 0 \in 0..gens
      BY DEF ShapeInv
    <3>5. bound' \in [Threads -> 0..gens]
      BY <3>3, <3>4 DEF ShapeInv
    <3>6. caller' \in [Loads -> Answers \cup {"unborn", "waiting"}]
      BY <3>3 DEF ShapeInv, Answers
    <3>7. cancelled' \subseteq 0..gens
      BY <3>1, <3>2 DEF ShapeInv
    <3>8. QED BY <3>2, <3>4, <3>5, <3>6, <3>7 DEF ShapeInv
  <2>5. ASSUME NEW r \in Researches, Remove(r) PROVE Generations
    BY <2>5 DEF Remove, ShapeInv
  <2>6. QED BY <1>1, <2>1, <2>2, <2>3, <2>4, <2>5 DEF Writers
<1>5. late' \in [Loads -> [Symbols -> Nat]]
  <2>1. ASSUME NEW L \in Loads, NEW s \in SymbolsOf[L], Send(L, s)
        PROVE  late' \in [Loads -> [Symbols -> Nat]]
    <3>1. s \in Symbols /\ late[L][s] \in Nat
      BY LoadsAssumption DEF ShapeInv
    <3>2. QED BY <2>1, <3>1 DEF Send, ShapeInv
  <2>2. QED BY <1>1, <2>1 DEF Writers, ShapeInv
<1>6. Entries
  <2>1. ASSUME NEW L \in Loads, NEW s \in SymbolsOf[L], WritePrices(L, s) \/ WriteWindow(L, s)
        PROVE  Entries
    <3>1. PICK e : cache' = [cache EXCEPT ![Key(s)] = e] /\ DOMAIN e = DOMAIN cache[Key(s)]
      BY <2>1 DEF WritePrices, WriteWindow
    <3>2. Key(s) \in Keys
      BY LoadsAssumption DEF Key, Keys, ShapeInv
    <3>3. QED BY <3>1, <3>2 DEF ShapeInv
  <2>2. QED BY <1>1, <2>1 DEF Writers, ShapeInv
<1>7. QED BY <1>2, <1>3, <1>4, <1>5, <1>6 DEF ShapeInv

\* A load has done nothing before it begins, and a thread waits for what it is
\* bound to.
LEMMA BornStep ==
  ASSUME Inv, Next
  PROVE  BornInv'
<1>1. AllMove /\ Writers /\ ShapeInv /\ BornInv
  BY FetchSteps, StepWriters DEF Inv
<1>2. ASSUME NEW L \in Loads, NEW s \in Symbols, io'[L] = "none"
      PROVE  fetch'[L][s].pc = "idle"
  <2>1. io[L] = "none" /\ fetch[L][s].pc = "idle"
    BY <1>1, <1>2 DEF Writers, BornInv
  <2>2. Moves(L, s)
    BY <1>1 DEF AllMove
  <2>3. QED BY <2>1, <2>2 DEF Moves
<1>3. ASSUME NEW L \in Loads, caller'[L] = "unborn"
      PROVE  caller[L] = "unborn" /\ ~Begin(L)
  <2>1. ASSUME NEW K \in Loads, Begin(K) \/ Answer(K) \/ Timeout(K)
        PROVE  caller[L] = "unborn" /\ ~Begin(L)
    BY <1>1, <1>3, <2>1 DEF Begin, Answer, Timeout, Answers, ShapeInv
  <2>2. ASSUME UNCHANGED caller PROVE caller[L] = "unborn" /\ ~Begin(L)
    BY <1>1, <1>3, <2>2 DEF Begin, ShapeInv
  <2>3. ASSUME NEW r \in Researches, Remove(r) PROVE UNCHANGED caller
    BY <2>3 DEF Remove
  <2>4. QED BY <1>1, <2>1, <2>2, <2>3 DEF Writers
<1>4. ASSUME NEW L \in Loads, caller'[L] = "unborn"
      PROVE  io'[L] = "none" /\ \A s \in Symbols : late'[L][s] = 0
  <2>1. io[L] = "none" /\ (\A s \in Symbols : late[L][s] = 0 /\ fetch[L][s].pc = "idle")
    BY <1>1, <1>3, <1>4 DEF BornInv
  <2>2. \A s \in Symbols : late'[L][s] = 0
    <3>1. ASSUME NEW K \in Loads, NEW q \in SymbolsOf[K], Send(K, q), NEW s \in Symbols
          PROVE  late'[L][s] = 0
      <4>1. q \in Symbols /\ fetch[K][q].pc = "checked"
        BY <3>1, LoadsAssumption DEF Send
      <4>2. K # L
        BY <2>1, <4>1
      <4>3. QED BY <1>1, <2>1, <3>1, <4>2 DEF Send, ShapeInv
    <3>2. QED BY <1>1, <2>1, <3>1 DEF Writers
  <2>3. io'[L] = "none"
    BY <1>1, <1>3, <1>4, <2>1 DEF Writers
  <2>4. QED BY <2>2, <2>3
<1> DEFINE Waits(t) == \E L \in Loads : ThreadOf[L] = t /\ caller'[L] = "waiting"
<1>5. ASSUME NEW t \in Threads, bound'[t] # 0
      PROVE  Waits(t)
  <2>1. ASSUME NEW L \in Loads, Begin(L) PROVE Waits(t)
    <3>1. caller' = [caller EXCEPT ![L] = "waiting"] /\ caller[L] = "unborn"
      BY <2>1 DEF Begin
    <3>2. CASE t = ThreadOf[L]
      BY <1>1, <3>1, <3>2 DEF ShapeInv
    <3>3. CASE t # ThreadOf[L]
      <4>1. bound[t] # 0
        BY <1>1, <1>5, <2>1, <3>3, BeginOpens DEF ShapeInv
      <4>2. PICK K \in Loads : ThreadOf[K] = t /\ caller[K] = "waiting"
        BY <1>1, <4>1 DEF BornInv
      <4>3. QED BY <1>1, <3>1, <4>2 DEF ShapeInv
    <3>4. QED BY <3>2, <3>3
  <2>2. ASSUME NEW L \in Loads, Answer(L) \/ Timeout(L) PROVE Waits(t)
    <3>1. /\ bound' = [bound EXCEPT ![ThreadOf[L]] = 0]
          /\ \A K \in Loads : K # L => caller'[K] = caller[K]
      BY <1>1, <2>2 DEF Answer, Timeout, EndGeneration, ShapeInv
    <3>2. t # ThreadOf[L] /\ bound[t] # 0
      BY <1>1, <1>5, <3>1, LoadsAssumption DEF ShapeInv
    <3>3. PICK K \in Loads : ThreadOf[K] = t /\ caller[K] = "waiting"
      BY <1>1, <3>2 DEF BornInv
    <3>4. QED BY <3>1, <3>2, <3>3
  <2>3. ASSUME UNCHANGED <<bound, caller>> PROVE Waits(t)
    BY <1>1, <1>5, <2>3 DEF BornInv
  <2>4. ASSUME NEW r \in Researches, Remove(r) PROVE UNCHANGED <<bound, caller>>
    BY <2>4 DEF Remove
  <2>5. QED BY <1>1, <2>1, <2>2, <2>3, <2>4 DEF Writers
<1>6. QED BY <1>2, <1>4, <1>5 DEF BornInv

\* A cancelled load stays cancelled.
LEMMA CancelledStays ==
  ASSUME Inv, Next, NEW L \in Loads, caller[L] # "unborn", IsCancelled(L)
  PROVE  IsCancelled(L)'
<1>1. Writers /\ ShapeInv
  BY StepWriters DEF Inv
<1>2. ASSUME NEW K \in Loads, Begin(K) PROVE gen'[L] = gen[L] /\ cancelled' = cancelled
  <2>1. K # L
    BY <1>2 DEF Begin
  <2>2. QED BY <1>1, <1>2, <2>1, BeginOpens DEF ShapeInv
<1>3. ASSUME NEW K \in Loads, Answer(K) \/ Timeout(K)
      PROVE  gen'[L] = gen[L] /\ cancelled \subseteq cancelled'
  BY <1>3 DEF Answer, Timeout
<1>4. ASSUME NEW r \in Researches, Remove(r)
      PROVE  gen'[L] = gen[L] /\ cancelled \subseteq cancelled'
  BY <1>4 DEF Remove
<1>5. gen'[L] = gen[L] /\ cancelled \subseteq cancelled'
  BY <1>1, <1>2, <1>3, <1>4 DEF Writers
<1>6. QED BY <1>5 DEF IsCancelled

\* No step sends a second late request.
LEMMA LateStep ==
  ASSUME Inv, Next
  PROVE  LateInv'
<1>1. AllMove /\ Writers /\ ShapeInv /\ BornInv /\ LateInv
  BY FetchSteps, StepWriters DEF Inv
<1>2. SUFFICES ASSUME NEW L \in Loads, NEW s \in Symbols
               PROVE  /\ late'[L][s] <= 1
                      /\ late'[L][s] = 1 => IsCancelled(L)' /\ fetch'[L][s].pc # "checked"
  BY DEF LateInv
<1>3. late[L][s] \in Nat /\ late[L][s] <= 1
  BY <1>1 DEF ShapeInv, LateInv
<1>4. Moves(L, s)
  BY <1>1 DEF AllMove
<1>5. CASE late'[L][s] = late[L][s]
  <2>1. SUFFICES ASSUME late[L][s] = 1
                 PROVE  IsCancelled(L)' /\ fetch'[L][s].pc # "checked"
    BY <1>3, <1>5
  <2>2. IsCancelled(L) /\ fetch[L][s].pc # "checked" /\ caller[L] # "unborn"
    BY <1>1, <2>1 DEF LateInv, BornInv
  <2>3. IsCancelled(L)'
    BY <2>2, CancelledStays
  <2>4. fetch'[L][s].pc # "checked"
    BY <1>4, <2>2 DEF Moves
  <2>5. QED BY <2>3, <2>4
<1>6. CASE late'[L][s] # late[L][s]
  <2>1. PICK K \in Loads : \E q \in SymbolsOf[K] : Send(K, q)
    BY <1>1, <1>6 DEF Writers
  <2>2. PICK q \in SymbolsOf[K] : Send(K, q)
    BY <2>1
  <2>3. q \in Symbols
    BY LoadsAssumption
  <2>4. K = L /\ q = s
    BY <1>1, <1>6, <2>2, <2>3 DEF Send, ShapeInv
  <2>5. /\ fetch[L][s].pc = "checked"
        /\ late'[L][s] = (IF IsCancelled(L) THEN late[L][s] + 1 ELSE late[L][s])
        /\ UNCHANGED <<gen, cancelled>>
    BY <1>1, <2>2, <2>4 DEF Send, ShapeInv, cancelVars
  <2>6. late[L][s] = 0 /\ IsCancelled(L)
    BY <1>1, <1>3, <1>6, <2>5 DEF LateInv
  <2>7. IsCancelled(L)'
    BY <2>5, <2>6 DEF IsCancelled
  <2>8. fetch'[L][s].pc = "sent"
    <3>1. fetch' = [fetch EXCEPT ![L][s] = [fetch[L][s] EXCEPT !.pc = "sent"]]
      BY <1>1, <2>2, <2>4 DEF Send, Set, ShapeInv
    <3>2. QED BY <1>1, <3>1, FieldSet DEF ShapeInv
  <2>9. QED BY <2>5, <2>6, <2>7, <2>8
<1>7. QED BY <1>5, <1>6

\* An entry is halfway only under the lock of its writer.
LEMMA CacheStep ==
  ASSUME Inv, Next
  PROVE  CacheInv'
<1>1. AllMove /\ Writers /\ ShapeInv /\ CacheInv
  BY FetchSteps, StepWriters DEF Inv
<1>2. source' = source /\ \A s : Key(s)' = Key(s)
  BY <1>1 DEF Writers, Key
<1>3. \A L \in Loads, s \in Symbols : <<L, s>> # None /\ Key(s) \in Keys
  BY <1>1, CacheAssumption DEF Key, Keys, ShapeInv
<1>4. \A L \in Loads, s \in Symbols :
         fetch'[L][s].pc = "put" => fetch'[L][s].series \in {WindowOf[L], {}}
  <2>1. SUFFICES ASSUME NEW L \in Loads, NEW s \in Symbols, fetch'[L][s].pc = "put"
                 PROVE  fetch'[L][s].series \in {WindowOf[L], {}}
    OBVIOUS
  <2>2. Moves(L, s)
    BY <1>1 DEF AllMove
  <2>3. fetch[L][s].pc = "put" => fetch[L][s].series \in {WindowOf[L], {}}
    BY <1>1 DEF CacheInv
  <2>4. QED BY <2>1, <2>2, <2>3 DEF Moves
<1>5. CASE UNCHANGED <<cache, lock>>
  <2>1. ASSUME NEW L \in Loads, NEW s \in Symbols
        PROVE  (fetch[L][s].pc = "half") <=> (fetch'[L][s].pc = "half")
    <3>1. Moves(L, s) /\ <<L, s>> # None /\ UNCHANGED lock
      BY <1>1, <1>3, <1>5 DEF AllMove
    <3>2. fetch[L][s].pc = "half" => lock = <<L, s>>
      BY <1>1 DEF CacheInv
    <3>3. QED BY <3>1, <3>2 DEF Moves
  <2>2. \A k, L, s : Halfway(k, L, s) /\ L \in Loads /\ s \in Symbols => Halfway(k, L, s)'
    BY <1>2, <1>5, <2>1 DEF Halfway
  <2>3. \A k \in Keys : Whole(k) => Whole(k)'
    BY <1>5 DEF Whole
  <2>4. \A k \in Keys : Whole(k)' \/ \E L \in Loads, s \in Symbols : Halfway(k, L, s)'
    BY <1>1, <2>2, <2>3 DEF CacheInv
  <2>5. \A L \in Loads, s \in Symbols : fetch'[L][s].pc = "half" =>
           lock' = <<L, s>> /\ cache'[Key(s)'].csv \in {WindowOf[L], {}}
    BY <1>1, <1>2, <1>5, <2>1 DEF CacheInv
  <2>6. QED BY <1>4, <2>4, <2>5 DEF CacheInv
<1>6. ASSUME NEW L \in Loads, NEW s \in SymbolsOf[L], WritePrices(L, s) PROVE CacheInv'
  <2>1. s \in Symbols
    BY LoadsAssumption
  <2>2. /\ fetch[L][s].pc = "put" /\ lock = None /\ lock' = <<L, s>>
        /\ cache' = [cache EXCEPT ![Key(s)].csv = fetch[L][s].series]
        /\ fetch' = [fetch EXCEPT ![L][s] = [fetch[L][s] EXCEPT !.pc = "half"]]
    BY <1>1, <1>6, <2>1 DEF WritePrices, OnlyWriter, Set, ShapeInv
  <2>3. fetch'[L][s].pc = "half"
    BY <1>1, <2>1, <2>2, FieldSet DEF ShapeInv
  <2>4. cache'[Key(s)].csv \in {WindowOf[L], {}}
    BY <1>1, <1>3, <2>1, <2>2 DEF ShapeInv, CacheInv, EntryFields
  <2>5. \A k : k = Key(s) => Halfway(k, L, s)'
    BY <1>2, <2>2, <2>3, <2>4 DEF Halfway
  <2>6. \A k \in Keys : k # Key(s) => Whole(k)'
    <3>1. \A k \in Keys : Whole(k)
      BY <1>1, <1>3, <2>2 DEF CacheInv, Halfway
    <3>2. \A k \in Keys : k # Key(s) => cache'[k] = cache[k]
      BY <1>1, <2>2 DEF ShapeInv
    <3>3. QED BY <3>1, <3>2 DEF Whole
  <2>7. ASSUME NEW K \in Loads, NEW q \in Symbols, fetch'[K][q].pc = "half"
        PROVE  lock' = <<K, q>> /\ cache'[Key(q)'].csv \in {WindowOf[K], {}}
    <3>1. CASE <<K, q>> = <<L, s>>
      BY <1>2, <2>2, <2>4, <3>1
    <3>2. CASE <<K, q>> # <<L, s>>
      <4>1. fetch'[K][q] = fetch[K][q]
        BY <1>1, <2>1, <2>2, <3>2 DEF ShapeInv
      <4>2. QED BY <1>1, <1>3, <2>2, <2>7, <4>1 DEF CacheInv
    <3>3. QED BY <3>1, <3>2
  <2>8. \A k \in Keys : Whole(k)' \/ \E K \in Loads, q \in Symbols : Halfway(k, K, q)'
    BY <2>1, <2>5, <2>6
  <2>9. QED BY <1>4, <2>7, <2>8 DEF CacheInv
<1>7. ASSUME NEW L \in Loads, NEW s \in SymbolsOf[L], WriteWindow(L, s) PROVE CacheInv'
  <2>1. s \in Symbols
    BY LoadsAssumption
  <2>2. /\ fetch[L][s].pc = "half"
        /\ cache' = [cache EXCEPT ![Key(s)].meta = WindowOf[L]]
        /\ fetch' = [fetch EXCEPT ![L][s] = Left("ok")]
    BY <1>7 DEF WriteWindow
  <2>3. lock = <<L, s>> /\ cache[Key(s)].csv \in {WindowOf[L], {}}
    BY <1>1, <2>1, <2>2 DEF CacheInv
  <2>4. fetch'[L][s].pc = "ok"
    BY <1>1, <2>1, <2>2, LeftIs DEF ShapeInv
  <2>5. \A k : k = Key(s) => Whole(k)'
    <3>1. cache'[Key(s)].meta = WindowOf[L] /\ cache'[Key(s)].csv = cache[Key(s)].csv
      BY <1>1, <1>3, <2>1, <2>2 DEF ShapeInv, EntryFields
    <3>2. QED BY <1>2, <2>3, <3>1 DEF Whole
  <2>6. \A k \in Keys : k # Key(s) => Whole(k)'
    <3>1. \A k \in Keys : k # Key(s) => Whole(k)
      BY <1>1, <2>3 DEF CacheInv, Halfway
    <3>2. \A k \in Keys : k # Key(s) => cache'[k] = cache[k]
      BY <1>1, <2>2 DEF ShapeInv
    <3>3. QED BY <3>1, <3>2 DEF Whole
  <2>7. \A K \in Loads, q \in Symbols : fetch'[K][q].pc # "half"
    <3>1. SUFFICES ASSUME NEW K \in Loads, NEW q \in Symbols, <<K, q>> # <<L, s>>
                   PROVE  fetch'[K][q].pc # "half"
      BY <2>4
    <3>2. fetch'[K][q] = fetch[K][q]
      BY <1>1, <2>1, <2>2, <3>1 DEF ShapeInv
    <3>3. QED BY <1>1, <2>3, <3>1, <3>2 DEF CacheInv
  <2>8. \A k \in Keys : Whole(k)'
    BY <2>5, <2>6
  <2>9. QED BY <1>4, <2>7, <2>8 DEF CacheInv
<1>8. QED BY <1>1, <1>5, <1>6, <1>7 DEF Writers

\* The invariant holds in every state.
THEOREM Invariance == Spec => []Inv
<1>1. Init => Inv
  BY InitInv
<1>2. Inv /\ [Next]_vars => Inv'
  <2>1. ASSUME Inv, Next PROVE Inv'
    BY <2>1, ShapeStep, BornStep, LateStep, CacheStep DEF Inv
  <2>2. ASSUME Inv, UNCHANGED vars PROVE Inv'
    <3>1. ShapeInv' /\ BornInv'
      BY <2>2 DEF Inv, ShapeInv, BornInv, vars, cancelVars
    <3>2. LateInv'
      BY <2>2 DEF Inv, LateInv, IsCancelled, vars, cancelVars
    <3>3. CacheInv'
      BY <2>2 DEF Inv, CacheInv, Whole, Halfway, Key, vars
    <3>4. QED BY <3>1, <3>2, <3>3 DEF Inv
  <2>3. QED BY <2>1, <2>2
<1>3. QED BY <1>1, <1>2, PTL DEF Spec

-----------------------------------------------------------------------------
(* After its deadline or the deletion of its research, a load sends at most *)
(* one more request for each symbol (market_data_timeouts.py:73), for any   *)
(* number of attempts and of fetch threads.                                 *)
THEOREM LateSendsBoundedAlways == Spec => []LateSendsBounded
<1>1. Inv => LateSendsBounded
  BY DEF Inv, LateInv, LateSendsBounded
<1>2. QED BY <1>1, Invariance, PTL

(* While nobody writes the cache, each entry is whole (price_cache.py:88),  *)
(* whatever loads, live or given up, have written it.                       *)
THEOREM CacheAgreesAlways == Spec => []CacheAgrees
<1>1. Inv => CacheAgrees
  BY CacheAssumption DEF Inv, ShapeInv, CacheInv, CacheAgrees, Whole, Halfway, Keys
<1>2. QED BY <1>1, Invariance, PTL

(* A load starts with a generation that nobody has cancelled                *)
(* (market_data_cancel.py:70).                                              *)
THEOREM LoadsStartFreshAlways == Spec => LoadsStartFresh
<1> DEFINE Fresh == \A L \in Loads : caller[L] = "unborn" /\ caller'[L] = "waiting"
                                       => gen'[L] \notin cancelled'
<1>1. ASSUME Inv, Next, NEW L \in Loads, caller[L] = "unborn", caller'[L] = "waiting"
      PROVE  gen'[L] \notin cancelled'
  <2>1. ShapeInv /\ BornInv /\ Writers
    BY <1>1, StepWriters DEF Inv
  <2>2. Begin(L)
    <3>1. ASSUME NEW K \in Loads, Answer(K) \/ Timeout(K) PROVE FALSE
      BY <1>1, <2>1, <3>1 DEF Answer, Timeout, Answers, ShapeInv
    <3>2. ASSUME NEW r \in Researches, Remove(r) PROVE FALSE
      BY <1>1, <3>2 DEF Remove
    <3>3. ASSUME NEW K \in Loads, Begin(K), K # L PROVE FALSE
      BY <1>1, <2>1, <3>3 DEF Begin, ShapeInv
    <3>4. QED BY <1>1, <2>1, <3>1, <3>2, <3>3 DEF Writers
  <2>3. bound[ThreadOf[L]] = 0
    BY <2>1, <2>2, LoadsAssumption DEF BornInv, Begin
  <2>4. gen'[L] = gens + 1 /\ cancelled' = cancelled
    BY <2>1, <2>2, <2>3, BeginOpens
  <2>5. QED BY <2>1, <2>4 DEF ShapeInv
<1>2. Inv /\ [Next]_vars => [Fresh]_vars
  BY <1>1
<1>3. QED BY <1>2, Invariance, PTL DEF Spec, LoadsStartFresh
-----------------------------------------------------------------------------
(* What a load shows *)

\* The places of a fetch, and those of the thread of a load.
Places == Busy \cup Done \cup {"idle", "meta", "hit", "missing", "queued", "dropped"}
Stages == {"none", "queued", "look", "collect", "dropped"} \cup Answers
Begun == {L \in Loads : caller[L] # "unborn"}

\* The values TypeOK bounds that no other part of the invariant looks at.
PlaceInv ==
    /\ \A L \in Loads, s \in Symbols :
          fetch[L][s].pc \in Places /\ Counted(fetch[L][s])
    /\ io \in [Loads -> Stages]
    /\ seen \in [Loads -> SUBSET Symbols]
    /\ lock \in (Loads \X Symbols) \cup {None}
    /\ progress \in BOOLEAN
    /\ removed \subseteq Researches

\* Each load opens a generation of its own: a thread waits for one load, bound
\* to a generation, and there are no more generations than loads that began.
OpenedInv ==
    /\ 0 \notin cancelled
    /\ \A r \in Researches : 0 \notin loadsOf[r]
    /\ \A L \in Loads : caller[L] = "waiting" => bound[ThreadOf[L]] # 0
    /\ \A K, L \in Loads : caller[K] = "waiting" /\ caller[L] = "waiting"
                              /\ ThreadOf[K] = ThreadOf[L] => K = L
    /\ gens <= Cardinality(Begun)

\* A frame is an answer of the load's thread, which gave it when each symbol
\* was in the cache, fetched, or without prices, and no fetch goes back.
FrameInv ==
    \A L \in Loads :
       /\ caller[L] = "frame" => io[L] = "frame"
       /\ io[L] = "frame" => \A s \in SymbolsOf[L] : fetch[L][s].pc \in {"hit", "ok", "none"}
       /\ \A s \in seen[L] : fetch[L][s].pc \in {"ok", "none"}

ShowInv == PlaceInv /\ OpenedInv /\ FrameInv /\ IdleShowsNothing

\* What a step does to the thread of a load and to its caller.
LoadMoves(L) ==
    /\ \/ io'[L] = io[L]
       \/ io[L] = "none" /\ io'[L] = "queued"
       \/ io[L] = "queued" /\ io'[L] \in {"dropped", "look"}
       \/ io[L] = "look" /\ io'[L] = "collect"
       \/ io[L] = "collect" /\ io'[L] \in {"failed", "cancelled"}
       \/ /\ io[L] = "collect" /\ io'[L] = "frame"
          /\ SymbolsOf[L] = seen[L] \cup Fetches(L, {"hit"})
    /\ seen'[L] \subseteq seen[L] \cup {s \in Symbols : fetch[L][s].pc \in {"ok", "none"}}
    /\ caller'[L] = "frame" => caller[L] = "frame" \/ io[L] = "frame"
\* The bar is cleared, or some load runs that shows it.
ProgressMoves ==
    \/ progress' = FALSE
    \/ progress' = TRUE /\ \E L \in Loads : io'[L] = "look"
    \/ /\ progress' = progress
       /\ \A L \in Loads : io[L] \in {"look", "collect"} => io'[L] \in {"look", "collect"}
AllLoadsMove ==
    /\ io' = [K \in Loads |-> io'[K]]
    /\ seen' = [K \in Loads |-> seen'[K]]
    /\ \A L \in Loads : LoadMoves(L)
    /\ ProgressMoves

\* A step that leaves the threads of the loads alone.
LEMMA NoLoadMoved ==
  ASSUME ShapeInv, PlaceInv, UNCHANGED <<io, caller, seen, progress>>
  PROVE  AllLoadsMove
  BY DEF ShapeInv, PlaceInv, AllLoadsMove, LoadMoves, ProgressMoves

\* A step of one load.
LEMMA OneLoadMoved ==
  ASSUME ShapeInv, PlaceInv, NEW L \in Loads, LoadMoves(L), ProgressMoves,
         io' = [K \in Loads |-> io'[K]], seen' = [K \in Loads |-> seen'[K]],
         \A K \in Loads : K # L => io'[K] = io[K] /\ seen'[K] = seen[K]
                                   /\ caller'[K] = caller[K]
  PROVE  AllLoadsMove
  BY DEF AllLoadsMove, LoadMoves

\* A load that leaves load_daily.
LEMMA LoadEnds ==
  ASSUME ShapeInv, PlaceInv, NEW L \in Loads, io[L] = "collect", NEW answer, End(L, answer),
         \/ answer \in {"failed", "cancelled"}
         \/ answer = "frame" /\ SymbolsOf[L] = seen[L] \cup Fetches(L, {"hit"}),
         UNCHANGED <<caller, seen>>
  PROVE  AllLoadsMove
<1>1. io' = [io EXCEPT ![L] = answer] /\ progress' = FALSE
  BY DEF End, Cleared
<1>2. /\ io' = [K \in Loads |-> io'[K]] /\ seen' = [K \in Loads |-> seen'[K]]
      /\ io'[L] = answer
      /\ \A K \in Loads : K # L => io'[K] = io[K] /\ seen'[K] = seen[K]
                                   /\ caller'[K] = caller[K]
  BY <1>1 DEF ShapeInv, PlaceInv
<1>3. ProgressMoves
  BY <1>1 DEF ProgressMoves
<1>4. LoadMoves(L)
  BY <1>2 DEF LoadMoves
<1>5. QED BY <1>2, <1>3, <1>4, OneLoadMoved

\* Every step of a load, of its caller and of its fetches.
LEMMA LoadSteps ==
  ASSUME ShapeInv, BornInv, PlaceInv, Next
  PROVE  AllLoadsMove
<1>1. ASSUME NEW L \in Loads, Begin(L) PROVE AllLoadsMove
  <2>1. /\ caller[L] = "unborn" /\ io[L] = "none"
        /\ io' = [io EXCEPT ![L] = "queued"] /\ caller' = [caller EXCEPT ![L] = "waiting"]
        /\ UNCHANGED <<seen, progress>>
    BY <1>1 DEF Begin, BornInv
  <2>2. LoadMoves(L)
    BY <2>1 DEF LoadMoves, ShapeInv
  <2>3. ProgressMoves
    BY <2>1 DEF ProgressMoves, ShapeInv
  <2>4. QED BY <2>1, <2>2, <2>3, OneLoadMoved DEF ShapeInv, PlaceInv
<1>2. ASSUME NEW L \in Loads, Answer(L) PROVE AllLoadsMove
  <2>1. caller' = [caller EXCEPT ![L] = io[L]] /\ UNCHANGED <<io, seen, progress>>
    BY <1>2 DEF Answer
  <2>2. LoadMoves(L)
    BY <2>1 DEF LoadMoves, ShapeInv
  <2>3. ProgressMoves
    BY <2>1 DEF ProgressMoves, ShapeInv
  <2>4. QED BY <2>1, <2>2, <2>3, OneLoadMoved DEF ShapeInv, PlaceInv
<1>3. ASSUME NEW L \in Loads, Timeout(L) PROVE AllLoadsMove
  <2>1. /\ caller' = [caller EXCEPT ![L] = "timeout"]
        /\ io' = [io EXCEPT ![L] = IF io[L] = "queued" THEN "dropped" ELSE io[L]]
        /\ UNCHANGED <<seen, progress>>
    BY <1>3 DEF Timeout
  <2>2. io'[L] = IF io[L] = "queued" THEN "dropped" ELSE io[L]
    BY <2>1 DEF ShapeInv
  <2>3. LoadMoves(L)
    BY <2>1, <2>2 DEF LoadMoves, ShapeInv
  <2>4. ProgressMoves
    BY <2>1 DEF ProgressMoves, ShapeInv
  <2>5. QED BY <2>1, <2>3, <2>4, OneLoadMoved DEF ShapeInv, PlaceInv
<1>4. ASSUME NEW L \in Loads, Open(L) PROVE AllLoadsMove
  <2>1. /\ io[L] = "queued" /\ io' = [io EXCEPT ![L] = "look"] /\ progress' = TRUE
        /\ UNCHANGED <<caller, seen>>
    BY <1>4 DEF Open
  <2>2. io'[L] = "look"
    BY <2>1 DEF ShapeInv
  <2>3. LoadMoves(L)
    BY <2>1, <2>2 DEF LoadMoves
  <2>4. ProgressMoves
    BY <2>1, <2>2 DEF ProgressMoves
  <2>5. QED BY <2>1, <2>3, <2>4, OneLoadMoved DEF ShapeInv, PlaceInv
<1>5. ASSUME NEW L \in Loads, Submit(L) PROVE AllLoadsMove
  <2>1. /\ io[L] = "look" /\ io' = [io EXCEPT ![L] = "collect"]
        /\ UNCHANGED <<caller, seen, progress>>
    BY <1>5 DEF Submit
  <2>2. io'[L] = "collect"
    BY <2>1 DEF ShapeInv
  <2>3. LoadMoves(L)
    BY <2>1, <2>2 DEF LoadMoves
  <2>4. ProgressMoves
    BY <2>1 DEF ProgressMoves, ShapeInv
  <2>5. QED BY <2>1, <2>3, <2>4, OneLoadMoved DEF ShapeInv, PlaceInv
<1>6. ASSUME NEW L \in Loads, Finish(L) PROVE AllLoadsMove
  <2>1. /\ io[L] = "collect" /\ End(L, "frame")
        /\ SymbolsOf[L] = seen[L] \cup Fetches(L, {"hit"})
        /\ UNCHANGED <<caller, seen>>
    BY <1>6 DEF Finish
  <2>2. QED BY <2>1, LoadEnds
<1>7. ASSUME NEW L \in Loads, NEW s \in SymbolsOf[L], Collect(L, s) PROVE AllLoadsMove
  <2>1. io[L] = "collect" /\ fetch[L][s].pc \in Done /\ UNCHANGED caller
    BY <1>7 DEF Collect
  <2>2. CASE Pooled(L) /\ IsCancelled(L)
    <3>1. End(L, "cancelled") /\ UNCHANGED seen
      BY <1>7, <2>2 DEF Collect
    <3>2. QED BY <2>1, <3>1, LoadEnds
  <2>3. CASE ~(Pooled(L) /\ IsCancelled(L)) /\ fetch[L][s].pc \in Failure
    <3>1. End(L, fetch[L][s].pc) /\ UNCHANGED seen
      BY <1>7, <2>3 DEF Collect
    <3>2. fetch[L][s].pc \in {"failed", "cancelled"}
      BY <2>3 DEF Failure
    <3>3. QED BY <2>1, <3>1, <3>2, LoadEnds
  <2>4. CASE ~(Pooled(L) /\ IsCancelled(L)) /\ fetch[L][s].pc \notin Failure
    <3>1. seen' = [seen EXCEPT ![L] = seen[L] \cup {s}] /\ UNCHANGED <<io, progress>>
      BY <1>7, <2>4 DEF Collect
    <3>2. s \in Symbols /\ fetch[L][s].pc \in {"ok", "none"}
      BY <2>1, <2>4, LoadsAssumption DEF Done, Failure
    <3>3. /\ seen' = [K \in Loads |-> seen'[K]] /\ seen'[L] = seen[L] \cup {s}
          /\ io' = [K \in Loads |-> io'[K]]
          /\ \A K \in Loads : K # L => seen'[K] = seen[K]
      BY <3>1 DEF PlaceInv
    <3>4. LoadMoves(L)
      BY <2>1, <3>1, <3>2, <3>3 DEF LoadMoves
    <3>5. ProgressMoves
      BY <3>1 DEF ProgressMoves
    <3>6. QED BY <2>1, <3>1, <3>3, <3>4, <3>5, OneLoadMoved DEF ShapeInv
  <2>5. QED BY <2>2, <2>3, <2>4
<1>8. ASSUME NEW L \in Loads, NEW s \in SymbolsOf[L],
             \/ LookWindow(L, s) \/ LookPrices(L, s) \/ Check(L, s) \/ Send(L, s)
             \/ Reply(L, s) \/ WritePrices(L, s) \/ WriteWindow(L, s)
      PROVE  AllLoadsMove
  <2>1. UNCHANGED <<io, caller, seen, progress>>
    BY <1>8 DEF LookWindow, LookPrices, Check, Send, Reply, WritePrices, WriteWindow
  <2>2. QED BY <2>1, NoLoadMoved
<1>9. ASSUME NEW r \in Researches, Remove(r) PROVE AllLoadsMove
  BY <1>9, NoLoadMoved DEF Remove
<1>10. QED
  BY <1>1, <1>2, <1>3, <1>4, <1>5, <1>6, <1>7, <1>8, <1>9 DEF Next

\* The engine starts without a load.
LEMMA InitShows ==
  ASSUME Init
  PROVE  ShowInv
<1>1. \A L \in Loads, s \in Symbols :
         fetch[L][s].pc = "idle" /\ Counted(fetch[L][s])
  BY AttemptsAssumption DEF Init, NewFetch, Counted
<1>2. /\ \A L \in Loads : io[L] = "none" /\ caller[L] = "unborn" /\ seen[L] = {}
      /\ io \in [Loads -> Stages] /\ seen \in [Loads -> SUBSET Symbols]
      /\ progress = FALSE /\ lock = None /\ removed = {} /\ gens = 0 /\ cancelled = {}
      /\ \A r \in Researches : loadsOf[r] = {}
  BY DEF Init, Stages
<1>3. PlaceInv
  BY <1>1, <1>2 DEF PlaceInv, Places
<1>4. OpenedInv
  <2>1. Begun = {}
    BY <1>2 DEF Begun
  <2>2. gens <= Cardinality(Begun)
    BY <1>2, <2>1, FS_EmptySet
  <2>3. QED BY <1>2, <2>2 DEF OpenedInv
<1>5. FrameInv
  BY <1>2 DEF FrameInv
<1>6. IdleShowsNothing
  BY <1>2 DEF IdleShowsNothing
<1>7. QED BY <1>3, <1>4, <1>5, <1>6 DEF ShowInv

\* No step takes a fetch, a load or the lock out of its places.
LEMMA PlaceStep ==
  ASSUME Inv, ShowInv, Next
  PROVE  PlaceInv'
<1>1. AllMove /\ AllLoadsMove /\ Writers /\ ShapeInv /\ PlaceInv
  BY FetchSteps, LoadSteps, StepWriters DEF Inv, ShowInv
<1>2. ASSUME NEW L \in Loads, NEW s \in Symbols
      PROVE  fetch'[L][s].pc \in Places /\ Counted(fetch'[L][s])
  <2>1. Moves(L, s) /\ fetch[L][s].pc \in Places /\ Counted(fetch[L][s])
    BY <1>1 DEF AllMove, PlaceInv
  <2>2. fetch'[L][s].pc \in Places
    BY <2>1 DEF Moves, Places, Busy, Done
  <2>3. QED BY <2>1, <2>2 DEF Moves
<1>3. io' \in [Loads -> Stages]
  <2>1. ASSUME NEW L \in Loads PROVE io'[L] \in Stages
    <3>1. LoadMoves(L) /\ io[L] \in Stages
      BY <1>1 DEF AllLoadsMove, PlaceInv
    <3>2. QED BY <3>1 DEF LoadMoves, Stages, Answers
  <2>2. QED BY <1>1, <2>1 DEF AllLoadsMove
<1>4. seen' \in [Loads -> SUBSET Symbols]
  <2>1. ASSUME NEW L \in Loads PROVE seen'[L] \subseteq Symbols
    BY <1>1 DEF AllLoadsMove, LoadMoves, PlaceInv
  <2>2. QED BY <1>1, <2>1 DEF AllLoadsMove
<1>5. lock' \in (Loads \X Symbols) \cup {None}
  <2>1. ASSUME NEW L \in Loads, NEW s \in SymbolsOf[L], WritePrices(L, s) \/ WriteWindow(L, s)
        PROVE  lock' \in (Loads \X Symbols) \cup {None}
    BY <2>1, LoadsAssumption DEF WritePrices, WriteWindow
  <2>2. QED BY <1>1, <2>1 DEF Writers, PlaceInv
<1>6. progress' \in BOOLEAN
  BY <1>1 DEF AllLoadsMove, ProgressMoves, PlaceInv
<1>7. removed' \subseteq Researches
  <2>1. UNCHANGED removed \/ \E r \in Researches : removed' = removed \cup {r}
    BY <1>1 DEF Writers, Remove, Begin, Answer, Timeout
  <2>2. QED BY <1>1, <2>1 DEF PlaceInv
<1>8. QED BY <1>2, <1>3, <1>4, <1>5, <1>6, <1>7 DEF PlaceInv

\* A load opens a generation of its own, and its thread leaves it at the end.
LEMMA OpenedStep ==
  ASSUME Inv, ShowInv, Next
  PROVE  OpenedInv'
<1>1. Writers /\ ShapeInv /\ BornInv /\ OpenedInv
  BY StepWriters DEF Inv, ShowInv
<1>2. ASSUME NEW L \in Loads, Begin(L) PROVE OpenedInv'
  <2>1. /\ caller[L] = "unborn" /\ caller' = [caller EXCEPT ![L] = "waiting"]
        /\ \A K \in Loads : ThreadOf[K] = ThreadOf[L] => caller[K] # "waiting"
        /\ gens' = IF Opened(L) > gens THEN Opened(L) ELSE gens
        /\ \A r \in Researches : loadsOf'[r] \subseteq loadsOf[r] \cup {Opened(L)}
    BY <1>2 DEF Begin
  <2>2. ThreadOf[L] \in Threads /\ bound[ThreadOf[L]] = 0
    BY <1>1, <2>1, LoadsAssumption DEF BornInv
  <2>3. Opened(L) = gens + 1 /\ gens \in Nat
    BY <1>1, <2>2 DEF Opened, ShapeInv
  <2>4. gens' = gens + 1
    BY <2>1, <2>3
  <2>5. gen'[L] = gens + 1 /\ cancelled' = cancelled
        /\ bound' = [bound EXCEPT ![ThreadOf[L]] = gens + 1]
    BY <1>1, <1>2, <2>2, BeginOpens
  <2>6. 0 \notin cancelled' /\ \A r \in Researches : 0 \notin loadsOf'[r]
    BY <1>1, <2>1, <2>3, <2>5 DEF OpenedInv
  <2>7. \A K \in Loads : caller'[K] = "waiting" <=> K = L \/ caller[K] = "waiting"
    BY <1>1, <2>1 DEF ShapeInv
  <2>8. \A K \in Loads : caller'[K] = "waiting" => bound'[ThreadOf[K]] # 0
    <3>1. SUFFICES ASSUME NEW K \in Loads, caller'[K] = "waiting"
                   PROVE  bound'[ThreadOf[K]] # 0
      OBVIOUS
    <3>2. CASE ThreadOf[K] = ThreadOf[L]
      BY <1>1, <2>2, <2>3, <2>5, <3>2 DEF ShapeInv
    <3>3. CASE ThreadOf[K] # ThreadOf[L]
      <4>1. caller[K] = "waiting" /\ ThreadOf[K] \in Threads
        BY <2>7, <3>1, <3>3, LoadsAssumption
      <4>2. QED BY <1>1, <2>5, <3>3, <4>1 DEF OpenedInv, ShapeInv
    <3>4. QED BY <3>2, <3>3
  <2>9. \A J, K \in Loads : caller'[J] = "waiting" /\ caller'[K] = "waiting"
                              /\ ThreadOf[J] = ThreadOf[K] => J = K
    BY <1>1, <2>1, <2>7 DEF OpenedInv
  <2>10. gens' <= Cardinality(Begun')
    <3>1. Begun' = Begun \cup {L} /\ L \notin Begun
      BY <1>1, <2>1 DEF Begun, ShapeInv
    <3>2. IsFiniteSet(Begun)
      BY LoadsAssumption, FS_Subset DEF Begun
    <3>3. Cardinality(Begun') = Cardinality(Begun) + 1 /\ Cardinality(Begun) \in Nat
      BY <3>1, <3>2, FS_AddElement, FS_CardinalityType
    <3>4. gens <= Cardinality(Begun)
      BY <1>1 DEF OpenedInv
    <3>5. QED BY <2>3, <2>4, <3>3, <3>4
  <2>11. QED BY <2>6, <2>8, <2>9, <2>10 DEF OpenedInv
<1>3. ASSUME NEW L \in Loads, Answer(L) \/ Timeout(L) PROVE OpenedInv'
  <2>1. /\ caller[L] = "waiting"
        /\ \E a \in Answers : caller' = [caller EXCEPT ![L] = a]
        /\ bound' = [bound EXCEPT ![ThreadOf[L]] = 0]
        /\ UNCHANGED <<gens, loadsOf>>
        /\ cancelled' \subseteq cancelled \cup {bound[ThreadOf[L]]}
    BY <1>3 DEF Answer, Timeout, EndGeneration, Answers
  <2>2. bound[ThreadOf[L]] # 0 /\ ThreadOf[L] \in Threads
    BY <1>1, <2>1, LoadsAssumption DEF OpenedInv
  <2>3. 0 \notin cancelled' /\ \A r \in Researches : 0 \notin loadsOf'[r]
    BY <1>1, <2>1, <2>2 DEF OpenedInv
  <2>4. \A K \in Loads : /\ caller'[K] = "waiting" => caller[K] = "waiting" /\ K # L
                         /\ (caller'[K] = "unborn") <=> (caller[K] = "unborn")
    BY <1>1, <2>1 DEF ShapeInv, Answers
  <2>5. \A J, K \in Loads : caller'[J] = "waiting" /\ caller'[K] = "waiting"
                              /\ ThreadOf[J] = ThreadOf[K] => J = K
    BY <1>1, <2>4 DEF OpenedInv
  <2>6. \A K \in Loads : caller'[K] = "waiting" => bound'[ThreadOf[K]] # 0
    <3>1. SUFFICES ASSUME NEW K \in Loads, caller'[K] = "waiting"
                   PROVE  bound'[ThreadOf[K]] # 0
      OBVIOUS
    <3>2. caller[K] = "waiting" /\ K # L /\ bound[ThreadOf[K]] # 0
      BY <1>1, <2>4, <3>1 DEF OpenedInv
    <3>3. ThreadOf[K] # ThreadOf[L] /\ ThreadOf[K] \in Threads
      BY <1>1, <2>1, <3>2, LoadsAssumption DEF OpenedInv
    <3>4. QED BY <1>1, <2>1, <3>2, <3>3 DEF ShapeInv
  <2>7. Begun' = Begun
    BY <2>4 DEF Begun
  <2>8. gens' <= Cardinality(Begun')
    BY <1>1, <2>1, <2>7 DEF OpenedInv
  <2>9. QED BY <2>3, <2>5, <2>6, <2>8 DEF OpenedInv
<1>4. ASSUME NEW r \in Researches, Remove(r) PROVE OpenedInv'
  <2>1. UNCHANGED <<bound, gens, loadsOf, caller>> /\ cancelled' = cancelled \cup loadsOf[r]
    BY <1>4 DEF Remove
  <2>2. 0 \notin cancelled'
    BY <1>1, <2>1 DEF OpenedInv
  <2>3. Begun' = Begun
    BY <2>1 DEF Begun
  <2>4. QED BY <1>1, <2>1, <2>2, <2>3 DEF OpenedInv
<1>5. CASE UNCHANGED <<bound, gens, cancelled, loadsOf, gen, caller>>
  <2>1. Begun' = Begun
    BY <1>5 DEF Begun
  <2>2. QED BY <1>1, <1>5, <2>1 DEF OpenedInv
<1>6. QED BY <1>1, <1>2, <1>3, <1>4, <1>5 DEF Writers

\* A fetch that a frame counts on stays where it is, and the bar is cleared by
\* the last load that leaves.
LEMMA FrameStep ==
  ASSUME Inv, ShowInv, Next
  PROVE  FrameInv' /\ IdleShowsNothing'
<1>1. AllMove /\ AllLoadsMove /\ FrameInv /\ IdleShowsNothing
  BY FetchSteps, LoadSteps DEF Inv, ShowInv
<1>2. ASSUME NEW L \in Loads, NEW s \in Symbols
      PROVE  /\ fetch[L][s].pc \in {"ok", "none"} => fetch'[L][s].pc \in {"ok", "none"}
             /\ fetch[L][s].pc = "hit" => fetch'[L][s].pc = "hit"
  BY <1>1 DEF AllMove, Moves
<1>3. ASSUME NEW L \in Loads
      PROVE  /\ caller'[L] = "frame" => io'[L] = "frame"
             /\ io'[L] = "frame" =>
                   \A s \in SymbolsOf[L] : fetch'[L][s].pc \in {"hit", "ok", "none"}
             /\ \A s \in seen'[L] : fetch'[L][s].pc \in {"ok", "none"}
  <2>1. LoadMoves(L) /\ SymbolsOf[L] \subseteq Symbols /\ seen[L] \subseteq Symbols
    BY <1>1, LoadsAssumption DEF AllLoadsMove, ShowInv, PlaceInv
  <2>2. /\ caller[L] = "frame" => io[L] = "frame"
        /\ io[L] = "frame" => \A s \in SymbolsOf[L] : fetch[L][s].pc \in {"hit", "ok", "none"}
        /\ \A s \in seen[L] : fetch[L][s].pc \in {"ok", "none"}
    BY <1>1 DEF FrameInv
  <2>3. io[L] = "frame" => io'[L] = "frame"
    BY <2>1 DEF LoadMoves
  <2>4. caller'[L] = "frame" => io'[L] = "frame"
    BY <2>1, <2>2, <2>3 DEF LoadMoves
  <2>5. \A s \in seen'[L] : fetch'[L][s].pc \in {"ok", "none"}
    <3>1. SUFFICES ASSUME NEW s \in seen'[L] PROVE fetch'[L][s].pc \in {"ok", "none"}
      OBVIOUS
    <3>2. s \in Symbols /\ fetch[L][s].pc \in {"ok", "none"}
      BY <2>1, <2>2 DEF LoadMoves
    <3>3. QED BY <1>2, <3>2
  <2>6. ASSUME io'[L] = "frame", NEW s \in SymbolsOf[L]
        PROVE  fetch'[L][s].pc \in {"hit", "ok", "none"}
    <3>1. io[L] = "frame" \/ SymbolsOf[L] = seen[L] \cup Fetches(L, {"hit"})
      BY <2>1, <2>6 DEF LoadMoves
    <3>2. fetch[L][s].pc \in {"hit", "ok", "none"} /\ s \in Symbols
      BY <2>1, <2>2, <2>6, <3>1 DEF Fetches
    <3>3. QED BY <1>2, <3>2
  <2>7. QED BY <2>4, <2>5, <2>6
<1>4. FrameInv'
  BY <1>3 DEF FrameInv
<1>5. IdleShowsNothing'
  <2>1. SUFFICES ASSUME \A L \in Loads : io'[L] \notin {"look", "collect"}
                 PROVE  ~progress'
    BY DEF IdleShowsNothing
  <2>2. ProgressMoves
    BY <1>1 DEF AllLoadsMove
  <2>3. QED BY <1>1, <2>1, <2>2 DEF ProgressMoves, IdleShowsNothing
<1>6. QED BY <1>4, <1>5

\* The invariant holds in every state.
THEOREM ShowInvAlways == Spec => []ShowInv
<1>1. Init => ShowInv
  BY InitShows
<1>2. Inv /\ ShowInv /\ [Next]_vars => ShowInv'
  <2>1. ASSUME Inv, ShowInv, Next PROVE ShowInv'
    BY <2>1, PlaceStep, OpenedStep, FrameStep DEF ShowInv
  <2>2. ASSUME ShowInv, UNCHANGED vars PROVE ShowInv'
    <3>1. PlaceInv' /\ FrameInv' /\ IdleShowsNothing'
      BY <2>2 DEF ShowInv, PlaceInv, FrameInv, IdleShowsNothing, vars, cancelVars
    <3>2. Begun' = Begun
      BY <2>2 DEF Begun, vars
    <3>3. OpenedInv'
      BY <2>2, <3>2 DEF ShowInv, OpenedInv, vars, cancelVars
    <3>4. QED BY <3>1, <3>3 DEF ShowInv
  <2>3. QED BY <2>1, <2>2
<1>3. QED BY <1>1, <1>2, Invariance, PTL DEF Spec

(* What a load shows is true (gather.py:426-429,628): a frame holds every   *)
(* symbol but those that have no prices, however many fetches were          *)
(* cancelled, limited or broken, and the bar is gone when no load runs.     *)
THEOREM LoadsShowTheTruthAlways == Spec => []LoadsShowTheTruth
<1>1. Inv /\ ShowInv => TypeOK
  <2>1. SUFFICES ASSUME Inv, ShowInv PROVE TypeOK
    OBVIOUS
  <2>2. ShapeInv /\ PlaceInv /\ OpenedInv
    BY <2>1 DEF Inv, ShowInv
  <2>3. gens \in Nat /\ gens <= Cardinality(Loads) /\ Cardinality(Loads) \in Nat
    <3>1. Begun \subseteq Loads
      BY DEF Begun
    <3>2. Cardinality(Begun) <= Cardinality(Loads) /\ Cardinality(Loads) \in Nat
          /\ Cardinality(Begun) \in Nat
      BY <3>1, LoadsAssumption, FS_Subset, FS_CardinalityType
    <3>3. QED BY <2>2, <3>2 DEF ShapeInv, OpenedInv
  <2>4. bound \in [Threads -> 0..Cardinality(Loads)]
    <3>1. 0..gens \subseteq 0..Cardinality(Loads)
      BY <2>3
    <3>2. QED BY <2>2, <3>1 DEF ShapeInv
  <2>5. cancelled \subseteq 1..gens
    BY <2>2, <2>3 DEF ShapeInv, OpenedInv
  <2>6. loadsOf \in [Researches -> SUBSET (1..gens)]
    <3>1. ASSUME NEW r \in Researches PROVE loadsOf[r] \subseteq 1..gens
      <4>1. loadsOf[r] \subseteq 0..gens /\ 0 \notin loadsOf[r]
        BY <2>2 DEF ShapeInv, OpenedInv
      <4>2. QED BY <2>3, <4>1
    <3>2. QED BY <2>2, <3>1 DEF ShapeInv
  <2>7. QED
    BY <2>2, <2>3, <2>4, <2>5, <2>6
       DEF TypeOK, ShapeInv, PlaceInv, Places, Stages, Counted
<1>2. ShowInv => FrameIsWhole /\ IdleShowsNothing
  BY DEF ShowInv, FrameInv, FrameIsWhole
<1>3. QED BY <1>1, <1>2, Invariance, ShowInvAlways, PTL DEF LoadsShowTheTruth
-----------------------------------------------------------------------------
(* The symbol card                                                         *)
(*                                                                         *)
(* Its two properties hold for all tokens, descriptions, boxes and pools   *)
(* and any number of buttons and confirmations.  A view and a confirmation *)
(* write rows that they read before, so the invariant is about those rows  *)
(* as well: one that still has the stamp of the stored row has all of its  *)
(* buttons, and a universe that agrees with all the user said.             *)

\* A universe that agrees with the user, who said no to the symbols `no`: its
\* list is named or the pool, and one that is not named leaves nothing open and
\* waits for a market.
Agrees(u, no) ==
    u # Absent =>
        /\ IF u.override
           THEN u.symbols \subseteq Tokens
           ELSE /\ u.symbols \subseteq Pool[u.market]
                /\ u.asks = {} /\ u.unresolved = {}
                /\ u.unspecified => u.symbols = {}
        /\ no \cap (u.symbols \cup u.asks) = {}

\* A row that was read when the research was a draft.
Earlier(r) ==
    /\ r.status = "draft" /\ r.by = Absent
    /\ r.stamp <= row.stamp
    /\ r.stamp = row.stamp
         => r.edits = row.edits /\ refused \subseteq r.dismissed /\ Agrees(r.u, refused)

CardInv ==
    /\ CardTypeOK
    /\ Agrees(row.u, refused) /\ refused \subseteq row.dismissed
    /\ row.edits = edits
    /\ card # Absent => Earlier(card)
    /\ confirm.at = "probing" => confirm.copy \in Row /\ Earlier(confirm.copy)
    /\ row.status = "draft" => row.by = Absent
    /\ row.status = "running" => confirm = Idle /\ (card # Absent => card.stamp < row.stamp)
    /\ RunWasChecked

-----------------------------------------------------------------------------
(* What the parsers and the pool make of a text                            *)

\* A text that the model knows.
Text == [names : SUBSET Tokens, markets : SUBSET Markets]

\* The description without the dismissed tokens names none of them.
LEMMA DescribedAreNamed ==
    ASSUME NEW s \in Text, NEW d \in SUBSET Tokens
    PROVE  /\ DescribedMentions(s, d) \in Mentions
           /\ DescribedMentions(s, d).symbol \subseteq s.names \ d
           /\ DescribedMentions(s, d).ask \subseteq s.names \ d
BY DEF DescribedMentions, Mentions, Text

\* A box names nothing but what is typed in it.
LEMMA BoxesAreNamed ==
    ASSUME NEW T \in SUBSET Tokens
    PROVE  /\ BoxMentions(T) \in Mentions
           /\ BoxMentions(T).symbol \subseteq T
           /\ BoxMentions(T).ask \subseteq T
BY DEF BoxMentions, Mentions

\* Mentions that leave the refused symbols out make a universe that agrees.
LEMMA MentionsAgree ==
    ASSUME NEW u \in Universe, NEW m \in Mentions, NEW no,
           no \cap (m.symbol \cup m.ask) = {}
    PROVE  WithMentions(u, m) \in Universe /\ Agrees(WithMentions(u, m), no)
<1> DEFINE w == WithMentions(u, m)
<1>1. /\ m.symbol \in SUBSET Tokens /\ m.ask \in SUBSET Tokens /\ m.hint \in SUBSET Tokens
      /\ m.inferred \in SUBSET Tokens /\ m.unresolved \in SUBSET Tokens
      /\ m.mismatch \in SUBSET Tokens
  BY DEF Mentions
<1>2. Tokens \subseteq Listed
  BY DEF Listed
<1>3. w \in Universe
  BY <1>1, <1>2 DEF Universe, WithMentions
<1>4. /\ w.symbols = m.symbol /\ w.asks = m.ask /\ w.unresolved = m.unresolved
      /\ w.override = (m.symbol \cup m.unresolved \cup m.ask \cup m.mismatch # {})
  BY DEF WithMentions, Universe
<1>5. Agrees(w, no)
  BY <1>1, <1>4 DEF Agrees
<1>6. QED BY <1>3, <1>5

\* A universe without symbols, of a market that was named or not.
LEMMA BlankIsUniverse ==
    ASSUME NEW m \in Markets, NEW b \in BOOLEAN
    PROVE  Blank(m, b) \in Universe
BY DEF Blank, Universe

\* The universe of a text agrees with a user who refused nothing that it names.
LEMMA FirstAgrees ==
    ASSUME NEW s \in Text, NEW no, no \cap s.names = {}
    PROVE  UniverseFor(s) \in Universe /\ Agrees(UniverseFor(s), no)
<1> DEFINE m == DescribedMentions(s, {})
<1>1. m \in Mentions /\ no \cap (m.symbol \cup m.ask) = {}
  BY DescribedAreNamed
<1>2. Blank("CN", TRUE) \in Universe /\ Blank("CN", FALSE) \in Universe
      /\ Blank("US", FALSE) \in Universe
  BY BlankIsUniverse DEF Markets
<1>3. \E u \in Universe : UniverseFor(s) = WithMentions(u, m)
  BY <1>2 DEF UniverseFor
<1>4. QED BY <1>1, <1>3, MentionsAgree

\* A default pool has no token, so it has no refused one.
LEMMA PoolIsNoToken ==
    ASSUME NEW m \in Markets
    PROVE  Pool[m] \subseteq Listed /\ Pool[m] \cap Tokens = {} /\ Pool[m] # {}
BY CardAssumption DEF Listed

\* A list that is filled in is a universe.
LEMMA FilledIsUniverse ==
    ASSUME NEW u \in Universe, NEW s \in Text, NEW d \in SUBSET Tokens
    PROVE  Materialized(u, s, d) \in Universe \/ u = Absent
<1> DEFINE v == Described(u, s, d)
           p == [Blank(v.market, FALSE) EXCEPT !.symbols = Pool[v.market],
                                               !.hints = v.hints, !.answers = v.answers]
<1>1. v = u \/ v = WithMentions(u, DescribedMentions(s, d))
  BY DEF Described
<1>2. v \in Universe
  BY <1>1, DescribedAreNamed, MentionsAgree
<1>3. /\ v.market \in Markets /\ v.hints \in SUBSET Tokens
      /\ v.answers \in SUBSET (Tokens \X BOOLEAN)
  BY <1>2 DEF Universe
<1>4. Blank(v.market, FALSE) \in Universe /\ Pool[v.market] \in SUBSET Listed
  BY <1>3, BlankIsUniverse, PoolIsNoToken
<1>5. p \in Universe
  BY <1>3, <1>4 DEF Universe
<1>6. QED BY <1>2, <1>5 DEF Materialized

\* Filling a list in keeps it in agreement: the description is read without
\* what was dismissed, and the pool has nothing of it.
LEMMA FilledAgrees ==
    ASSUME NEW u \in Universe, u # Absent, NEW s \in Text, NEW d \in SUBSET Tokens,
           NEW no, no \subseteq d, Agrees(u, no)
    PROVE  Agrees(Materialized(u, s, d), no)
<1> DEFINE m == DescribedMentions(s, d)
           v == Described(u, s, d)
           p == [Blank(v.market, FALSE) EXCEPT !.symbols = Pool[v.market],
                                               !.hints = v.hints, !.answers = v.answers]
<1>1. m \in Mentions /\ no \cap (m.symbol \cup m.ask) = {}
  BY DescribedAreNamed
<1>2. v = u \/ v = WithMentions(u, m)
  BY DEF Described
<1>3. v \in Universe /\ Agrees(v, no)
  BY <1>1, <1>2, MentionsAgree
<1>4. /\ p.symbols = Pool[v.market] /\ p.asks = {} /\ p.unresolved = {}
      /\ p.override = FALSE /\ p.unspecified = FALSE /\ p.market = v.market
  BY DEF Blank
<1>5. no \cap Pool[v.market] = {}
  BY <1>3, PoolIsNoToken DEF Universe
<1>6. Agrees(p, no)
  BY <1>4, <1>5 DEF Agrees
<1>7. QED BY <1>3, <1>6 DEF Materialized

\* A list that is filled in and passes the gate has symbols: the pool, or what
\* was named.
LEMMA FilledHasSymbols ==
    ASSUME NEW u \in Universe, u # Absent, NEW s \in Text, NEW d \in SUBSET Tokens,
           Gate(Materialized(u, s, d))
    PROVE  Materialized(u, s, d).symbols # {}
<1> DEFINE v == Described(u, s, d)
           p == [Blank(v.market, FALSE) EXCEPT !.symbols = Pool[v.market],
                                               !.hints = v.hints, !.answers = v.answers]
<1>1. v = u \/ v = WithMentions(u, DescribedMentions(s, d))
  BY DEF Described
<1>2. v \in Universe
  BY <1>1, DescribedAreNamed, MentionsAgree
<1>3. Pool[v.market] # {} /\ p.symbols = Pool[v.market]
  BY <1>2, PoolIsNoToken DEF Universe, Blank
<1>4. CASE Silent(v) /\ ~v.unspecified
  BY <1>3, <1>4 DEF Materialized
<1>5. CASE ~(Silent(v) /\ ~v.unspecified)
  <2>1. Materialized(u, s, d) = v
    BY <1>5 DEF Materialized
  <2>2. v # Absent
    BY <1>2, AbsentAssumption
  <2>3. /\ ~v.unspecified /\ v.mismatches = {} /\ v.unresolved = {} /\ v.asks = {}
        /\ v.override => v.symbols # {}
    BY <2>1, <2>2 DEF Gate
  <2>4. QED BY <1>5, <2>1, <2>3 DEF Silent
<1>6. QED BY <1>4, <1>5

-----------------------------------------------------------------------------
(* The buttons                                                             *)

\* The fields of a stored row.
LEMMA RowFields ==
    ASSUME NEW r \in Row
    PROVE  /\ r.u \in Universe \cup {Absent} /\ r.dismissed \in SUBSET Tokens
           /\ r.status \in {"draft", "running"} /\ r.by \in {"journaled", "legacy", Absent}
           /\ r.stamp \in Nat /\ r.edits \in Nat /\ r.cleared \in BOOLEAN
BY DEF Row

\* The fields of a universe.
LEMMA UniverseFields ==
    ASSUME NEW u \in Universe
    PROVE  /\ u.market \in Markets /\ u.unspecified \in BOOLEAN /\ u.override \in BOOLEAN
           /\ u.symbols \in SUBSET Listed /\ u.unresolved \in SUBSET Tokens
           /\ u.inferred \in SUBSET Tokens /\ u.asks \in SUBSET Tokens
           /\ u.answers \in SUBSET (Tokens \X BOOLEAN)
           /\ u.hints \in SUBSET Tokens /\ u.mismatches \in SUBSET Tokens
BY DEF Universe

\* A draft that is written under a new stamp, with all of the buttons and a
\* universe that agrees, leaves no read that could overwrite it.
LEMMA DraftIsWritten ==
    ASSUME CardInv, CardTypeOK', row.status = "draft",
           row'.status = "draft", row'.by = Absent, row'.stamp = row.stamp + 1,
           row'.edits = edits', Agrees(row'.u, refused'), refused' \subseteq row'.dismissed,
           UNCHANGED card, confirm' = confirm \/ confirm'.at # "probing"
    PROVE  CardInv'
<1>1. row \in Row /\ row' \in Row
  BY DEF CardInv, CardTypeOK
<1>2. row.stamp \in Nat
  BY <1>1, RowFields
<1>3. ASSUME NEW r \in Row, Earlier(r)
      PROVE  Earlier(r)'
  <2>1. r.stamp \in Nat
    BY RowFields
  <2>2. r.stamp < row'.stamp
    BY <1>2, <1>3, <2>1 DEF Earlier
  <2>3. QED BY <1>2, <1>3, <2>1, <2>2 DEF Earlier
<1>4. (card # Absent => Earlier(card))'
  BY <1>3 DEF CardInv, CardTypeOK
<1>5. (confirm.at = "probing" => confirm.copy \in Row /\ Earlier(confirm.copy))'
  BY <1>3 DEF CardInv
<1>6. RunWasChecked'
  BY AbsentAssumption DEF RunWasChecked
<1>7. QED BY <1>4, <1>5, <1>6 DEF CardInv

\* A button that leaves a universe which agrees keeps the invariant.
LEMMA PressKeeps ==
    ASSUME CardInv, Editable, NEW u \in Universe, NEW d \in SUBSET Tokens, NEW c \in BOOLEAN,
           Press(u, d, c), refused' \in SUBSET Tokens, refused' \subseteq d, Agrees(u, refused')
    PROVE  CardInv'
<1>1. row \in Row /\ edits \in 0 .. MaxEdits /\ MaxEdits \in Nat
  BY CardAssumption DEF CardInv, CardTypeOK
<1>2. /\ row' = [row EXCEPT !.u = u, !.dismissed = d, !.stamp = @ + 1, !.edits = edits + 1,
                            !.cleared = c]
      /\ edits < MaxEdits /\ edits' = edits + 1
      /\ UNCHANGED <<said, floor, split, card, confirm, confirms>>
  BY DEF Press
<1>3. edits' \in 0 .. MaxEdits
  BY <1>1, <1>2
<1>4. row.stamp + 1 \in Nat /\ edits + 1 \in Nat
  BY <1>1, RowFields
<1>5. row' \in Row
  BY <1>1, <1>2, <1>4 DEF Row
<1>6. CardTypeOK'
  BY <1>2, <1>3, <1>5 DEF CardInv, CardTypeOK
<1>7. /\ row'.u = u /\ row'.dismissed = d /\ row'.stamp = row.stamp + 1
      /\ row'.edits = edits' /\ row'.status = row.status /\ row'.by = row.by
  BY <1>1, <1>2 DEF Row
<1>8. row.status = "draft" /\ row.by = Absent
  BY DEF CardInv, Editable
<1>9. QED BY <1>2, <1>6, <1>7, <1>8, DraftIsWritten

\* What a button starts from.
LEMMA EditableFields ==
    ASSUME CardInv, Editable
    PROVE  /\ row.u \in Universe /\ Agrees(row.u, refused) /\ row.u # Absent
           /\ row.dismissed \in SUBSET Tokens /\ refused \in SUBSET Tokens
           /\ refused \subseteq row.dismissed
<1>1. row \in Row /\ refused \subseteq Tokens
  BY DEF CardInv, CardTypeOK
<1>2. row.u \in Universe \cup {Absent} /\ row.dismissed \in SUBSET Tokens
  BY <1>1, RowFields
<1>3. QED BY <1>1, <1>2 DEF CardInv, Editable

\* Emptying the box leaves nothing to refuse.
LEMMA ClearBoxKeeps ==
    ASSUME CardInv, ClearBox
    PROVE  CardInv'
<1> DEFINE u == [row.u EXCEPT !.symbols = {}, !.override = FALSE, !.unresolved = {},
                              !.inferred = {}, !.asks = {}, !.answers = {}, !.hints = {}]
           d == row.dismissed \cup row.u.inferred
<1>1. Editable /\ Press(u, d, TRUE) /\ UNCHANGED refused
  BY DEF ClearBox
<1>2. /\ row.u \in Universe /\ row.dismissed \in SUBSET Tokens
      /\ refused \in SUBSET Tokens /\ refused \subseteq row.dismissed
  BY <1>1, EditableFields
<1>3. u \in Universe
  BY <1>2 DEF Universe
<1>4. u.symbols = {} /\ u.override = FALSE /\ u.unresolved = {} /\ u.asks = {}
  BY <1>2 DEF Universe
<1>5. Agrees(u, refused')
  BY <1>4 DEF Agrees
<1>6. d \in SUBSET Tokens
  BY <1>2, UniverseFields
<1> HIDE DEF u, d
<1>7. refused' \subseteq d
  BY <1>1, <1>2 DEF d
<1>8. QED BY <1>1, <1>2, <1>3, <1>5, <1>6, <1>7, PressKeeps

\* What a box names is not refused any more.
LEMMA FillBoxKeeps ==
    ASSUME CardInv, NEW T \in Boxes, FillBox(T)
    PROVE  CardInv'
<1> DEFINE m == BoxMentions(T)
           w == WithMentions(row.u, m)
           u == [w EXCEPT !.hints = {}]
           d == row.dismissed \cup row.u.inferred
<1>1. Editable /\ Press(u, d, FALSE) /\ refused' = refused \ T
  BY DEF FillBox
<1>2. /\ row.u \in Universe /\ row.dismissed \in SUBSET Tokens
      /\ refused \in SUBSET Tokens /\ refused \subseteq row.dismissed
  BY <1>1, EditableFields
<1>3. T \in SUBSET Tokens
  BY CardAssumption
<1>4. m \in Mentions /\ refused' \cap (m.symbol \cup m.ask) = {}
  BY <1>1, <1>3, BoxesAreNamed
<1>5. w \in Universe /\ Agrees(w, refused')
  BY <1>2, <1>4, MentionsAgree
<1> HIDE DEF w
<1>6. u \in Universe /\ u.symbols = w.symbols /\ u.override = w.override /\ u.asks = w.asks
      /\ u.unresolved = w.unresolved /\ u.unspecified = w.unspecified /\ u.market = w.market
  BY <1>5 DEF Universe
<1>7. Agrees(u, refused')
  BY <1>5, <1>6, AbsentAssumption DEF Agrees
<1>8. d \in SUBSET Tokens
  BY <1>2, UniverseFields
<1> HIDE DEF u, d
<1>9. refused' \subseteq d /\ refused' \in SUBSET Tokens
  BY <1>1, <1>2 DEF d
<1>10. QED BY <1>1, <1>6, <1>7, <1>8, <1>9, PressKeeps

\* A yes takes the symbol off the refused ones, a no takes its question away.
LEMMA AnswerAskKeeps ==
    ASSUME CardInv, NEW t \in Tokens, NEW yes \in BOOLEAN, AnswerAsk(t, yes)
    PROVE  CardInv'
<1> DEFINE symbols == IF yes THEN row.u.symbols \cup {t} ELSE row.u.symbols
           asks == row.u.asks \ {t}
           answers == (row.u.answers \ ({t} \X BOOLEAN)) \cup {<<t, yes>>}
           named == symbols \cup asks \cup row.u.unresolved # {}
           u == [row.u EXCEPT !.symbols = symbols, !.asks = asks, !.answers = answers,
                              !.override = named]
           d == IF yes THEN row.dismissed ELSE row.dismissed \cup {t}
<1>1. /\ Editable /\ t \in row.u.asks /\ Press(u, d, FALSE)
      /\ refused' = IF yes THEN refused \ {t} ELSE refused \cup ({t} \ row.u.symbols)
  BY DEF AnswerAsk
<1>2. /\ row.u \in Universe /\ Agrees(row.u, refused) /\ row.u # Absent
      /\ row.dismissed \in SUBSET Tokens
      /\ refused \in SUBSET Tokens /\ refused \subseteq row.dismissed
  BY <1>1, EditableFields
<1>3. /\ symbols \in SUBSET Listed /\ asks \in SUBSET Tokens
      /\ answers \in SUBSET (Tokens \X BOOLEAN) /\ named \in BOOLEAN
  BY <1>2, UniverseFields DEF Listed
<1>4. row.u.override /\ row.u.symbols \subseteq Tokens
  BY <1>1, <1>2 DEF Agrees
<1>5. symbols \subseteq Tokens
  BY <1>4
<1>6. refused' \cap (symbols \cup asks) = {}
  BY <1>1, <1>2 DEF Agrees
<1>7. ~named => symbols = {} /\ asks = {} /\ row.u.unresolved = {}
  OBVIOUS
<1> HIDE DEF symbols, asks, answers, named
<1>8. /\ u \in Universe /\ u.symbols = symbols /\ u.asks = asks /\ u.override = named
      /\ u.unresolved = row.u.unresolved
  BY <1>2, <1>3 DEF Universe
<1>9. Agrees(u, refused')
  BY <1>5, <1>6, <1>7, <1>8 DEF Agrees
<1>10. d \in SUBSET Tokens /\ refused' \subseteq d /\ refused' \in SUBSET Tokens
  BY <1>1, <1>2
<1> HIDE DEF u, d
<1>11. QED BY <1>1, <1>8, <1>9, <1>10, PressKeeps

\* A reopened question takes its symbol off the refused ones.
LEMMA RevertAskKeeps ==
    ASSUME CardInv, NEW t \in Tokens, NEW yes \in BOOLEAN, RevertAsk(t, yes)
    PROVE  CardInv'
<1> DEFINE own == OwnSymbols(row.u)
           symbols == IF yes THEN own \ {t} ELSE own
           asks == row.u.asks \cup {t}
           answers == row.u.answers \ {<<t, yes>>}
           u == [row.u EXCEPT !.answers = answers, !.asks = asks, !.symbols = symbols,
                              !.override = TRUE]
           d == row.dismissed \ {t}
<1>1. Editable /\ Press(u, d, FALSE) /\ refused' = refused \ {t}
  BY DEF RevertAsk
<1>2. /\ row.u \in Universe /\ Agrees(row.u, refused) /\ row.u # Absent
      /\ row.dismissed \in SUBSET Tokens
      /\ refused \in SUBSET Tokens /\ refused \subseteq row.dismissed
  BY <1>1, EditableFields
<1>3. own \subseteq Tokens /\ own \subseteq row.u.symbols
  BY <1>2 DEF OwnSymbols, Agrees
<1>4. symbols \subseteq Tokens /\ symbols \in SUBSET Listed
  BY <1>3 DEF Listed
<1>5. asks \in SUBSET Tokens /\ answers \in SUBSET (Tokens \X BOOLEAN)
  BY <1>2, UniverseFields
<1>6. refused' \cap (symbols \cup asks) = {}
  BY <1>1, <1>2, <1>3 DEF Agrees
<1> HIDE DEF symbols, asks, answers
<1>7. u \in Universe /\ u.symbols = symbols /\ u.asks = asks /\ u.override = TRUE
  BY <1>2, <1>4, <1>5 DEF Universe
<1>8. Agrees(u, refused')
  BY <1>4, <1>6, <1>7 DEF Agrees
<1>9. d \in SUBSET Tokens /\ refused' \subseteq d /\ refused' \in SUBSET Tokens
  BY <1>1, <1>2
<1> HIDE DEF u, d
<1>10. QED BY <1>1, <1>7, <1>8, <1>9, PressKeeps

\* A hint becomes the whole list.
LEMMA UseHintKeeps ==
    ASSUME CardInv, NEW t \in Tokens, UseHint(t)
    PROVE  CardInv'
<1> DEFINE u == [row.u EXCEPT !.symbols = {t}, !.override = TRUE, !.unresolved = {},
                              !.inferred = {}, !.asks = {}, !.answers = {}, !.hints = {}]
           d == row.dismissed \cup row.u.hints
<1>1. Editable /\ Press(u, d, FALSE) /\ refused' = refused \ {t}
  BY DEF UseHint
<1>2. /\ row.u \in Universe /\ row.dismissed \in SUBSET Tokens
      /\ refused \in SUBSET Tokens /\ refused \subseteq row.dismissed
  BY <1>1, EditableFields
<1>3. {t} \in SUBSET Listed
  BY DEF Listed
<1>4. u \in Universe /\ u.symbols = {t} /\ u.override = TRUE /\ u.asks = {}
  BY <1>2, <1>3 DEF Universe
<1>5. Agrees(u, refused')
  BY <1>1, <1>4 DEF Agrees
<1>6. d \in SUBSET Tokens /\ refused' \subseteq d /\ refused' \in SUBSET Tokens
  BY <1>1, <1>2, UniverseFields
<1> HIDE DEF u, d
<1>7. QED BY <1>1, <1>4, <1>5, <1>6, PressKeeps

\* A default pool is of one market, so the user named a mixed list.
LEMMA MixedIsNamed ==
    ASSUME NEW u \in Universe, NEW no, Agrees(u, no), u # Absent, Mixed(u.symbols)
    PROVE  u.override
<1>1. SUFFICES ASSUME ~u.override PROVE FALSE
  OBVIOUS
<1>2. u.market \in Markets /\ u.symbols \subseteq Pool[u.market]
  BY <1>1, UniverseFields DEF Agrees
<1>3. Side(u.symbols, Other(u.market)) # {} /\ Other(u.market) \in Markets
  BY <1>2 DEF Mixed, Other, Markets
<1>4. PICK x \in u.symbols : IF x \in Tokens THEN Venue[x] = Other(u.market)
                                             ELSE x \in Pool[Other(u.market)]
  BY <1>3 DEF Side
<1>5. x \in Pool[u.market] /\ x \notin Tokens
  BY <1>2, <1>4, PoolIsNoToken
<1>6. Pool["CN"] \cap Pool["US"] = {}
  BY CardAssumption
<1>7. QED BY <1>2, <1>4, <1>5, <1>6 DEF Other, Markets

\* The removed side leaves the list, and what was recognized on it is refused.
LEMMA RemoveSideKeeps ==
    ASSUME CardInv, NEW m \in Markets, RemoveSide(m)
    PROVE  CardInv'
<1> DEFINE drop == Side(row.u.symbols, m)
           keep == row.u.symbols \ drop
           inferred == row.u.inferred \ drop
           named == keep \cup row.u.unresolved \cup row.u.asks # {}
           u == [row.u EXCEPT !.market = Other(m), !.symbols = keep, !.override = named,
                              !.inferred = inferred]
           d == row.dismissed \cup (row.u.inferred \cap drop)
<1>1. /\ Editable /\ Mixed(row.u.symbols) /\ Press(u, d, FALSE)
      /\ refused' = refused \cup ((row.u.inferred \cap drop) \ row.u.asks)
  BY DEF RemoveSide
<1>2. /\ row.u \in Universe /\ Agrees(row.u, refused) /\ row.u # Absent
      /\ row.dismissed \in SUBSET Tokens
      /\ refused \in SUBSET Tokens /\ refused \subseteq row.dismissed
  BY <1>1, EditableFields
<1>3. row.u.override /\ row.u.symbols \subseteq Tokens
  BY <1>1, <1>2, MixedIsNamed DEF Agrees
<1>4. Side(row.u.symbols, Other(m)) # {}
  BY <1>1 DEF Mixed, Other, Markets
<1>5. PICK x \in row.u.symbols : Venue[x] = Other(m)
  BY <1>3, <1>4 DEF Side
<1>6. x \in keep
  BY <1>3, <1>5 DEF Side, Other, Markets
<1>7. named = TRUE /\ keep \subseteq Tokens
  BY <1>3, <1>6
<1>8. Other(m) \in Markets /\ keep \in SUBSET Listed /\ inferred \in SUBSET Tokens
  BY <1>2, UniverseFields DEF Other, Markets
<1>9. refused' \cap (keep \cup row.u.asks) = {}
  BY <1>1, <1>2 DEF Agrees
<1>10. d \in SUBSET Tokens /\ refused' \subseteq d /\ refused' \in SUBSET Tokens
  BY <1>1, <1>2, UniverseFields
<1> HIDE DEF drop, keep, inferred, named
<1>11. u \in Universe /\ u.symbols = keep /\ u.asks = row.u.asks /\ u.override = TRUE
  BY <1>2, <1>7, <1>8 DEF Universe
<1>12. Agrees(u, refused')
  BY <1>7, <1>9, <1>11 DEF Agrees
<1> HIDE DEF u, d
<1>13. QED BY <1>1, <1>10, <1>11, <1>12, PressKeeps

\* The description is read again without all that was dismissed.
LEMMA DismissMismatchKeeps ==
    ASSUME CardInv, NEW t \in Tokens, DismissMismatch(t)
    PROVE  CardInv'
<1> DEFINE d == row.dismissed \cup {t}
           m == DescribedMentions(said, d)
           u == WithMentions(row.u, m)
<1>1. Editable /\ Press(u, d, FALSE) /\ refused' = refused \cup {t}
  BY DEF DismissMismatch
<1>2. /\ row.u \in Universe /\ row.dismissed \in SUBSET Tokens
      /\ refused \in SUBSET Tokens /\ refused \subseteq row.dismissed
  BY <1>1, EditableFields
<1>3. d \in SUBSET Tokens /\ refused' \subseteq d /\ refused' \in SUBSET Tokens
  BY <1>1, <1>2
<1>4. said \in Text
  BY DEF CardInv, CardTypeOK, Text
<1> HIDE DEF d
<1>5. m \in Mentions /\ refused' \cap (m.symbol \cup m.ask) = {}
  BY <1>3, <1>4, DescribedAreNamed
<1>6. u \in Universe /\ Agrees(u, refused')
  BY <1>2, <1>5, MentionsAgree
<1> HIDE DEF u
<1>7. QED BY <1>1, <1>3, <1>6, PressKeeps

\* The market of a description that named none: its list is still empty.
LEMMA ChooseMarketKeeps ==
    ASSUME CardInv, NEW m \in Markets, ChooseMarket(m)
    PROVE  CardInv'
<1> DEFINE u == [row.u EXCEPT !.market = m, !.unspecified = FALSE]
<1>1. Editable /\ row.u.unspecified /\ Press(u, row.dismissed, FALSE) /\ UNCHANGED refused
  BY DEF ChooseMarket
<1>2. /\ row.u \in Universe /\ Agrees(row.u, refused) /\ row.u # Absent
      /\ row.dismissed \in SUBSET Tokens
      /\ refused \in SUBSET Tokens /\ refused \subseteq row.dismissed
  BY <1>1, EditableFields
<1>3. /\ u \in Universe /\ u.symbols = row.u.symbols /\ u.asks = row.u.asks
      /\ u.unresolved = row.u.unresolved /\ u.override = row.u.override
  BY <1>2 DEF Universe
<1>4. Agrees(u, refused')
  BY <1>1, <1>2, <1>3 DEF Agrees
<1> HIDE DEF u
<1>5. QED BY <1>1, <1>2, <1>3, <1>4, PressKeeps

\* A message names symbols, so none of them is refused any more.
LEMMA RestateKeeps ==
    ASSUME CardInv, NEW s \in Descriptions, Restate(s)
    PROVE  CardInv'
<1> DEFINE u == UniverseFor(s)
           talk == [names |-> said.names \cup s.names, markets |-> said.markets \cup s.markets]
<1>1. /\ row.status = "draft" /\ edits < MaxEdits /\ edits' = edits + 1 /\ said' = talk
      /\ row' = [row EXCEPT !.u = u, !.stamp = @ + 1, !.edits = edits + 1, !.cleared = FALSE]
      /\ refused' = refused \ s.names
      /\ UNCHANGED <<floor, split, card, confirm, confirms>>
  BY DEF Restate
<1>2. row \in Row /\ edits \in 0 .. MaxEdits /\ MaxEdits \in Nat
      /\ refused \subseteq Tokens /\ refused \subseteq row.dismissed
  BY CardAssumption DEF CardInv, CardTypeOK
<1>3. s \in Text /\ said \in Text
  BY CardAssumption DEF CardInv, CardTypeOK, Text
<1>4. u \in Universe /\ Agrees(u, refused')
  BY <1>1, <1>3, FirstAgrees
<1> HIDE DEF u
<1>5. row.stamp + 1 \in Nat /\ edits + 1 \in Nat /\ edits' \in 0 .. MaxEdits
  BY <1>1, <1>2, RowFields
<1>6. row' \in Row
  BY <1>1, <1>2, <1>4, <1>5 DEF Row
<1>7. talk \in Text
  BY <1>3 DEF Text
<1>8. CardTypeOK'
  BY <1>1, <1>2, <1>5, <1>6, <1>7 DEF CardInv, CardTypeOK, Text
<1>9. /\ row'.u = u /\ row'.dismissed = row.dismissed /\ row'.stamp = row.stamp + 1
      /\ row'.edits = edits' /\ row'.status = row.status /\ row'.by = row.by
  BY <1>1, <1>2 DEF Row
<1>10. row.by = Absent
  BY <1>1 DEF CardInv
<1>11. QED BY <1>1, <1>2, <1>4, <1>8, <1>9, <1>10, DraftIsWritten

\* No button of the card breaks the invariant.
LEMMA ButtonKeeps ==
    ASSUME CardInv, Button
    PROVE  CardInv'
BY ClearBoxKeeps, FillBoxKeeps, AnswerAskKeeps, RevertAskKeeps, UseHintKeeps, RemoveSideKeeps,
   DismissMismatchKeeps, ChooseMarketKeeps, RestateKeeps DEF Button

-----------------------------------------------------------------------------
(* The view and the confirmation                                           *)

\* A view reads the draft as it is.
LEMMA OpenCardKeeps ==
    ASSUME CardInv, OpenCard
    PROVE  CardInv'
<1>1. /\ row.status = "draft" /\ card' = row
      /\ UNCHANGED <<said, floor, split, row, confirm, refused, edits, confirms>>
  BY DEF OpenCard
<1>2. row \in Row /\ row.stamp \in Nat
  BY RowFields DEF CardInv, CardTypeOK
<1>3. Earlier(row)
  BY <1>1, <1>2 DEF CardInv, Earlier
<1>4. CardTypeOK'
  BY <1>1, <1>2 DEF CardInv, CardTypeOK
<1>5. Earlier(row)' /\ (Earlier(confirm.copy) => Earlier(confirm.copy)')
  BY <1>1, <1>3 DEF Earlier
<1>6. RunWasChecked'
  BY <1>1 DEF CardInv, RunWasChecked, Gate, Enough, TooFew, AllForeign
<1>7. (card # Absent => Earlier(card))'
  BY <1>1, <1>5
<1>8. QED BY <1>1, <1>4, <1>5, <1>6, <1>7 DEF CardInv

\* A list that is filled in is stored under its stamp over the row it was
\* read from, and a run has a later one.
LEMMA ShowCardKeeps ==
    ASSUME CardInv, ShowCard
    PROVE  CardInv'
<1> DEFINE u == Materialized(card.u, said, card.dismissed)
<1>1. /\ card # Absent /\ card' = Absent
      /\ row' = IF u # card.u /\ Fits(card) THEN [card EXCEPT !.u = u] ELSE row
      /\ UNCHANGED <<said, floor, split, confirm, refused, edits, confirms>>
  BY DEF ShowCard
<1>2. card \in Row /\ Earlier(card) /\ row \in Row
  BY <1>1 DEF CardInv, CardTypeOK
<1>3. CASE row' = row
  <2>1. CardTypeOK' /\ RunWasChecked'
    BY <1>1, <1>3 DEF CardInv, CardTypeOK, RunWasChecked, Gate, Enough, TooFew, AllForeign
  <2>2. Earlier(confirm.copy) => Earlier(confirm.copy)'
    BY <1>1, <1>3 DEF Earlier
  <2>3. QED BY <1>1, <1>3, <2>1, <2>2 DEF CardInv
<1>4. CASE row' = [card EXCEPT !.u = u] /\ Fits(card)
  <2>1. /\ card.status = "draft" /\ card.by = Absent /\ card.stamp = row.stamp
        /\ card.edits = row.edits /\ refused \subseteq card.dismissed
        /\ Agrees(card.u, refused)
    BY <1>2, <1>4 DEF Earlier, Fits
  <2>2. said \in Text /\ card.dismissed \in SUBSET Tokens /\ card.u \in Universe \cup {Absent}
    BY <1>2, RowFields DEF CardInv, CardTypeOK, Text
  <2>3. u \in Universe \cup {Absent} /\ Agrees(u, refused)
    <3>1. CASE card.u = Absent
      BY <3>1 DEF Materialized, Agrees
    <3>2. CASE card.u # Absent
      BY <2>1, <2>2, <3>2, FilledIsUniverse, FilledAgrees
    <3>3. QED BY <3>1, <3>2
  <2> HIDE DEF u
  <2>4. /\ row' \in Row /\ row'.u = u /\ row'.status = "draft" /\ row'.by = Absent
        /\ row'.stamp = row.stamp /\ row'.edits = row.edits /\ row'.dismissed = card.dismissed
    BY <1>2, <1>4, <2>1, <2>3 DEF Row
  <2>5. CardTypeOK'
    BY <1>1, <2>4 DEF CardInv, CardTypeOK
  <2>6. Earlier(confirm.copy) => Earlier(confirm.copy)'
    BY <1>1, <2>4 DEF Earlier
  <2>7. RunWasChecked'
    BY <2>4, AbsentAssumption DEF RunWasChecked
  <2>8. QED BY <1>1, <2>1, <2>3, <2>4, <2>5, <2>6, <2>7 DEF CardInv
<1>5. QED BY <1>1, <1>3, <1>4

\* A confirmation reads the draft as it is.
LEMMA ConfirmRunKeeps ==
    ASSUME CardInv, NEW mode \in Modes, ConfirmRun(mode)
    PROVE  CardInv'
<1>1. /\ row.status = "draft" /\ confirms < MaxConfirms /\ confirms' = confirms + 1
      /\ confirm' = [at |-> "probing", mode |-> mode, copy |-> row]
      /\ UNCHANGED <<said, floor, split, row, card, refused, edits>>
  BY DEF ConfirmRun
<1>2. row \in Row /\ row.stamp \in Nat
  BY RowFields DEF CardInv, CardTypeOK
<1>3. Earlier(row)' /\ (Earlier(card) => Earlier(card)')
  BY <1>1, <1>2 DEF CardInv, Earlier
<1>4. confirms' \in 0 .. MaxConfirms
  BY <1>1, CardAssumption DEF CardInv, CardTypeOK
<1>5. CardTypeOK'
  BY <1>1, <1>2, <1>4, CardAssumption DEF CardInv, CardTypeOK
<1>6. RunWasChecked'
  BY <1>1 DEF CardInv, RunWasChecked, Gate, Enough, TooFew, AllForeign
<1>7. confirm'.copy = row /\ confirm'.at = "probing"
  BY <1>1
<1>8. QED BY <1>1, <1>2, <1>3, <1>5, <1>6, <1>7 DEF CardInv

\* The confirmation that is over.
LEMMA IdleFields == Idle \in [at : {"idle", "probing", "starting"},
                              mode : {"journaled", "legacy"}, copy : Row \cup {Absent}]
                    /\ Idle.at = "idle"
BY DEF Idle

\* A confirmation that ends without a write.
LEMMA OverKeeps ==
    ASSUME CardInv, Over(row)
    PROVE  CardInv'
<1>1. row' = row /\ confirm' = Idle /\ UNCHANGED <<said, floor, split, card, refused, edits, confirms>>
  BY DEF Over
<1>2. CardTypeOK'
  BY <1>1, IdleFields DEF CardInv, CardTypeOK
<1>3. Earlier(card) => Earlier(card)'
  BY <1>1 DEF Earlier
<1>4. RunWasChecked'
  BY <1>1 DEF CardInv, RunWasChecked, Gate, Enough, TooFew, AllForeign
<1>5. QED BY <1>1, <1>2, <1>3, <1>4, IdleFields DEF CardInv

\* What a confirmation has read, and that nothing was pressed since if it may
\* write.
LEMMA CopyFields ==
    ASSUME CardInv, confirm.at = "probing"
    PROVE  /\ confirm.copy \in Row /\ Earlier(confirm.copy)
           /\ confirm.copy.u \in Universe \cup {Absent}
           /\ confirm.copy.dismissed \in SUBSET Tokens
           /\ row.status = "draft" /\ row \in Row
           /\ Writes => /\ confirm.copy.stamp = row.stamp /\ confirm.copy.edits = edits
                        /\ refused \subseteq confirm.copy.dismissed
                        /\ Agrees(confirm.copy.u, refused)
<1>1. confirm.copy \in Row /\ Earlier(confirm.copy) /\ row \in Row /\ row.edits = edits
  BY DEF CardInv, CardTypeOK
<1>2. row.status = "draft"
  BY <1>1, RowFields, IdleFields DEF CardInv
<1>3. Writes => confirm.copy.stamp = row.stamp
  BY DEF Writes, Fits
<1>4. QED BY <1>1, <1>2, <1>3, RowFields DEF Earlier

\* A confirmation that writes the draft it read, with another list or a notice.
LEMMA CopyKeeps ==
    ASSUME CardInv, confirm.at = "probing", Writes, NEW u \in Universe \cup {Absent},
           Agrees(u, refused), row' = [confirm.copy EXCEPT !.u = u, !.stamp = @ + 1],
           UNCHANGED <<said, floor, split, card, refused, edits, confirms>>,
           confirm' \in [at : {"idle", "starting"}, mode : {"journaled", "legacy"},
                         copy : {Absent}]
    PROVE  CardInv'
<1>1. /\ confirm.copy \in Row /\ confirm.copy.status = "draft" /\ confirm.copy.by = Absent
      /\ row.status = "draft" /\ row \in Row
      /\ confirm.copy.stamp = row.stamp /\ confirm.copy.edits = edits
      /\ refused \subseteq confirm.copy.dismissed
  BY CopyFields DEF Earlier
<1>2. row.stamp + 1 \in Nat
  BY <1>1, RowFields
<1>3. /\ row' \in Row /\ row'.u = u /\ row'.status = "draft" /\ row'.by = Absent
      /\ row'.stamp = row.stamp + 1 /\ row'.edits = edits
      /\ row'.dismissed = confirm.copy.dismissed
  BY <1>1, <1>2 DEF Row
<1>4. CardTypeOK'
  BY <1>3 DEF CardInv, CardTypeOK
<1>5. confirm'.at # "probing"
  OBVIOUS
<1>6. QED BY <1>1, <1>3, <1>4, <1>5, DraftIsWritten

\* An outage adds a notice to the draft that was read.
LEMMA OutageKeeps ==
    ASSUME CardInv, Outage
    PROVE  CardInv'
<1>1. confirm.at = "probing" /\ Over(IF Writes THEN [confirm.copy EXCEPT !.stamp = @ + 1] ELSE row)
  BY DEF Outage
<1>2. CASE ~Writes
  BY <1>1, <1>2, OverKeeps
<1>3. CASE Writes
  <2>1. confirm.copy \in Row /\ confirm.copy.u \in Universe \cup {Absent}
        /\ Agrees(confirm.copy.u, refused)
    BY <1>1, <1>3, CopyFields
  <2>2. row' = [confirm.copy EXCEPT !.u = confirm.copy.u, !.stamp = @ + 1]
    BY <1>1, <1>3, <2>1 DEF Over, Row
  <2>3. QED BY <1>1, <1>3, <2>1, <2>2, CopyKeeps DEF Over, Idle
<1>4. QED BY <1>2, <1>3

\* A pool that failed leaves no list at all.
LEMMA ReopenKeeps ==
    ASSUME CardInv, Reopen
    PROVE  CardInv'
<1>1. /\ confirm.at = "probing"
      /\ Over(IF Writes THEN [confirm.copy EXCEPT !.u = Absent, !.stamp = @ + 1] ELSE row)
  BY DEF Reopen
<1>2. CASE ~Writes
  BY <1>1, <1>2, OverKeeps
<1>3. CASE Writes
  <2>1. Agrees(Absent, refused)
    BY DEF Agrees
  <2>2. row' = [confirm.copy EXCEPT !.u = Absent, !.stamp = @ + 1]
    BY <1>1, <1>3 DEF Over
  <2>3. QED BY <1>1, <1>3, <2>1, <2>2, CopyKeeps DEF Over, Idle
<1>4. QED BY <1>2, <1>3

-----------------------------------------------------------------------------
(* The list that runs                                                      *)

\* The symbols of a universe are finitely many.
LEMMA ListsAreFinite ==
    ASSUME NEW S \in SUBSET Listed
    PROVE  IsFiniteSet(S) /\ Cardinality(S) \in Nat
<1>1. Listed = Tokens \cup (Pool["CN"] \cup Pool["US"])
  BY DEF Listed, Markets
<1>2. IsFiniteSet(Listed)
  BY <1>1, CardAssumption, FS_Union DEF Markets
<1>3. QED BY <1>2, FS_Subset, FS_CardinalityType

\* The list that the provider is asked about: filled in from what was read.
LEMMA ProbedFields ==
    ASSUME CardInv, confirm.at = "probing", Probed # Absent
    PROVE  /\ Probed \in Universe
           /\ Writes => Agrees(Probed, refused)
           /\ Gate(Probed) => Probed.symbols # {}
<1>1. /\ confirm.copy.u \in Universe \cup {Absent} /\ confirm.copy.dismissed \in SUBSET Tokens
      /\ Writes => refused \subseteq confirm.copy.dismissed /\ Agrees(confirm.copy.u, refused)
  BY CopyFields
<1>2. said \in Text
  BY DEF CardInv, CardTypeOK, Text
<1>3. confirm.copy.u # Absent
  BY DEF Probed, Materialized
<1>4. Probed = Materialized(confirm.copy.u, said, confirm.copy.dismissed)
  BY DEF Probed
<1>5. QED BY <1>1, <1>2, <1>3, <1>4, FilledIsUniverse, FilledAgrees, FilledHasSymbols

\* The symbols that have bars, of a list that passes the gate, are of the market
\* of the brief as the list is.
LEMMA ShrunkPasses ==
    ASSUME NEW u \in Universe, Gate(u), NEW kept \in (SUBSET u.symbols) \ {{}}, Enough(kept),
           floor \in Nat
    PROVE  /\ Shrunk(u, kept) \in Universe /\ Gate(Shrunk(u, kept))
           /\ Shrunk(u, kept).symbols = kept
           /\ \A no : Agrees(u, no) => Agrees(Shrunk(u, kept), no)
<1>1. CASE kept = u.symbols
  BY <1>1 DEF Shrunk
<1>2. CASE kept # u.symbols
  <2> DEFINE w == Shrunk(u, kept)
  <2>1. u.market \in Markets /\ u.override \in BOOLEAN /\ kept \in SUBSET Listed
    BY UniverseFields
  <2>2. w = [Blank(u.market, FALSE) EXCEPT !.symbols = kept, !.override = u.override]
    BY <1>2 DEF Shrunk
  <2>3. w \in Universe
    BY <2>1, <2>2, BlankIsUniverse DEF Universe
  <2>4. /\ w.market = u.market /\ w.unspecified = FALSE /\ w.symbols = kept
        /\ w.override = u.override /\ w.unresolved = {} /\ w.asks = {} /\ w.mismatches = {}
    BY <2>2 DEF Blank
  <2> HIDE DEF w
  <2>5. u # Absent
    BY AbsentAssumption
  <2>6. Side(u.symbols, Other(u.market)) = {}
    BY <2>1, <2>5 DEF Gate, AllForeign, Mixed, Other, Markets
  <2>7. Side(kept, Other(u.market)) = {}
    BY <2>6 DEF Side
  <2>8. ~Mixed(kept) /\ ~AllForeign(w)
    BY <2>1, <2>4, <2>7 DEF Mixed, AllForeign, Other, Markets
  <2>9. ~TooFew(w)
    BY <2>1, <2>4, ListsAreFinite DEF TooFew, Enough
  <2>10. Gate(w)
    BY <2>4, <2>8, <2>9 DEF Gate
  <2>11. ASSUME NEW no, Agrees(u, no)
         PROVE  Agrees(w, no)
    BY <2>4, <2>5, <2>11 DEF Agrees
  <2>12. QED BY <2>3, <2>4, <2>10, <2>11 DEF w
<1>3. QED BY <1>1, <1>2

\* A list that passed the checks and the probe.
Checked(u) ==
    /\ u # Absent /\ Gate(u) /\ u.symbols # {}
    /\ split \/ u.override => Enough(u.symbols)

\* Whatever comes out of the probe was checked as it is.
LEMMA RunnableIsChecked ==
    ASSUME CardInv, confirm.at = "probing", NEW u \in Runnable
    PROVE  u \in Universe /\ Checked(u) /\ (Writes => Agrees(u, refused))
<1>1. Probed # Absent /\ Gate(Probed)
  BY DEF Runnable
<1>2. /\ Probed \in Universe /\ Probed.symbols # {} /\ Probed.symbols \in SUBSET Listed
      /\ Writes => Agrees(Probed, refused)
  BY <1>1, ProbedFields, UniverseFields
<1>3. floor \in Nat
  BY CardAssumption DEF CardInv, CardTypeOK
<1>4. CASE ~split
  <2>1. u = Probed
    BY <1>1, <1>4 DEF Runnable
  <2>2. u.override => Enough(u.symbols)
    BY <1>1, <1>2, <1>3, <2>1, ListsAreFinite DEF Gate, TooFew, Enough
  <2>3. QED BY <1>1, <1>2, <1>4, <2>1, <2>2 DEF Checked
<1>5. CASE split
  <2>1. PICK kept \in WithData : Enough(kept) /\ u = Shrunk(Probed, kept)
    BY <1>1, <1>5 DEF Runnable
  <2>2. kept \in (SUBSET Probed.symbols) \ {{}}
    BY DEF WithData
  <2>3. /\ u \in Universe /\ Gate(u) /\ u.symbols = kept
        /\ Agrees(Probed, refused) => Agrees(u, refused)
    BY <1>1, <1>2, <1>3, <2>1, <2>2, ShrunkPasses
  <2>4. QED BY <1>2, <2>1, <2>2, <2>3, AbsentAssumption DEF Checked
<1>6. QED BY <1>4, <1>5

\* A version that is opened keeps the draft and its list.
LEMMA RunIsWritten ==
    ASSUME CardInv, NEW r \in Row, r.stamp = row.stamp, r.edits = edits,
           refused \subseteq r.dismissed, NEW u \in Universe, Agrees(u, refused),
           NEW mode \in {"journaled", "legacy"}, mode = "journaled" => Checked(u),
           Over(Start(r, u, mode))
    PROVE  CardInv'
<1>1. /\ row' = Start(r, u, mode) /\ confirm' = Idle
      /\ UNCHANGED <<said, floor, split, card, refused, edits, confirms>>
  BY DEF Over
<1>2. r.stamp + 1 \in Nat /\ row.stamp \in Nat
  BY RowFields DEF CardInv, CardTypeOK
<1>3. /\ row' \in Row /\ row'.u = u /\ row'.status = "running" /\ row'.by = mode
      /\ row'.stamp = row.stamp + 1 /\ row'.edits = edits /\ row'.dismissed = r.dismissed
  BY <1>1, <1>2 DEF Row, Start
<1>4. CardTypeOK'
  BY <1>1, <1>3, IdleFields DEF CardInv, CardTypeOK
<1>5. card # Absent => card.stamp \in Nat /\ Earlier(card)
  BY RowFields DEF CardInv, CardTypeOK
<1>6. card # Absent => card.stamp < row'.stamp
  BY <1>2, <1>3, <1>5 DEF Earlier
<1>7. (card # Absent => Earlier(card))'
  BY <1>1, <1>2, <1>3, <1>5, <1>6 DEF Earlier
<1>8. RunWasChecked'
  BY <1>1, <1>3 DEF RunWasChecked, Checked, Gate, Enough, TooFew, AllForeign
<1>9. QED BY <1>1, <1>3, <1>4, <1>6, <1>7, <1>8, IdleFields DEF CardInv

\* A journaled confirmation opens a version with what came out of its probe.
LEMMA CommitKeeps ==
    ASSUME CardInv, Commit
    PROVE  CardInv'
<1>1. PICK u \in Runnable :
        Over(IF Writes THEN Start(confirm.copy, u, "journaled") ELSE row)
  BY DEF Commit
<1>2. confirm.at = "probing"
  BY DEF Commit
<1>3. CASE ~Writes
  BY <1>1, <1>3, OverKeeps
<1>4. CASE Writes
  BY <1>1, <1>2, <1>4, CopyFields, RunnableIsChecked, RunIsWritten
<1>5. QED BY <1>3, <1>4

\* An older client stores the checked draft.
LEMMA SaveCheckedKeeps ==
    ASSUME CardInv, SaveChecked
    PROVE  CardInv'
<1>1. PICK u \in Runnable :
         IF Writes
         THEN /\ row' = [confirm.copy EXCEPT !.u = u, !.stamp = @ + 1]
              /\ confirm' = [confirm EXCEPT !.at = "starting", !.copy = Absent]
              /\ UNCHANGED <<said, floor, split, card, refused, edits, confirms>>
         ELSE Over(row)
  BY DEF SaveChecked
<1>2. confirm.at = "probing"
  BY DEF SaveChecked
<1>3. CASE ~Writes
  BY <1>1, <1>3, OverKeeps
<1>4. CASE Writes
  <2>1. confirm' \in [at : {"idle", "starting"}, mode : {"journaled", "legacy"},
                      copy : {Absent}]
    BY <1>1, <1>4 DEF CardInv, CardTypeOK
  <2>2. u \in Universe /\ Agrees(u, refused)
    BY <1>2, <1>4, RunnableIsChecked
  <2>3. QED BY <1>1, <1>2, <1>4, <2>1, <2>2, CopyKeeps
<1>5. QED BY <1>3, <1>4

\* ... and opens the version from the stored row.
LEMMA StartLegacyKeeps ==
    ASSUME CardInv, StartLegacy
    PROVE  CardInv'
<1>1. confirm.at = "starting" /\ Over(IF row.u = Absent THEN row ELSE Start(row, row.u, "legacy"))
  BY DEF StartLegacy
<1>2. CASE row.u = Absent
  BY <1>1, <1>2, OverKeeps
<1>3. CASE row.u # Absent
  <2>1. row \in Row /\ row.u \in Universe
    BY <1>3, RowFields DEF CardInv, CardTypeOK
  <2>2. row.edits = edits /\ refused \subseteq row.dismissed /\ Agrees(row.u, refused)
    BY DEF CardInv
  <2>3. QED BY <1>1, <1>3, <2>1, <2>2, RunIsWritten
<1>4. QED BY <1>2, <1>3

-----------------------------------------------------------------------------
(* The theorem                                                             *)

\* A draft starts with what its description says.
LEMMA CardStarts ==
    ASSUME CardInit
    PROVE  CardInv
<1>1. said \in Text /\ said \in Descriptions
  BY CardAssumption DEF CardInit, Text
<1>2. UniverseFor(said) \in Universe /\ Agrees(UniverseFor(said), {})
  BY <1>1, FirstAgrees
<1>3. row \in Row
  BY <1>2 DEF CardInit, Row
<1>4. /\ row.u = UniverseFor(said) /\ row.by = Absent /\ row.status = "draft"
      /\ row.edits = 0 /\ row.dismissed = {}
  BY DEF CardInit
<1>5. CardTypeOK
  BY <1>1, <1>3, IdleFields, CardAssumption DEF CardInit, CardTypeOK, Text
<1>6. RunWasChecked
  BY <1>4, AbsentAssumption DEF RunWasChecked
<1>7. QED BY <1>2, <1>4, <1>5, <1>6, IdleFields DEF CardInit, CardInv

\* Every step keeps what the stored row and the earlier reads of it say.
LEMMA CardStepKeeps ==
    ASSUME CardInv, [CardNext]_cardVars
    PROVE  CardInv'
<1>1. CASE UNCHANGED cardVars
  <2>1. /\ UNCHANGED <<said, floor, split, row, card, confirm, refused, edits, confirms>>
    BY <1>1 DEF cardVars
  <2>2. CardTypeOK'
    BY <2>1 DEF CardInv, CardTypeOK
  <2>3. RunWasChecked'
    BY <2>1 DEF CardInv, RunWasChecked, Gate, Enough, TooFew, AllForeign
  <2>4. /\ Earlier(card) => Earlier(card)'
        /\ Earlier(confirm.copy) => Earlier(confirm.copy)'
    BY <2>1 DEF Earlier
  <2>5. QED BY <2>1, <2>2, <2>3, <2>4 DEF CardInv
<1>2. CASE Refuse
  BY <1>2, OverKeeps DEF Refuse
<1>3. QED
  BY <1>1, <1>2, ButtonKeeps, OpenCardKeeps, ShowCardKeeps, ConfirmRunKeeps, OutageKeeps,
     ReopenKeeps, CommitKeeps, SaveCheckedKeeps, StartLegacyKeeps DEF CardNext, Confirming

\* In every draft, whatever the descriptions, boxes and pools: the list is
\* named by the user or is the pool of its market, a symbol that was refused is
\* neither listed nor asked about, and the stored row has every button, however
\* views, notices and confirmations read and write around them.
THEOREM ListIsTheUsersAlways == CardSpec => []ListIsTheUsers
<1>1. CardInv => ListIsTheUsers
  BY DEF CardInv, ListIsTheUsers, PoolIsNotNamed, RefusedStaysOut, NoButtonIsLost, Agrees
<1>2. CardSpec => []CardInv
  BY CardStarts, CardStepKeeps, PTL DEF CardSpec
<1>3. QED BY <1>1, <1>2, PTL

\* A version that a journaled confirmation opened has a list that passed every
\* check of the gate as it is, however it was filled in and whatever bars the
\* provider had.
THEOREM RunWasCheckedAlways == CardSpec => []RunWasChecked
<1>1. CardInv => RunWasChecked
  BY DEF CardInv
<1>2. CardSpec => []CardInv
  BY CardStarts, CardStepKeeps, PTL DEF CardSpec
<1>3. QED BY <1>1, <1>2, PTL
=============================================================================
