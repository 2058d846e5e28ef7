-------------------------- MODULE PublicationProofs --------------------------
(***************************************************************************)
(* For every number of clients, exports, rounds, builds and crashes: the   *)
(* list of exports of a research, its files and its authorizations agree,  *)
(* what was authorized can be published, no pack holds prices of an        *)
(* unlicensed source, and no step lists a pack that is not eligible, leaves *)
(* one of a failed round unmarked or takes a mark back.                    *)
(*                                                                         *)
(* A handler saves a row it read steps before, so each claim about the row *)
(* is made of every row a handler holds too (GoodRow, Listed).  The files  *)
(* are right because a command once authorized is never built again        *)
(* (FilesInv) and a thread renames only what some thread authorized        *)
(* (HandlersInv).  What a step does to the list follows from what a handler *)
(* still knows of the row as long as its updated_at stands (StepInv), and  *)
(* from the revision its command expects (OwnInv).                         *)
(***************************************************************************)
EXTENDS Publication, TLAPS

-----------------------------------------------------------------------------
(* One row *)

\* A search that ended with a conclusion, or waits to.
Concluded(r) == r.st = "completed" \/ (r.st = "awaiting" /\ r.card = "completed")

\* The round of the research is one of its own version and has its source, and
\* a conclusion that no re-verification overturned is flagged.
GoodRow(r) ==
    /\ r \in Row
    /\ r.st = "awaiting" => r.card \in Status \ {"awaiting"}
    /\ r.round \in 0..Len(r.rounds)
    /\ r.round # 0 => r.rounds[r.round].source = r.source
    /\ Concluded(r) /\ AllCurrentReverifiesPassed(r) => r.eligible

\* Every export that new lists stands in old, marked or not.
KeepsExports(old, new) ==
    \A e \in new.exports : \E f \in old.exports : f.id = e.id /\ f.round = e.round

\* The fields of a row.
LEMMA RowFields ==
  ASSUME NEW r \in Row
  PROVE  /\ r.st \in Status /\ r.card \in Status \cup {"none"} /\ r.source \in Source
         /\ r.round \in 0..MaxRounds /\ r.rounds \in Seq(Round) /\ r.eligible \in BOOLEAN
         /\ r.reverified \in SUBSET Reverification /\ r.audit \in SUBSET Reverification
         /\ r.exports \in SUBSET Export
  BY DEF Row

\* A new research has nothing.
LEMMA NewIsGood ==
  ASSUME NEW source \in Source
  PROVE  GoodRow(NewRow(source)) /\ NewRow(source).exports = {}
<1>1. /\ NewRow(source).st = "running" /\ NewRow(source).card = "none"
      /\ NewRow(source).round = 0 /\ NewRow(source).rounds = <<>>
      /\ NewRow(source).exports = {}
  BY DEF NewRow
<1>2. 0 \in 0..MaxRounds
  BY PublicationAssumption
<1>3. NewRow(source) \in Row
  BY <1>2 DEF NewRow, Row, Status
<1>4. QED BY <1>1, <1>3 DEF GoodRow, Concluded

\* A round that is committed.
LEMMA CommittedIsGood ==
  ASSUME NEW r, GoodRow(r), NEW checks \in SUBSET Check,
         NEW st \in {"running", "completed", "ended"}, Len(r.rounds) < MaxRounds
  PROVE  LET new == [r EXCEPT
               !.rounds = Append(@, [checks |-> checks, source |-> r.source]),
               !.round = Len(r.rounds) + 1,
               !.st = st,
               !.eligible = @ \/ st = "completed"]
         IN  GoodRow(new) /\ KeepsExports(r, new)
<1> DEFINE round == [checks |-> checks, source |-> r.source]
           rounds == Append(r.rounds, round)
           n == Len(r.rounds) + 1
           eligible == r.eligible \/ st = "completed"
           new == [r EXCEPT !.rounds = rounds, !.round = n, !.st = st, !.eligible = eligible]
<1>1. r \in Row /\ r.rounds \in Seq(Round) /\ r.source \in Source
  BY RowFields DEF GoodRow
<1>2. round \in Round
  BY <1>1 DEF Round
<1>3. /\ rounds \in Seq(Round) /\ Len(rounds) = n /\ rounds[n] = round
      /\ n \in 0..MaxRounds /\ n \in 1..n
  BY <1>1, <1>2, PublicationAssumption
<1>4. st \in Status /\ eligible \in BOOLEAN
  BY <1>1 DEF Status
<1>5. new \in Row
  BY <1>1, <1>3, <1>4 DEF Row
<1>6. /\ new.rounds = rounds /\ new.round = n /\ new.st = st /\ new.eligible = eligible
      /\ new.source = r.source /\ new.exports = r.exports
  BY <1>1 DEF Row
<1>7. Concluded(new) => new.eligible
  BY <1>6 DEF Concluded
<1>8. GoodRow(new)
  BY <1>3, <1>5, <1>6, <1>7 DEF GoodRow
<1>9. QED BY <1>6, <1>8 DEF KeepsExports

\* A move of the status alone.  Nothing but the commit of a round concludes.
LEMMA StatusIsGood ==
  ASSUME NEW r, GoodRow(r), NEW new \in Row,
         new.st = "awaiting" => new.card \in Status \ {"awaiting"},
         Concluded(new) => (Concluded(r) /\ new.eligible = r.eligible) \/ new.eligible,
         new.round = r.round, new.rounds = r.rounds, new.source = r.source,
         new.reverified = r.reverified, new.exports = r.exports
  PROVE  GoodRow(new) /\ KeepsExports(r, new)
<1>1. AllCurrentReverifiesPassed(new) = AllCurrentReverifiesPassed(r)
  BY DEF AllCurrentReverifiesPassed
<1>2. GoodRow(new)
  BY <1>1 DEF GoodRow
<1>3. QED BY <1>2 DEF KeepsExports

\* A search that stops.
LEMMA StoppedIsGood ==
  ASSUME NEW r, GoodRow(r), NEW st \in {"ended", "completed"}
  PROVE  LET new == [r EXCEPT !.st = st, !.eligible = @ \/ st = "completed"]
         IN  GoodRow(new) /\ KeepsExports(r, new)
<1> DEFINE eligible == r.eligible \/ st = "completed"
           new == [r EXCEPT !.st = st, !.eligible = eligible]
<1>1. r \in Row
  BY DEF GoodRow
<1>2. st \in Status /\ eligible \in BOOLEAN
  BY <1>1, RowFields DEF Status
<1>3. new \in Row
  BY <1>1, <1>2 DEF Row
<1>4. /\ new.st = st /\ new.eligible = eligible /\ new.round = r.round
      /\ new.rounds = r.rounds /\ new.source = r.source
      /\ new.reverified = r.reverified /\ new.exports = r.exports
  BY <1>1 DEF Row
<1>5. Concluded(new) => new.eligible
  BY <1>4 DEF Concluded
<1>6. QED BY <1>3, <1>4, <1>5, StatusIsGood

\* A new version.
LEMMA OpenedIsGood ==
  ASSUME NEW r, GoodRow(r), NEW source \in Source
  PROVE  GoodRow(Opened(r, source)) /\ KeepsExports(r, Opened(r, source))
<1> DEFINE new == Opened(r, source)
<1>1. r \in Row
  BY DEF GoodRow
<1>2. 0 \in 0..MaxRounds
  BY PublicationAssumption
<1>3. new \in Row
  BY <1>1, <1>2 DEF Opened, Row, Status
<1>4. new.st = "running" /\ new.round = 0 /\ new.rounds = r.rounds /\ new.exports = r.exports
  BY <1>1 DEF Opened, Row
<1>5. Len(new.rounds) \in Nat
  BY <1>1, <1>4, RowFields
<1>6. GoodRow(new)
  BY <1>3, <1>4, <1>5 DEF GoodRow, Concluded
<1>7. QED BY <1>4, <1>6 DEF KeepsExports

\* What the user does to the research.
LEMMA MovedIsGood ==
  ASSUME NEW r, GoodRow(r), NEW new \in Moved(r) \cup RequestConfirm(r)
  PROVE  GoodRow(new) /\ KeepsExports(r, new)
<1> DEFINE paused == [r EXCEPT !.st = "paused"]
           resumed == [r EXCEPT !.st = "running"]
           continued == [r EXCEPT !.st = "running", !.eligible = FALSE]
           decided == [r EXCEPT !.st = r.card, !.card = "none"]
           stopped == [r EXCEPT !.st = "paused", !.card = "none"]
           asked == [r EXCEPT !.st = "awaiting", !.card = r.st]
<1>1. /\ r \in Row /\ r.source \in Source
      /\ r.st \in Status /\ (r.st = "awaiting" => r.card \in Status \ {"awaiting"})
  BY RowFields DEF GoodRow
<1>2. \/ r.st # "awaiting" /\ new \in {paused, resumed, continued, asked}
      \/ r.st = "awaiting" /\ new \in {decided, stopped}
      \/ \E source \in Source : new = Opened(r, source)
  BY <1>1 DEF Moved, RequestConfirm, Status
<1>3. CASE \E source \in Source : new = Opened(r, source)
  BY <1>3, OpenedIsGood
<1>4. CASE new = paused
  <2>1. new \in Row /\ new.st = "paused"
        /\ new.round = r.round /\ new.rounds = r.rounds /\ new.source = r.source
        /\ new.reverified = r.reverified /\ new.exports = r.exports
    BY <1>1, <1>4 DEF Row, Status
  <2>2. QED BY <2>1, StatusIsGood DEF Concluded
<1>5. CASE new = resumed
  <2>1. new \in Row /\ new.st = "running"
        /\ new.round = r.round /\ new.rounds = r.rounds /\ new.source = r.source
        /\ new.reverified = r.reverified /\ new.exports = r.exports
    BY <1>1, <1>5 DEF Row, Status
  <2>2. QED BY <2>1, StatusIsGood DEF Concluded
<1>6. CASE new = continued
  <2>1. new \in Row /\ new.st = "running"
        /\ new.round = r.round /\ new.rounds = r.rounds /\ new.source = r.source
        /\ new.reverified = r.reverified /\ new.exports = r.exports
    BY <1>1, <1>6 DEF Row, Status
  <2>2. QED BY <2>1, StatusIsGood DEF Concluded
<1>7. CASE r.st # "awaiting" /\ new = asked
  <2>1. new \in Row /\ new.st = "awaiting" /\ new.card = r.st /\ new.eligible = r.eligible
        /\ new.round = r.round /\ new.rounds = r.rounds /\ new.source = r.source
        /\ new.reverified = r.reverified /\ new.exports = r.exports
    BY <1>1, <1>7 DEF Row, Status
  <2>2. Concluded(new) => Concluded(r)
    BY <2>1 DEF Concluded
  <2>3. new.st = "awaiting" => new.card \in Status \ {"awaiting"}
    BY <1>1, <1>7, <2>1
  <2>4. QED BY <2>1, <2>2, <2>3, StatusIsGood
<1>8. CASE r.st = "awaiting" /\ new = decided
  <2>1. new \in Row /\ new.st = r.card /\ new.card = "none" /\ new.eligible = r.eligible
        /\ new.round = r.round /\ new.rounds = r.rounds /\ new.source = r.source
        /\ new.reverified = r.reverified /\ new.exports = r.exports
    BY <1>1, <1>8 DEF Row
  <2>2. Concluded(new) => Concluded(r)
    BY <1>8, <2>1 DEF Concluded
  <2>3. new.st # "awaiting"
    BY <1>1, <1>8, <2>1
  <2>4. QED BY <2>1, <2>2, <2>3, StatusIsGood
<1>9. CASE new = stopped
  <2>1. new \in Row /\ new.st = "paused"
        /\ new.round = r.round /\ new.rounds = r.rounds /\ new.source = r.source
        /\ new.reverified = r.reverified /\ new.exports = r.exports
    BY <1>1, <1>9 DEF Row, Status
  <2>2. QED BY <2>1, StatusIsGood DEF Concluded
<1>10. QED BY <1>2, <1>3, <1>4, <1>5, <1>6, <1>7, <1>8, <1>9

\* A re-verification: a pass changes no flag, a failure marks exports.
LEMMA ReverifiedIsGood ==
  ASSUME NEW r, GoodRow(r), NEW v \in Reverification
  PROVE  GoodRow(Reverified(r, v)) /\ KeepsExports(r, Reverified(r, v))
<1> DEFINE with == [r EXCEPT !.reverified = r.reverified \cup {v}, !.audit = r.audit \cup {v}]
           marked == {[e EXCEPT !.overturned = e.overturned \/ Depends(with, e, v)] :
                        e \in with.exports}
           flag == with.eligible /\ v.round # with.round
           over == [with EXCEPT !.exports = marked, !.eligible = flag]
<1>1. r \in Row
  BY DEF GoodRow
<1>2. with \in Row
  BY <1>1 DEF Row
<1>3. /\ with.st = r.st /\ with.card = r.card /\ with.eligible = r.eligible
      /\ with.round = r.round /\ with.rounds = r.rounds /\ with.source = r.source
      /\ with.exports = r.exports /\ with.reverified = r.reverified \cup {v}
  BY <1>1 DEF Row
<1>4. AllCurrentReverifiesPassed(with) => AllCurrentReverifiesPassed(r)
  BY <1>3 DEF AllCurrentReverifiesPassed
<1>5. Concluded(with) <=> Concluded(r)
  BY <1>3 DEF Concluded
<1>6. CASE v.passed
  <2>1. Reverified(r, v) = with
    BY <1>6 DEF Reverified
  <2>2. GoodRow(with)
    BY <1>2, <1>3, <1>4, <1>5 DEF GoodRow
  <2>3. QED BY <1>3, <2>1, <2>2 DEF KeepsExports
<1>7. CASE ~v.passed
  <2>1. Reverified(r, v) = over
    BY <1>7 DEF Reverified, MarkOverturned
  <2>2. \A e \in with.exports :
           LET m == [e EXCEPT !.overturned = e.overturned \/ Depends(with, e, v)]
           IN  m \in Export /\ m.id = e.id /\ m.round = e.round
    <3>1. SUFFICES ASSUME NEW e \in with.exports, NEW b \in BOOLEAN
                   PROVE  LET m == [e EXCEPT !.overturned = b]
                          IN  m \in Export /\ m.id = e.id /\ m.round = e.round
      <4>1. \A e \in with.exports : (e.overturned \/ Depends(with, e, v)) \in BOOLEAN
        OBVIOUS
      <4>2. QED BY <4>1
    <3>2. e \in Export
      BY <1>2, RowFields
    <3>3. QED BY <3>2 DEF Export
  <2>3. marked \in SUBSET Export /\ flag \in BOOLEAN
    BY <1>2, <2>2
  <2>4. over \in Row
    BY <1>2, <2>3 DEF Row
  <2>5. /\ over.st = with.st /\ over.card = with.card /\ over.eligible = flag
        /\ over.round = with.round /\ over.rounds = with.rounds /\ over.source = with.source
        /\ over.exports = marked /\ over.reverified = with.reverified
    BY <1>2 DEF Row
  <2>6. Concluded(over) <=> Concluded(r)
    BY <1>5, <2>5 DEF Concluded
  <2>7. AllCurrentReverifiesPassed(over) => AllCurrentReverifiesPassed(r) /\ v.round # r.round
    BY <1>3, <1>4, <1>7, <2>5 DEF AllCurrentReverifiesPassed
  <2>8. GoodRow(over)
    BY <1>3, <2>4, <2>5, <2>6, <2>7 DEF GoodRow
  <2>9. KeepsExports(r, over)
    <3>1. SUFFICES ASSUME NEW m \in marked
                   PROVE  \E f \in r.exports : f.id = m.id /\ f.round = m.round
      BY <2>5 DEF KeepsExports
    <3>2. PICK e \in with.exports :
             m = [e EXCEPT !.overturned = e.overturned \/ Depends(with, e, v)]
      OBVIOUS
    <3>3. e \in r.exports /\ m.id = e.id /\ m.round = e.round
      BY <1>3, <2>2, <3>2
    <3>4. QED BY <3>3
  <2>10. QED BY <2>1, <2>8, <2>9
<1>8. v.passed \in BOOLEAN
  BY DEF Reverification
<1>9. QED BY <1>6, <1>7, <1>8

\* Exports that are listed.
LEMMA ExportedIsGood ==
  ASSUME NEW r, GoodRow(r), NEW more \in SUBSET Export
  PROVE  /\ GoodRow([r EXCEPT !.exports = @ \cup more])
         /\ [r EXCEPT !.exports = @ \cup more].exports = r.exports \cup more
<1> DEFINE new == [r EXCEPT !.exports = r.exports \cup more]
<1>1. r \in Row
  BY DEF GoodRow
<1>2. new \in Row
  BY <1>1 DEF Row
<1>3. /\ new.st = r.st /\ new.card = r.card /\ new.eligible = r.eligible
      /\ new.round = r.round /\ new.rounds = r.rounds /\ new.source = r.source
      /\ new.reverified = r.reverified /\ new.exports = r.exports \cup more
  BY <1>1 DEF Row
<1>4. QED BY <1>2, <1>3 DEF GoodRow, Concluded, AllCurrentReverifiesPassed

-----------------------------------------------------------------------------
(* The files and the authorizations *)

\* Every export of a row is authorized, for its round, with the visible bytes.
Listed(r, al, vis) ==
    \A e \in r.exports : \E i \in DOMAIN al :
        al[i].id = e.id /\ al[i].receipt.round = e.round /\ vis[e.id] = al[i].print

\* A command is authorized once, its bytes are private or visible, nothing else
\* is private under its name, and nothing is visible without it.
FilesOk(al, priv, vis) ==
    /\ \A i \in DOMAIN al :
          /\ al[i].receipt.id = al[i].id
          /\ al[i].print \in {vis[al[i].id], priv[al[i].id]}
          /\ priv[al[i].id] \in {NoFile, al[i].print}
          /\ \A j \in DOMAIN al : al[j].id = al[i].id => i = j
    /\ \A c \in Exports : vis[c] # NoFile =>
          \E i \in DOMAIN al : al[i].id = c /\ al[i].print = vis[c]

\* What a thread is about to rename was authorized, for the round it read.
HandlerOk(h, al) ==
    /\ h.pc \in {"decide", "authorize", "rename"} => h.cmd \in Exports
    /\ h.pc = "rename" => \E i \in DOMAIN al :
          al[i].id = h.cmd /\ al[i].print = h.print /\ al[i].receipt.round = h.snap.round

GoodHandler(h, al, vis) ==
    /\ h \in Handler
    /\ GoodRow(h.snap) /\ Listed(h.snap, al, vis)
    /\ GoodRow(h.out) /\ Listed(h.out, al, vis)
    /\ HandlerOk(h, al)

\* The authorizations only grow, and their visible bytes stay.
Grown(al, vis, al2, vis2) ==
    \A i \in DOMAIN al :
        /\ i \in DOMAIN al2 /\ al2[i] = al[i]
        /\ vis[al[i].id] = al[i].print => vis2[al[i].id] = al[i].print

Private == [Exports -> {NoFile} \cup Build]

\* The tables and the files hold what TypeOK says.
TablesInv ==
    /\ updatedAt \in Nat /\ revision \in Nat
    /\ receipts \in [Exports -> {"none", "committed", "revision_conflict"}]
    /\ auths \in Seq(Authorization)
    /\ private \in Private /\ visible \in Private
    /\ built \in Seq(File)
    /\ expects \in [Exports -> {Never} \cup Nat]
    /\ crashes \in 0..MaxCrashes
RowInv == GoodRow(row) /\ Listed(row, auths, visible)
HandlersInv ==
    /\ handler \in [Threads -> Handler]
    /\ \A t \in Threads : GoodHandler(handler[t], auths, visible)
FilesInv == FilesOk(auths, private, visible)

Inv == TablesInv /\ RowInv /\ HandlersInv /\ FilesInv /\ NoUnlicensedPrices

\* An authorization has bytes.
LEMMA PrintIsAFile ==
  ASSUME NEW al \in Seq(Authorization), NEW i \in DOMAIN al
  PROVE  al[i].id \in Exports /\ al[i].print \in Build /\ al[i].print # NoFile
         /\ al[i].receipt \in Export
<1>1. al[i] \in Authorization
  OBVIOUS
<1>2. QED BY <1>1, PublicationAssumption DEF Authorization, Build, NoFile

\* What is listed stays listed.
LEMMA ListedStays ==
  ASSUME NEW al, NEW vis, NEW al2, NEW vis2, Grown(al, vis, al2, vis2),
         NEW r, Listed(r, al, vis)
  PROVE  Listed(r, al2, vis2)
<1>1. SUFFICES ASSUME NEW e \in r.exports
               PROVE  \E i \in DOMAIN al2 : al2[i].id = e.id
                         /\ al2[i].receipt.round = e.round /\ vis2[e.id] = al2[i].print
  BY DEF Listed
<1>2. PICK i \in DOMAIN al :
         al[i].id = e.id /\ al[i].receipt.round = e.round /\ vis[e.id] = al[i].print
  BY DEF Listed
<1>3. i \in DOMAIN al2 /\ al2[i] = al[i] /\ vis2[e.id] = al[i].print
  BY <1>2 DEF Grown
<1>4. QED BY <1>2, <1>3

\* So does what a thread relies on.
LEMMA HandlerStays ==
  ASSUME NEW al, NEW vis, NEW al2, NEW vis2, Grown(al, vis, al2, vis2),
         NEW h, GoodHandler(h, al, vis)
  PROVE  GoodHandler(h, al2, vis2)
<1>1. HandlerOk(h, al2)
  BY DEF Grown, GoodHandler, HandlerOk
<1>2. QED BY <1>1, ListedStays DEF GoodHandler

\* A row that keeps the exports of another is listed as it is.
LEMMA KeptIsListed ==
  ASSUME NEW al, NEW vis, NEW old, NEW new, KeepsExports(old, new), Listed(old, al, vis)
  PROVE  Listed(new, al, vis)
<1>1. SUFFICES ASSUME NEW e \in new.exports
               PROVE  \E i \in DOMAIN al : al[i].id = e.id /\ al[i].receipt.round = e.round
                                           /\ vis[e.id] = al[i].print
  BY DEF Listed
<1>2. PICK f \in old.exports : f.id = e.id /\ f.round = e.round
  BY DEF KeepsExports
<1>3. QED BY <1>2 DEF Listed

\* A file is built for a command that is not authorized.
LEMMA FilesBuilt ==
  ASSUME NEW al \in Seq(Authorization), NEW priv \in Private, NEW vis,
         FilesOk(al, priv, vis),
         NEW c \in Exports, \A i \in DOMAIN al : al[i].id # c, NEW n
  PROVE  FilesOk(al, [priv EXCEPT ![c] = n], vis)
  BY PrintIsAFile DEF FilesOk, Private

\* A command is authorized with its private bytes.
LEMMA FilesAuthorized ==
  ASSUME NEW al \in Seq(Authorization), NEW priv \in Private, NEW vis,
         FilesOk(al, priv, vis),
         NEW a \in Authorization, \A i \in DOMAIN al : al[i].id # a.id,
         a.receipt.id = a.id, a.print = priv[a.id]
  PROVE  /\ FilesOk(Append(al, a), priv, vis)
         /\ Grown(al, vis, Append(al, a), vis)
         /\ \E i \in DOMAIN Append(al, a) : Append(al, a)[i] = a
<1> DEFINE more == Append(al, a)
           n == Len(al) + 1
<1>1. /\ DOMAIN more = DOMAIN al \cup {n} /\ n \in DOMAIN more /\ n \notin DOMAIN al
      /\ more[n] = a
      /\ \A i \in DOMAIN al : more[i] = al[i]
  <2>1. Len(al) \in Nat /\ DOMAIN al = 1..Len(al)
    OBVIOUS
  <2>2. Len(more) = n /\ DOMAIN more = 1..Len(more)
    OBVIOUS
  <2>3. more[n] = a /\ \A i \in 1..Len(al) : more[i] = al[i]
    OBVIOUS
  <2>4. QED BY <2>1, <2>2, <2>3
<1>2. FilesOk(more, priv, vis)
  <2>1. a.print \in {vis[a.id], priv[a.id]} /\ priv[a.id] \in {NoFile, a.print}
    OBVIOUS
  <2>2. \A i \in DOMAIN more :
           /\ more[i].receipt.id = more[i].id
           /\ more[i].print \in {vis[more[i].id], priv[more[i].id]}
           /\ priv[more[i].id] \in {NoFile, more[i].print}
    BY <1>1, <2>1 DEF FilesOk
  <2>3. \A i, j \in DOMAIN more : more[j].id = more[i].id => i = j
    BY <1>1 DEF FilesOk
  <2>4. \A c \in Exports : vis[c] # NoFile =>
           \E i \in DOMAIN more : more[i].id = c /\ more[i].print = vis[c]
    BY <1>1 DEF FilesOk
  <2>5. QED BY <2>2, <2>3, <2>4 DEF FilesOk
<1>3. QED BY <1>1, <1>2 DEF Grown

\* The private bytes of an authorized command become visible.
LEMMA FilesRenamed ==
  ASSUME NEW al \in Seq(Authorization), NEW priv \in Private, NEW vis \in Private,
         FilesOk(al, priv, vis),
         NEW i \in DOMAIN al, priv[al[i].id] # NoFile
  PROVE  LET c == al[i].id
             priv2 == [priv EXCEPT ![c] = NoFile]
             vis2 == [vis EXCEPT ![c] = priv[c]]
         IN  /\ FilesOk(al, priv2, vis2)
             /\ Grown(al, vis, al, vis2)
             /\ vis2[c] = al[i].print
<1> DEFINE c == al[i].id
           priv2 == [priv EXCEPT ![c] = NoFile]
           vis2 == [vis EXCEPT ![c] = priv[c]]
<1>1. c \in Exports /\ priv[c] = al[i].print
  BY PrintIsAFile DEF FilesOk
<1>2. /\ vis2[c] = al[i].print /\ priv2[c] = NoFile
      /\ \A d \in Exports : d # c => vis2[d] = vis[d] /\ priv2[d] = priv[d]
  BY <1>1 DEF Private
<1>3. \A j \in DOMAIN al : al[j].id \in Exports /\ (al[j].id = c => j = i)
  BY PrintIsAFile DEF FilesOk
<1>4. \A j \in DOMAIN al :
         /\ al[j].print \in {vis2[al[j].id], priv2[al[j].id]}
         /\ priv2[al[j].id] \in {NoFile, al[j].print}
  <2>1. SUFFICES ASSUME NEW j \in DOMAIN al
                 PROVE  /\ al[j].print \in {vis2[al[j].id], priv2[al[j].id]}
                        /\ priv2[al[j].id] \in {NoFile, al[j].print}
    OBVIOUS
  <2>2. CASE j = i BY <1>2, <2>2
  <2>3. CASE j # i
    <3>1. vis2[al[j].id] = vis[al[j].id] /\ priv2[al[j].id] = priv[al[j].id]
      BY <1>2, <1>3, <2>3
    <3>2. QED BY <3>1 DEF FilesOk
  <2>4. QED BY <2>2, <2>3
<1>5. \A d \in Exports : vis2[d] # NoFile =>
         \E j \in DOMAIN al : al[j].id = d /\ al[j].print = vis2[d]
  <2>1. SUFFICES ASSUME NEW d \in Exports, vis2[d] # NoFile
                 PROVE  \E j \in DOMAIN al : al[j].id = d /\ al[j].print = vis2[d]
    OBVIOUS
  <2>2. CASE d = c BY <1>2, <2>2
  <2>3. CASE d # c
    <3>1. vis2[d] = vis[d]
      BY <1>2, <2>3
    <3>2. QED BY <2>1, <3>1 DEF FilesOk
  <2>4. QED BY <2>2, <2>3
<1>6. FilesOk(al, priv2, vis2)
  BY <1>4, <1>5 DEF FilesOk
<1>7. Grown(al, vis, al, vis2)
  BY <1>2, <1>3 DEF Grown
<1>8. QED BY <1>2, <1>6, <1>7

-----------------------------------------------------------------------------
(* The handlers *)

\* A thread that does nothing.
LEMMA IdleIsGood ==
  ASSUME NEW r, GoodRow(r), NEW al, NEW vis, Listed(r, al, vis)
  PROVE  GoodHandler(IdleHandler(r), al, vis)
<1>1. r \in Row
  BY DEF GoodRow
<1>2. IdleHandler(r) \in Handler
  BY <1>1 DEF IdleHandler, Handler, Pc
<1>3. IdleHandler(r).snap = r /\ IdleHandler(r).out = r /\ IdleHandler(r).pc = "idle"
  BY DEF IdleHandler
<1>4. QED BY <1>2, <1>3 DEF GoodHandler, HandlerOk

\* A thread that has ended.
LEMMA EndedIsGood ==
  ASSUME NEW al, NEW vis
  PROVE  GoodHandler(IdleHandler(NewRow("licensed")), al, vis)
<1>1. GoodRow(NewRow("licensed")) /\ NewRow("licensed").exports = {}
  BY NewIsGood DEF Source
<1>2. Listed(NewRow("licensed"), al, vis)
  BY <1>1 DEF Listed
<1>3. QED BY <1>1, <1>2, IdleIsGood

\* One thread moves on; the others rely on what they did.
LEMMA HandlerWritten ==
  ASSUME HandlersInv, NEW t \in Threads, NEW h,
         GoodHandler(h, auths', visible'), handler' = [handler EXCEPT ![t] = h],
         Grown(auths, visible, auths', visible')
  PROVE  HandlersInv'
<1>1. handler' \in [Threads -> Handler]
  BY DEF HandlersInv, GoodHandler
<1>2. ASSUME NEW u \in Threads PROVE GoodHandler(handler'[u], auths', visible')
  <2>1. CASE u = t
    BY <2>1 DEF HandlersInv
  <2>2. CASE u # t
    <3>1. handler'[u] = handler[u]
      BY <2>2 DEF HandlersInv
    <3>2. QED BY <3>1, HandlerStays DEF HandlersInv
  <2>3. QED BY <2>1, <2>2
<1>3. QED BY <1>1, <1>2 DEF HandlersInv

\* No thread moves on, and no file is touched.
LEMMA HandlersKept ==
  ASSUME HandlersInv, UNCHANGED <<handler, auths, visible>>
  PROVE  HandlersInv'
  BY DEF HandlersInv

\* What is not touched has not changed.
LEMMA NothingGrown ==
  ASSUME UNCHANGED <<auths, visible>>
  PROVE  Grown(auths, visible, auths', visible')
  BY DEF Grown

-----------------------------------------------------------------------------
(* The steps that touch no file *)

\* Saving a row that is good and whose exports are listed, with or without the
\* move of a thread.
LEMMA RowSaved ==
  ASSUME Inv, TablesInv', HandlersInv', NEW r, GoodRow(r), Listed(r, auths, visible),
         row' = r, UNCHANGED <<auths, files>>
  PROVE  Inv'
<1>1. RowInv'
  BY DEF RowInv, files
<1>2. FilesInv' /\ NoUnlicensedPrices'
  BY DEF Inv, FilesInv, NoUnlicensedPrices, files
<1>3. QED BY <1>1, <1>2 DEF Inv

\* The loop or the user writes the research.
LEMMA WrittenStep ==
  ASSUME Inv, NEW new, GoodRow(new), KeepsExports(row, new), Written(new),
         UNCHANGED <<receipts, auths, files, handler, expects, crashes>>
  PROVE  Inv'
<1>1. TablesInv'
  BY DEF Inv, TablesInv, Written, files
<1>2. HandlersInv'
  BY HandlersKept DEF Inv, files
<1>3. Listed(new, auths, visible)
  BY KeptIsListed DEF Inv, RowInv
<1>4. QED BY <1>1, <1>2, <1>3, RowSaved DEF Written

\* Every step that only moves the research.
LEMMA ResearchSteps ==
  ASSUME Inv, CommitRound \/ StopSearch \/ MoveResearch
  PROVE  Inv'
<1>1. GoodRow(row)
  BY DEF Inv, RowInv
<1>2. CASE CommitRound
  <2>1. PICK checks \in Outcomes, st \in {"running", "completed", "ended"} :
           Written([row EXCEPT
               !.rounds = Append(@, [checks |-> checks, source |-> row.source]),
               !.round = Len(row.rounds) + 1,
               !.st = st,
               !.eligible = @ \/ st = "completed"])
    BY <1>2 DEF CommitRound
  <2>2. checks \in SUBSET Check /\ Len(row.rounds) < MaxRounds
    BY <1>2, PublicationAssumption DEF CommitRound
  <2>3. QED BY <1>1, <1>2, <2>1, <2>2, CommittedIsGood, WrittenStep DEF CommitRound
<1>3. CASE StopSearch
  <2>1. PICK st \in {"ended", "completed"} :
           Written([row EXCEPT !.st = st, !.eligible = @ \/ st = "completed"])
    BY <1>3 DEF StopSearch
  <2>2. QED BY <1>1, <1>3, <2>1, StoppedIsGood, WrittenStep DEF StopSearch
<1>4. CASE MoveResearch
  <2>1. PICK new \in Moved(row) \cup RequestConfirm(row) : Written(new)
    BY <1>4 DEF MoveResearch
  <2>2. QED BY <1>1, <1>4, <2>1, MovedIsGood, WrittenStep DEF MoveResearch
<1>5. QED BY <1>2, <1>3, <1>4

\* A thread moves on, and nothing else but its command's receipt.
LEMMA ThreadStep ==
  ASSUME Inv, TablesInv', NEW t \in Threads, NEW h, GoodHandler(h, auths, visible),
         handler' = [handler EXCEPT ![t] = h], UNCHANGED <<row, auths, files>>
  PROVE  Inv'
<1>1. HandlersInv'
  BY HandlerWritten, NothingGrown DEF Inv, files
<1>2. QED BY <1>1, RowSaved DEF Inv, RowInv

\* A client sends an export.
LEMMA StartExportStep ==
  ASSUME Inv, NEW t \in Threads, NEW c \in Exports, StartExport(t, c)
  PROVE  Inv'
<1> DEFINE h == [IdleHandler(row) EXCEPT !.pc = "decide", !.cmd = c, !.at = updatedAt]
<1>1. GoodHandler(IdleHandler(row), auths, visible)
  BY IdleIsGood DEF Inv, RowInv
<1>2. h \in Handler
  BY <1>1 DEF GoodHandler, Handler, Pc, Inv, TablesInv
<1>3. h.snap = row /\ h.out = row /\ h.pc = "decide" /\ h.cmd = c
  BY DEF IdleHandler
<1>4. GoodHandler(h, auths, visible)
  BY <1>2, <1>3 DEF GoodHandler, HandlerOk, Inv, RowInv
<1>5. TablesInv'
  <2>1. expects' \in [Exports -> {Never} \cup Nat]
    BY DEF StartExport, Inv, TablesInv
  <2>2. QED BY <2>1 DEF StartExport, Inv, TablesInv, files
<1>6. QED BY <1>4, <1>5, ThreadStep DEF StartExport

\* A pack that is refused saves the row as it was read.
LEMMA RefuseStep ==
  ASSUME Inv, NEW t \in Threads, Refuse(t)
  PROVE  Inv'
<1> DEFINE h == handler[t]
<1>1. TablesInv'
  BY DEF Refuse, Inv, TablesInv, files
<1>2. GoodHandler(h, auths, visible)
  BY DEF Inv, HandlersInv
<1>3. HandlersInv'
  BY EndedIsGood, HandlerWritten, NothingGrown DEF Refuse, Ended, Inv, files
<1>4. row' = row \/ row' = h.snap
  BY DEF Refuse
<1>5. QED
  BY <1>1, <1>2, <1>3, <1>4, RowSaved DEF Refuse, GoodHandler, Inv, RowInv

\* A re-verification reads the row and is about to save its outcome.
LEMMA ReverifyStep ==
  ASSUME Inv, NEW t \in Threads, Reverify(t)
  PROVE  Inv'
<1>1. PICK v \in Reverification :
         handler' = [handler EXCEPT ![t] =
            [IdleHandler(row) EXCEPT !.pc = "save", !.at = updatedAt,
                                     !.out = Reverified(row, v)]]
  BY DEF Reverify
<1> DEFINE out == Reverified(row, v)
           h == [IdleHandler(row) EXCEPT !.pc = "save", !.at = updatedAt, !.out = out]
<1>2. GoodHandler(IdleHandler(row), auths, visible)
  BY IdleIsGood DEF Inv, RowInv
<1>3. GoodRow(out) /\ Listed(out, auths, visible)
  BY ReverifiedIsGood, KeptIsListed DEF Inv, RowInv
<1>4. h \in Handler
  BY <1>2, <1>3 DEF GoodHandler, GoodRow, Handler, Pc, Inv, TablesInv
<1>5. h.snap = row /\ h.out = out /\ h.pc = "save"
  BY DEF IdleHandler
<1>6. GoodHandler(h, auths, visible)
  BY <1>3, <1>4, <1>5 DEF GoodHandler, HandlerOk, Inv, RowInv
<1>7. TablesInv'
  BY DEF Reverify, Inv, TablesInv, files
<1>8. QED BY <1>1, <1>6, <1>7, ThreadStep DEF Reverify

\* A handler saves, or loses against another.
LEMMA SaveSteps ==
  ASSUME Inv, NEW t \in Threads, Save(t) \/ SaveLost(t)
  PROVE  Inv'
<1> DEFINE h == handler[t]
<1>1. GoodHandler(h, auths, visible) /\ h \in Handler
  BY DEF Inv, HandlersInv
<1>2. receipts' \in [Exports -> {"none", "committed", "revision_conflict"}]
  BY DEF Save, SaveLost, Inv, TablesInv
<1>3. CASE Save(t)
  <2>1. TablesInv'
    BY <1>2, <1>3 DEF Save, Inv, TablesInv, files
  <2>2. HandlersInv'
    BY <1>3, EndedIsGood, HandlerWritten, NothingGrown DEF Save, Ended, Inv, files
  <2>3. QED BY <1>1, <1>3, <2>1, <2>2, RowSaved DEF Save, GoodHandler
<1>4. CASE SaveLost(t)
  <2>1. TablesInv'
    BY <1>2, <1>4 DEF SaveLost, Inv, TablesInv, files
  <2>2. QED BY <1>4, <2>1, EndedIsGood, ThreadStep DEF SaveLost, Ended
<1>5. QED BY <1>3, <1>4

\* The process dies; what a thread held is gone.
LEMMA CrashStep ==
  ASSUME Inv, Crash
  PROVE  Inv'
<1>1. IdleHandler(NewRow("licensed")) \in Handler
  BY EndedIsGood DEF GoodHandler
<1>2. HandlersInv'
  BY <1>1, EndedIsGood DEF Crash, HandlersInv
<1>3. crashes' \in 0..MaxCrashes
  BY PublicationAssumption DEF Crash, Inv, TablesInv
<1>4. TablesInv'
  BY <1>3 DEF Crash, Inv, TablesInv, files
<1>5. QED BY <1>2, <1>4, RowSaved DEF Crash, Inv, RowInv


-----------------------------------------------------------------------------
(* The steps that touch the files *)

\* The row stays and is still listed.
LEMMA FileStep ==
  ASSUME Inv, TablesInv', FilesInv', NoUnlicensedPrices',
         NEW t \in Threads, NEW h, GoodHandler(h, auths', visible'),
         handler' = [handler EXCEPT ![t] = h],
         Grown(auths, visible, auths', visible'), UNCHANGED row
  PROVE  Inv'
<1>1. HandlersInv'
  BY HandlerWritten DEF Inv
<1>2. RowInv'
  BY ListedStays DEF Inv, RowInv
<1>3. QED BY <1>1, <1>2 DEF Inv

\* A file with prices, or without.
LEMMA FileFields ==
  ASSUME NEW source \in Source, NEW raw \in BOOLEAN
  PROVE  /\ [raw |-> raw, source |-> source] \in File
         /\ [raw |-> raw, source |-> source].raw = raw
         /\ [raw |-> raw, source |-> source].source = source
  BY DEF File

\* A file is built, with prices only where the source of the round allows it.
LEMMA BuildPackStep ==
  ASSUME Inv, NEW t \in Threads, BuildPack(t)
  PROVE  Inv'
<1> DEFINE h == handler[t]
           n == Len(built) + 1
           file == IF h.cmd \in Packs THEN PackFile(h.snap) ELSE RecordFile(h.snap)
           g == [h EXCEPT !.pc = "authorize"]
<1>1. /\ GoodHandler(h, auths, visible) /\ h \in Handler /\ h.pc = "decide"
      /\ h.cmd \in Exports
  BY DEF BuildPack, Inv, HandlersInv, GoodHandler, HandlerOk
<1>2. /\ private' = [private EXCEPT ![h.cmd] = n] /\ built' = Append(built, file)
      /\ handler' = [handler EXCEPT ![t] = g]
      /\ h.cmd \notin AuthIds /\ Len(built) < MaxBuilds
      /\ UNCHANGED <<row, updatedAt, revision, receipts, auths, visible, expects, crashes>>
  BY DEF BuildPack, Goto, Inv, HandlersInv
<1>3. GoodRow(h.snap)
  BY <1>1 DEF GoodHandler
<1>4. file \in File /\ (file.raw => file.source = "licensed")
  <2>1. h.snap \in Row /\ h.snap.source \in Source
    BY <1>3, RowFields DEF GoodRow
  <2>2. CASE h.cmd \in Packs
    <3>1. Eligible(h.snap)
      BY <2>2 DEF BuildPack, Allowed
    <3>2. h.snap.round # 0 /\ h.snap.rounds[h.snap.round].source = h.snap.source
      BY <1>3, <3>1 DEF Eligible, GoodRow
    <3>3. file = [raw |-> h.snap.source = "licensed", source |-> h.snap.source]
      BY <2>2, <3>2 DEF PackFile
    <3>4. CASE h.snap.source = "licensed"
      <4>1. file = [raw |-> TRUE, source |-> h.snap.source]
        BY <3>3, <3>4
      <4>2. QED BY <2>1, <3>4, <4>1, FileFields
    <3>5. CASE h.snap.source # "licensed"
      <4>1. file = [raw |-> FALSE, source |-> h.snap.source]
        BY <3>3, <3>5
      <4>2. QED BY <2>1, <4>1, FileFields
    <3>6. QED BY <3>4, <3>5
  <2>3. CASE h.cmd \notin Packs
    <3>1. file = [raw |-> FALSE, source |-> h.snap.source]
      BY <2>3 DEF RecordFile
    <3>2. QED BY <2>1, <3>1, FileFields
  <2>4. QED BY <2>2, <2>3
<1>5. built \in Seq(File) /\ private \in Private /\ auths \in Seq(Authorization)
  BY DEF Inv, TablesInv
<1>6. n \in Build
  BY <1>2, <1>5, PublicationAssumption DEF Build
<1>7. TablesInv'
  <2>1. private' \in Private
    BY <1>1, <1>2, <1>5, <1>6 DEF Private
  <2>2. built' \in Seq(File)
    BY <1>2, <1>4, <1>5
  <2>3. QED BY <1>2, <2>1, <2>2 DEF Inv, TablesInv
<1>8. FilesInv'
  <2>1. \A i \in DOMAIN auths : auths[i].id # h.cmd
    BY <1>2 DEF AuthIds
  <2>2. FilesOk(auths, private', visible)
    BY <1>1, <1>2, <1>5, <2>1, FilesBuilt DEF Inv, FilesInv
  <2>3. QED BY <1>2, <2>2 DEF FilesInv
<1>9. NoUnlicensedPrices'
  <2>1. SUFFICES ASSUME NEW i \in DOMAIN built', built'[i].raw
                 PROVE  built'[i].source = "licensed"
    BY DEF NoUnlicensedPrices
  <2>2. \/ i = n /\ built'[i] = file
        \/ i \in DOMAIN built /\ built'[i] = built[i]
    <3>1. Len(built) \in Nat /\ DOMAIN built = 1..Len(built)
      BY <1>5
    <3>2. DOMAIN built' = 1..n /\ built'[n] = file
          /\ \A j \in 1..Len(built) : built'[j] = built[j]
      BY <1>2, <1>4, <1>5
    <3>3. i \in 1..n
      BY <2>1, <3>2
    <3>4. QED BY <3>1, <3>2, <3>3
  <2>3. QED BY <1>4, <2>1, <2>2 DEF Inv, NoUnlicensedPrices
<1>10. GoodHandler(g, auths', visible')
  <2>1. g \in Handler /\ g.snap = h.snap /\ g.out = h.out /\ g.pc = "authorize" /\ g.cmd = h.cmd
    BY <1>1 DEF Handler, Pc
  <2>2. QED BY <1>1, <1>2, <2>1 DEF GoodHandler, HandlerOk
<1>11. QED BY <1>2, <1>7, <1>8, <1>9, <1>10, NothingGrown, FileStep

\* The record of an export.
LEMMA RecordIsExport ==
  ASSUME NEW t, NEW h, h = handler[t], h \in Handler, h.cmd \in Exports
  PROVE  /\ Record(t) \in Export /\ Record(t).id = h.cmd
         /\ Record(t).round = h.snap.round
<1>1. h.snap.round \in 0..MaxRounds
  BY RowFields DEF Handler
<1>2. QED BY <1>1 DEF Record, Export

\* A thread that found nothing to do ends.
LEMMA EndedStep ==
  ASSUME Inv, NEW t \in Threads, Ended(t),
         UNCHANGED <<row, updatedAt, revision, receipts, auths, files, expects, crashes>>
  PROVE  Inv'
<1>1. TablesInv'
  BY DEF Inv, TablesInv, files
<1>2. QED BY <1>1, EndedIsGood, ThreadStep DEF Ended

\* The private bytes are authorized.
LEMMA AuthorizeStep ==
  ASSUME Inv, NEW t \in Threads, Authorize(t)
  PROVE  Inv'
<1> DEFINE h == handler[t]
           file == private[h.cmd]
           a == [id |-> h.cmd, print |-> file, receipt |-> Record(t)]
           g == [h EXCEPT !.pc = "rename", !.print = file]
<1>1. /\ GoodHandler(h, auths, visible) /\ h \in Handler /\ h.pc = "authorize"
      /\ h.cmd \in Exports
  BY DEF Authorize, Inv, HandlersInv, GoodHandler, HandlerOk
<1>2. auths \in Seq(Authorization) /\ private \in Private
  BY DEF Inv, TablesInv
<1>3. CASE file = NoFile \/ h.cmd \in AuthIds
  BY <1>3, EndedStep DEF Authorize
<1>4. CASE file # NoFile /\ h.cmd \notin AuthIds
  <2>1. /\ auths' = Append(auths, a) /\ handler' = [handler EXCEPT ![t] = g]
        /\ UNCHANGED <<row, updatedAt, revision, receipts, files, expects, crashes>>
    BY <1>4 DEF Authorize, Inv, HandlersInv
  <2>2. file \in Build
    BY <1>1, <1>2, <1>4 DEF Private
  <2>3. /\ a \in Authorization /\ a.id = h.cmd /\ a.print = file
        /\ a.receipt.id = a.id /\ a.receipt.round = h.snap.round
    BY <1>1, <2>2, RecordIsExport DEF Authorization
  <2>4. \A i \in DOMAIN auths : auths[i].id # a.id
    BY <1>4, <2>3 DEF AuthIds
  <2>5. /\ FilesOk(auths', private, visible) /\ Grown(auths, visible, auths', visible)
        /\ \E i \in DOMAIN auths' : auths'[i] = a
    BY <1>2, <2>1, <2>3, <2>4, FilesAuthorized DEF Inv, FilesInv
  <2>6. TablesInv'
    <3>1. auths' \in Seq(Authorization)
      BY <1>2, <2>1, <2>3
    <3>2. QED BY <2>1, <3>1 DEF Inv, TablesInv, files
  <2>7. GoodHandler(g, auths', visible')
    <3>1. /\ g \in Handler /\ g.snap = h.snap /\ g.out = h.out /\ g.pc = "rename"
          /\ g.cmd = h.cmd /\ g.print = file
      BY <1>1, <2>2 DEF Handler, Pc
    <3>2. GoodHandler(h, auths', visible')
      BY <1>1, <2>1, <2>5, HandlerStays DEF files
    <3>3. HandlerOk(g, auths')
      BY <1>1, <2>3, <2>5, <3>1 DEF HandlerOk
    <3>4. QED BY <3>1, <3>2, <3>3 DEF GoodHandler
  <2>8. FilesInv' /\ NoUnlicensedPrices' /\ Grown(auths, visible, auths', visible')
    BY <2>1, <2>5 DEF FilesInv, Inv, NoUnlicensedPrices, files
  <2>9. QED BY <2>1, <2>6, <2>7, <2>8, FileStep
<1>5. QED BY <1>3, <1>4

\* The authorized bytes become visible, and the export is about to be listed.
LEMMA RenameStep ==
  ASSUME Inv, NEW t \in Threads, Rename(t)
  PROVE  Inv'
<1> DEFINE h == handler[t]
           file == private[h.cmd]
           e == Record(t)
           out == [h.snap EXCEPT !.exports = @ \cup {e}]
           g == [h EXCEPT !.pc = "save", !.keeps = FALSE, !.out = out]
<1>1. /\ GoodHandler(h, auths, visible) /\ h \in Handler /\ h.pc = "rename"
      /\ h.cmd \in Exports
  BY DEF Rename, Inv, HandlersInv, GoodHandler, HandlerOk
<1>2. auths \in Seq(Authorization) /\ private \in Private /\ visible \in Private
  BY DEF Inv, TablesInv
<1>3. CASE file = NoFile
  BY <1>3, EndedStep DEF Rename
<1>4. CASE file # NoFile
  <2>1. /\ private' = [private EXCEPT ![h.cmd] = NoFile]
        /\ visible' = [visible EXCEPT ![h.cmd] = file]
        /\ handler' = [handler EXCEPT ![t] = IdleHandler(NewRow("licensed"))]
           \/ handler' = [handler EXCEPT ![t] = g]
        /\ UNCHANGED <<row, updatedAt, revision, receipts, auths, built, expects, crashes>>
    BY <1>4 DEF Rename, Ended, Inv, HandlersInv
  <2>2. PICK i \in DOMAIN auths :
           auths[i].id = h.cmd /\ auths[i].receipt.round = h.snap.round
    BY <1>1 DEF GoodHandler, HandlerOk
  <2>3. /\ FilesOk(auths, private', visible') /\ Grown(auths, visible, auths, visible')
        /\ visible'[h.cmd] = auths[i].print
    <3>1. /\ private[auths[i].id] # NoFile
          /\ private' = [private EXCEPT ![auths[i].id] = NoFile]
          /\ visible' = [visible EXCEPT ![auths[i].id] = private[auths[i].id]]
      BY <1>4, <2>1, <2>2
    <3>2. FilesOk(auths, private, visible)
      BY DEF Inv, FilesInv
    <3>3. /\ FilesOk(auths, private', visible') /\ Grown(auths, visible, auths, visible')
          /\ visible'[auths[i].id] = auths[i].print
      BY <1>2, <3>1, <3>2, FilesRenamed
    <3>4. QED BY <2>2, <3>3
  <2>4. TablesInv'
    <3>1. private' \in Private /\ visible' \in Private
      BY <1>1, <1>2, <2>1 DEF Private
    <3>2. QED BY <2>1, <3>1 DEF Inv, TablesInv
  <2>5. GoodHandler(g, auths', visible')
    <3>1. GoodHandler(h, auths', visible')
      BY <1>1, <2>1, <2>3, HandlerStays
    <3>2. e \in Export /\ e.id = h.cmd /\ e.round = h.snap.round
      BY <1>1, RecordIsExport
    <3>3. GoodRow(out) /\ out.exports = h.snap.exports \cup {e}
      <4>1. GoodRow(h.snap) /\ {e} \in SUBSET Export
        BY <3>1, <3>2 DEF GoodHandler
      <4>2. QED BY <4>1, ExportedIsGood
    <3>4. Listed(out, auths', visible')
      BY <2>1, <2>2, <2>3, <3>1, <3>2, <3>3 DEF GoodHandler, Listed
    <3>5. g \in Handler /\ g.snap = h.snap /\ g.out = out /\ g.pc = "save"
      BY <1>1, <3>3 DEF Handler, Pc, GoodRow
    <3>6. QED BY <3>1, <3>3, <3>4, <3>5 DEF GoodHandler, HandlerOk
  <2>6. FilesInv' /\ NoUnlicensedPrices' /\ Grown(auths, visible, auths', visible')
    BY <2>1, <2>3 DEF FilesInv, Inv, NoUnlicensedPrices
  <2>7. QED BY <2>1, <2>4, <2>5, <2>6, EndedIsGood, FileStep
<1>5. QED BY <1>3, <1>4

\* Recovery lists the exports whose bytes it has made visible.
LEMMA RecoverStep ==
  ASSUME Inv, NEW t \in Threads, Recover(t)
  PROVE  Inv'
<1> DEFINE h == handler[t]
           Intact(i) == \A j \in 1..i : Restorable(auths[j])
           I == {j \in DOMAIN auths : Intact(j)}
           done == {auths[i] : i \in I}
           moved == {a.id : a \in {b \in done : visible[b.id] # b.print}}
           ids == {auths[i].id : i \in {j \in I : visible[auths[j].id] # auths[j].print}}
           lost == Missing(h.snap, done)
           out == [h.snap EXCEPT !.exports = @ \cup lost]
           g == [h EXCEPT !.pc = "save", !.keeps = TRUE, !.out = out]
<1>1. GoodHandler(h, auths, visible) /\ h \in Handler
  BY DEF Inv, HandlersInv, GoodHandler
<1>2. auths \in Seq(Authorization) /\ private \in Private /\ visible \in Private
  BY DEF Inv, TablesInv
<1>3. moved = ids
  OBVIOUS
<1>4. /\ visible' = [c \in Exports |-> IF c \in moved THEN private[c] ELSE visible[c]]
      /\ private' = [c \in Exports |-> IF c \in moved THEN NoFile ELSE private[c]]
      /\ handler' = [handler EXCEPT ![t] = IdleHandler(NewRow("licensed"))]
         \/ handler' = [handler EXCEPT ![t] = g]
      /\ UNCHANGED <<row, updatedAt, revision, receipts, auths, built, expects, crashes>>
  BY DEF Recover, Ended, Inv, HandlersInv
<1>5. /\ FilesOk(auths, private', visible') /\ Grown(auths, visible, auths, visible')
      /\ \A i \in I : visible'[auths[i].id] = auths[i].print
  <2> DEFINE J == {j \in I : visible[auths[j].id] # auths[j].print}
  <2>1. I \subseteq DOMAIN auths /\ moved = {auths[i].id : i \in J}
    BY <1>3
  <2>2. FilesOk(auths, private, visible)
    BY DEF Inv, FilesInv
  <2> HIDE DEF I, moved
  <2>3. \A i \in DOMAIN auths : auths[i].id \in Exports /\ (auths[i].id \in moved => i \in J)
    BY <1>2, <2>1, <2>2, PrintIsAFile DEF FilesOk
  <2>4. \A i \in J : /\ visible'[auths[i].id] = auths[i].print
                     /\ private'[auths[i].id] = NoFile
    <3>1. \A i \in J : i \in DOMAIN auths /\ auths[i].id \in moved
      BY <2>1
    <3>2. \A i \in J : private[auths[i].id] = auths[i].print
      BY <2>1, <2>2 DEF FilesOk
    <3>3. QED BY <1>4, <2>3, <3>1, <3>2
  <2>5. \A i \in DOMAIN auths : i \notin J =>
           visible'[auths[i].id] = visible[auths[i].id]
             /\ private'[auths[i].id] = private[auths[i].id]
    BY <1>4, <2>3
  <2>6. \A i \in DOMAIN auths :
           /\ auths[i].print \in {visible'[auths[i].id], private'[auths[i].id]}
           /\ private'[auths[i].id] \in {NoFile, auths[i].print}
    <3>1. SUFFICES ASSUME NEW i \in DOMAIN auths
                   PROVE  /\ auths[i].print \in {visible'[auths[i].id], private'[auths[i].id]}
                          /\ private'[auths[i].id] \in {NoFile, auths[i].print}
      OBVIOUS
    <3>2. CASE i \in J BY <2>4, <3>2
    <3>3. CASE i \notin J BY <2>2, <2>5, <3>3 DEF FilesOk
    <3>4. QED BY <3>2, <3>3
  <2>7. \A c \in Exports : visible'[c] # NoFile =>
           \E i \in DOMAIN auths : auths[i].id = c /\ auths[i].print = visible'[c]
    <3>1. SUFFICES ASSUME NEW c \in Exports, visible'[c] # NoFile
                   PROVE  \E i \in DOMAIN auths : auths[i].id = c /\ auths[i].print = visible'[c]
      OBVIOUS
    <3>2. CASE c \in moved
      <4>1. PICK i \in J : auths[i].id = c
        BY <2>1, <3>2
      <4>2. QED BY <2>1, <2>4, <4>1
    <3>3. CASE c \notin moved
      <4>1. visible'[c] = visible[c]
        BY <1>4, <3>3
      <4>2. QED BY <2>2, <3>1, <4>1 DEF FilesOk
    <3>4. QED BY <3>2, <3>3
  <2>8. FilesOk(auths, private', visible')
    BY <2>2, <2>6, <2>7 DEF FilesOk
  <2>9. Grown(auths, visible, auths, visible')
    BY <2>4, <2>5 DEF Grown
  <2>10. \A i \in I : visible'[auths[i].id] = auths[i].print
    BY <2>1, <2>4, <2>5
  <2>11. QED BY <2>8, <2>9, <2>10
<1>6. TablesInv'
  <2>1. private' \in Private /\ visible' \in Private
    BY <1>2, <1>4 DEF Private
  <2>2. QED BY <1>4, <2>1 DEF Inv, TablesInv
<1>7. GoodHandler(g, auths', visible')
  <2>1. GoodHandler(h, auths', visible')
    BY <1>1, <1>4, <1>5, HandlerStays
  <2>2. ASSUME NEW e \in lost
        PROVE  /\ e \in Export
               /\ \E i \in I : auths[i].id = e.id /\ auths[i].receipt = e
    <3>1. PICK i \in I : e = auths[i].receipt
      BY <2>2 DEF Missing
    <3>2. auths[i].receipt.id = auths[i].id
      BY DEF Inv, FilesInv, FilesOk
    <3>3. QED BY <1>2, <3>1, <3>2, PrintIsAFile
  <2>3. GoodRow(out) /\ out.exports = h.snap.exports \cup lost
    <3>1. lost \in SUBSET Export
      BY <2>2
    <3>2. QED BY <2>1, <3>1, ExportedIsGood DEF GoodHandler
  <2>4. Listed(out, auths', visible')
    <3>1. SUFFICES ASSUME NEW e \in out.exports
                   PROVE  \E i \in DOMAIN auths' : auths'[i].id = e.id
                             /\ auths'[i].receipt.round = e.round
                             /\ visible'[e.id] = auths'[i].print
      BY DEF Listed
    <3>2. CASE e \in h.snap.exports
      BY <2>1, <3>2 DEF GoodHandler, Listed
    <3>3. CASE e \in lost
      <4>1. PICK i \in I : auths[i].id = e.id /\ auths[i].receipt = e
        BY <2>2, <3>3
      <4>2. i \in DOMAIN auths' /\ auths'[i] = auths[i] /\ visible'[auths[i].id] = auths[i].print
        BY <1>4, <1>5
      <4>3. QED BY <4>1, <4>2
    <3>4. QED BY <2>3, <3>2, <3>3
  <2>5. g \in Handler /\ g.snap = h.snap /\ g.out = out /\ g.pc = "save"
    BY <1>1, <2>3 DEF Handler, Pc, GoodRow
  <2>6. QED BY <2>1, <2>3, <2>4, <2>5 DEF GoodHandler, HandlerOk
<1>8. FilesInv' /\ NoUnlicensedPrices' /\ Grown(auths, visible, auths', visible')
  BY <1>4, <1>5 DEF FilesInv, Inv, NoUnlicensedPrices
<1>9. QED BY <1>4, <1>6, <1>7, <1>8, EndedIsGood, FileStep


-----------------------------------------------------------------------------
(* The invariant *)

\* The search has committed its first round, and nothing was exported.
LEMMA InitInv ==
  ASSUME Init
  PROVE  Inv
<1>1. PICK source \in Begins, checks \in Outcomes :
         row = [NewRow(source) EXCEPT
                   !.rounds = <<[checks |-> checks, source |-> source]>>,
                   !.round = 1,
                   !.st = "completed",
                   !.eligible = TRUE]
  BY DEF Init
<1> DEFINE round == [checks |-> checks, source |-> source]
<1>2. source \in Source /\ checks \in SUBSET Check
  BY PublicationAssumption
<1>3. round \in Round /\ round.source = source
  BY <1>2 DEF Round
<1>4. NewRow(source) \in Row /\ NewRow(source).exports = {} /\ NewRow(source).source = source
  BY <1>2, NewIsGood DEF GoodRow, NewRow
<1>5. <<round>> \in Seq(Round) /\ Len(<<round>>) = 1 /\ <<round>>[1] = round
  BY <1>3
<1>6. 1 \in 0..MaxRounds
  BY PublicationAssumption
<1>7. row \in Row
  BY <1>1, <1>4, <1>5, <1>6 DEF Row, Status
<1>8. /\ row.st = "completed" /\ row.round = 1 /\ row.rounds = <<round>>
      /\ row.source = source /\ row.eligible = TRUE /\ row.exports = {}
  BY <1>1, <1>4 DEF Row
<1>9. RowInv
  BY <1>3, <1>5, <1>7, <1>8 DEF RowInv, GoodRow, Listed
<1>10. TablesInv
  BY PublicationAssumption DEF Init, TablesInv, Private
<1>11. HandlersInv
  <2>1. IdleHandler(NewRow("licensed")) \in Handler
    BY EndedIsGood DEF GoodHandler
  <2>2. QED BY <2>1, EndedIsGood DEF Init, HandlersInv
<1>12. FilesInv /\ NoUnlicensedPrices
  BY DEF Init, FilesInv, FilesOk, NoUnlicensedPrices
<1>13. QED BY <1>9, <1>10, <1>11, <1>12 DEF Inv

\* The invariant holds in every state.
THEOREM Invariance == Spec => []Inv
<1>1. Init => Inv
  BY InitInv
<1>2. ASSUME Inv, Next PROVE Inv'
  <2>1. CASE CommitRound \/ StopSearch \/ MoveResearch
    BY <1>2, <2>1, ResearchSteps
  <2>2. ASSUME NEW t \in Threads, Export_(t) PROVE Inv'
    BY <1>2, <2>2, StartExportStep, RefuseStep, BuildPackStep, AuthorizeStep, RenameStep,
       RecoverStep, SaveSteps DEF Export_
  <2>3. ASSUME NEW t \in Threads, Reverify(t) PROVE Inv'
    BY <1>2, <2>3, ReverifyStep
  <2>4. CASE Crash
    BY <1>2, <2>4, CrashStep
  <2>5. QED BY <1>2, <2>1, <2>2, <2>3, <2>4 DEF Next
<1>3. ASSUME Inv, UNCHANGED vars PROVE Inv'
  BY <1>3 DEF Inv, TablesInv, RowInv, HandlersInv, FilesInv, NoUnlicensedPrices, vars, files
<1>4. Inv /\ [Next]_vars => Inv'
  BY <1>2, <1>3
<1>5. QED BY <1>1, <1>4, PTL DEF Spec

-----------------------------------------------------------------------------
(* What the research lists, what is visible and what is authorized agree    *)
(* (publish.py:1), and a research a pack could be made of is flagged for    *)
(* export, after any crash and however many handlers save rows they read    *)
(* before.                                                                  *)
THEOREM ExportsAgreeAlways == Spec => []ExportsAgree
<1>1. Inv => TypeOK
  BY DEF Inv, TablesInv, RowInv, GoodRow, HandlersInv, Private, TypeOK
<1>2. Inv => ListedIsVisible
  <2>1. SUFFICES ASSUME Inv, NEW e \in row.exports
                 PROVE  \E a \in {auths[i] : i \in DOMAIN auths} :
                           a.id = e.id /\ a.receipt.round = e.round /\ visible[e.id] = a.print
    BY DEF ListedIsVisible
  <2>2. PICK i \in DOMAIN auths : auths[i].id = e.id /\ auths[i].receipt.round = e.round
                                  /\ visible[e.id] = auths[i].print
    BY <2>1 DEF Inv, RowInv, Listed
  <2>3. QED BY <2>2
<1>3. Inv => VisibleIsAuthorized
  BY DEF Inv, FilesInv, FilesOk, VisibleIsAuthorized
<1>4. Inv => FlagCoversPack
  BY DEF Inv, RowInv, GoodRow, Concluded, FlagCoversPack, Eligible
<1>5. Inv => ExportsAgree
  BY <1>1, <1>2, <1>3, <1>4 DEF ExportsAgree
<1>6. QED BY <1>5, Invariance, PTL

(* Bytes once authorized can be published, wherever the process died        *)
(* (publish.py:1): no export blocks the recovery of the others.             *)
THEOREM AuthorizedIsRecoverableAlways == Spec => []AuthorizedIsRecoverable
<1>1. Inv => AuthorizedIsRecoverable
  BY DEF Inv, FilesInv, FilesOk, AuthorizedIsRecoverable, Restorable
<1>2. QED BY <1>1, Invariance, PTL

(* No pack with prices holds prices of an unlicensed source, though the     *)
(* source of a research changes and the rule asks the research, not the     *)
(* round (export.py, _uses_unlicensed_source): a version that changes the   *)
(* source has no round until it commits one of its own.                     *)
THEOREM NoUnlicensedPricesAlways == Spec => []NoUnlicensedPrices
<1>1. Inv => NoUnlicensedPrices
  BY DEF Inv
<1>2. QED BY <1>1, Invariance, PTL
-----------------------------------------------------------------------------
(* What one step does to the list                                          *)

\* What of a row decides whether it is a pack, and its marks: all but the list.
Marked(r) == {e \in r.exports : e.overturned}
Alike(r, s) ==
    /\ r.st = s.st /\ r.card = s.card /\ r.round = s.round /\ r.rounds = s.rounds
    /\ r.reverified = s.reverified /\ r.audit = s.audit
    /\ Marked(r) = Marked(s)

Distinct(r) == \A e, f \in r.exports : e.id = f.id => e = f

\* A failure that new has and old has not marks every pack of its round.
MarksNew(old, new) ==
    \A v \in new.audit \ old.audit, e \in new.exports :
        e.kind = "pack" /\ v.method = "builtin" /\ ~v.passed /\ e.round = v.round
          => e.overturned

\* As long as nobody stored another updated_at, the row r is what the handler h
\* read, up to exports it lists; so what h saves keeps the marks of r.
Reading == {"decide", "authorize", "rename"}
Follows(h, r, at, rev) ==
    /\ h.pc # "idle" => h.at <= rev
    /\ Distinct(h.snap) /\ Distinct(h.out)
    /\ h.pc = "rename" => \A e \in h.snap.exports : e.id # h.cmd
    /\ h.pc \in Reading /\ h.at = at => Alike(h.snap, r)
    /\ h.pc = "save" /\ h.at = at =>
          /\ Marked(r) \subseteq h.out.exports
          /\ MarksNew(r, h.out)
          /\ h.keeps => Alike(h.out, r)

StepInv ==
    /\ updatedAt <= revision
    /\ Distinct(row)
    /\ \A i \in DOMAIN auths : ~auths[i].receipt.overturned
    /\ \A t \in Threads : Follows(handler[t], row, updatedAt, revision)

\* What h, the handler of a command, will list under its own id is a pack of
\* the row r.  A journaled command may only save at the revision it was sent
\* with, and then r is the row it read.
Owns(h, r, at, rev, exp, ids) ==
    /\ exp[h.cmd] # Never
    /\ h.pc \in Reading /\ h.cmd \in Journaled /\ exp[h.cmd] = rev => h.snap = r
    /\ h.pc \in {"decide", "authorize"} /\ h.cmd \notin Journaled => h.cmd \notin ids
    /\ h.pc \in {"authorize", "rename"} /\ h.cmd \in Packs => Eligible(h.snap)
    /\ /\ h.pc = "save" /\ h.at = at
       /\ h.cmd \in Journaled => exp[h.cmd] = rev /\ h.cmd \notin ExportIds(r)
       => \A e \in h.out.exports :
             e.kind = "pack" /\ e.id = h.cmd => Eligible(r) /\ e.round = r.round

\* One authorization was given to the command c for the row it was sent for.
GivenFor(a, r, rev, exp) ==
    /\ exp[a.id] # Never
    /\ a.receipt.kind = "pack" => a.id \in Packs
    /\ a.id \in Journaled /\ exp[a.id] = rev => a.receipt.round = r.round

OwnInv ==
    /\ \A c \in Exports : expects[c] <= revision
    /\ \A i \in DOMAIN auths : GivenFor(auths[i], row, revision, expects)
    /\ \A t, u \in Threads :
          handler[t].cmd = handler[u].cmd /\ handler[t].cmd \in Exports \ Journaled => t = u
    /\ \A t \in Threads : handler[t].cmd \in Exports =>
          Owns(handler[t], row, updatedAt, revision, expects, AuthIds)


\* A handler that is idle has nothing to lose.
LEMMA IdleFollows ==
  ASSUME NEW r, NEW at, NEW rev
  PROVE  Follows(IdleHandler(NewRow("licensed")), r, at, rev)
<1>1. PICK h : h = IdleHandler(NewRow("licensed"))
  OBVIOUS
<1>2. h.pc = "idle" /\ h.snap.exports = {} /\ h.out.exports = {}
  BY <1>1 DEF IdleHandler, NewRow
<1>3. Follows(h, r, at, rev)
  BY <1>2 DEF Follows, Distinct, Reading
<1>4. QED BY <1>1, <1>3

\* A handler goes on following a row that another step writes: under its
\* updated_at only the list changes.
LEMMA FollowsStays ==
  ASSUME NEW h, NEW r, NEW s, NEW at \in Nat, NEW bt \in Nat, NEW rev \in Nat, NEW sev \in Nat,
         h.at \in Nat, rev <= sev, (bt = at /\ Alike(s, r)) \/ bt > rev,
         Follows(h, r, at, rev)
  PROVE  Follows(h, s, bt, sev)
<1>1. h.pc # "idle" => h.at <= sev
  BY DEF Follows
<1>2. CASE h.pc # "idle" /\ h.at = bt
  <2>1. h.at = at /\ Alike(s, r)
    BY <1>2 DEF Follows
  <2>2. h.pc \in Reading => Alike(h.snap, s)
    BY <2>1 DEF Follows, Alike
  <2>3. h.pc = "save" =>
          /\ Marked(s) \subseteq h.out.exports
          /\ MarksNew(s, h.out)
          /\ h.keeps => Alike(h.out, s)
    BY <2>1 DEF Follows, Alike, MarksNew
  <2>4. QED BY <1>1, <2>2, <2>3 DEF Follows
<1>3. CASE ~(h.pc # "idle" /\ h.at = bt)
  BY <1>1, <1>3 DEF Follows, Reading
<1>4. QED BY <1>2, <1>3

\* The row of a thread and the numbers are what the type says.
LEMMA Numbers ==
  ASSUME Inv
  PROVE  /\ updatedAt \in Nat /\ revision \in Nat /\ row \in Row
         /\ handler \in [Threads -> Handler]
         /\ \A t \in Threads : /\ handler[t] \in Handler /\ handler[t].at \in Nat
                               /\ handler[t].snap \in Row /\ handler[t].out \in Row
<1>1. handler \in [Threads -> Handler]
  BY DEF Inv, HandlersInv
<1>2. \A t \in Threads : /\ handler[t] \in Handler /\ handler[t].at \in Nat
                         /\ handler[t].snap \in Row /\ handler[t].out \in Row
  BY <1>1 DEF Handler
<1>3. QED BY <1>1, <1>2 DEF Inv, TablesInv, RowInv, GoodRow

\* One thread moves to h, and the row is written or not.
LEMMA StepMoves ==
  ASSUME Inv, Inv', StepInv, NEW t \in Threads, NEW h, handler' = [handler EXCEPT ![t] = h],
         Follows(h, row', updatedAt', revision'), Distinct(row'),
         revision <= revision', updatedAt' <= revision',
         (updatedAt' = updatedAt /\ Alike(row', row)) \/ updatedAt' > revision,
         \A i \in DOMAIN auths' : ~auths'[i].receipt.overturned
  PROVE  StepInv'
<1>1. updatedAt \in Nat /\ revision \in Nat /\ updatedAt' \in Nat /\ revision' \in Nat
  BY Numbers DEF Inv, TablesInv
<1>2. PICK s : s = row'
  OBVIOUS
<1>3. PICK bt, sev : bt = updatedAt' /\ sev = revision'
  OBVIOUS
<1>4. ASSUME NEW u \in Threads PROVE Follows(handler'[u], s, bt, sev)
  <2>1. CASE u = t
    BY <1>2, <1>3, <2>1, Numbers
  <2>2. CASE u # t
    <3>1. handler'[u] = handler[u]
      BY <2>2, Numbers
    <3>2. PICK g : g = handler[u]
      OBVIOUS
    <3>3. Follows(g, row, updatedAt, revision) /\ g.at \in Nat
      BY <3>2, Numbers DEF StepInv
    <3>4. Follows(g, s, bt, sev)
      BY <1>1, <1>2, <1>3, <3>3, FollowsStays
    <3>5. QED BY <3>1, <3>2, <3>4
  <2>3. QED BY <2>1, <2>2
<1>5. QED BY <1>2, <1>3, <1>4 DEF StepInv

\* One thread moves to h, and the row stays.
LEMMA ThreadMoves ==
  ASSUME Inv, Inv', StepInv, NEW t \in Threads, NEW h, handler' = [handler EXCEPT ![t] = h],
         Follows(h, row, updatedAt, revision), UNCHANGED <<row, updatedAt, revision>>,
         \A i \in DOMAIN auths' : ~auths'[i].receipt.overturned
  PROVE  StepInv'
<1>1. Alike(row', row)
  BY DEF Alike
<1>2. revision <= revision' /\ updatedAt' <= revision' /\ Distinct(row')
  BY Numbers DEF StepInv
<1>3. QED BY <1>1, <1>2, StepMoves

\* The loop and the user leave the list and the re-verifications alone.
LEMMA WrittenIs ==
  ASSUME Inv, CommitRound \/ StopSearch \/ MoveResearch
  PROVE  /\ row'.exports = row.exports /\ row'.audit = row.audit
         /\ revision' = revision + 1 /\ updatedAt' = revision + 1
         /\ UNCHANGED <<receipts, auths, handler, expects>>
<1>1. row \in Row
  BY Numbers
<1>2. /\ revision' = revision + 1 /\ updatedAt' = revision + 1
      /\ UNCHANGED <<receipts, auths, handler, expects>>
  BY DEF CommitRound, StopSearch, MoveResearch, Written
<1>3. CASE CommitRound \/ StopSearch
  BY <1>1, <1>3 DEF CommitRound, StopSearch, Written, Row
<1>4. CASE MoveResearch
  <2>1. PICK new \in Moved(row) \cup RequestConfirm(row) : row' = new
    BY <1>4 DEF MoveResearch, Written
  <2>2. \A source : /\ Opened(row, source).exports = row.exports
                    /\ Opened(row, source).audit = row.audit
    BY <1>1 DEF Opened, Row
  <2>3. /\ \A st : [row EXCEPT !.st = st].exports = row.exports
                   /\ [row EXCEPT !.st = st].audit = row.audit
        /\ \A st, card : [row EXCEPT !.st = st, !.card = card].exports = row.exports
                         /\ [row EXCEPT !.st = st, !.card = card].audit = row.audit
        /\ [row EXCEPT !.st = "running", !.eligible = FALSE].exports = row.exports
        /\ [row EXCEPT !.st = "running", !.eligible = FALSE].audit = row.audit
    BY <1>1 DEF Row
  <2>4. row.st \in Status
    BY <1>1, RowFields
  <2>5. \/ \E st : new = [row EXCEPT !.st = st]
        \/ \E st, card : new = [row EXCEPT !.st = st, !.card = card]
        \/ new = [row EXCEPT !.st = "running", !.eligible = FALSE]
        \/ \E source : new = Opened(row, source)
    BY <2>4 DEF Moved, RequestConfirm, Status
  <2>6. new.exports = row.exports /\ new.audit = row.audit
    <3>1. CASE \E st : new = [row EXCEPT !.st = st]
      BY <2>3, <3>1
    <3>2. CASE \E st, card : new = [row EXCEPT !.st = st, !.card = card]
      BY <2>3, <3>2
    <3>3. CASE \E source : new = Opened(row, source)
      BY <2>2, <3>3
    <3>4. QED BY <2>3, <2>5, <3>1, <3>2, <3>3
  <2>7. QED BY <1>2, <2>1, <2>6
<1>5. QED BY <1>2, <1>3, <1>4

\* Whoever read the row before follows it no more.
LEMMA WrittenFollows ==
  ASSUME Inv, StepInv, CommitRound \/ StopSearch \/ MoveResearch, Inv'
  PROVE  StepInv'
<1>1. /\ row'.exports = row.exports /\ revision' = revision + 1 /\ updatedAt' = revision + 1
      /\ auths' = auths /\ handler' = handler
  BY WrittenIs
<1>2. updatedAt \in Nat /\ revision \in Nat
  BY Numbers
<1>3. PICK s : s = row'
  OBVIOUS
<1>4. ASSUME NEW u \in Threads PROVE Follows(handler[u], s, revision + 1, revision + 1)
  <2>1. PICK g : g = handler[u]
    OBVIOUS
  <2>2. Follows(g, row, updatedAt, revision) /\ g.at \in Nat
    BY <2>1, Numbers DEF StepInv
  <2>3. PICK next \in Nat : next = revision + 1 /\ next > revision /\ revision <= next
    BY <1>2
  <2>4. Follows(g, s, next, next)
    BY <1>2, <2>2, <2>3, FollowsStays
  <2>5. QED BY <2>1, <2>3, <2>4
<1>5. Distinct(row')
  BY <1>1 DEF StepInv, Distinct
<1>6. QED BY <1>1, <1>2, <1>3, <1>4, <1>5 DEF StepInv

\* A client sends an export: it holds the row.
LEMMA StartFollows ==
  ASSUME Inv, StepInv, Inv', NEW t \in Threads, NEW c \in Exports, StartExport(t, c)
  PROVE  StepInv'
<1>1. PICK h : h = [IdleHandler(row) EXCEPT !.pc = "decide", !.cmd = c, !.at = updatedAt]
  OBVIOUS
<1>2. /\ h.pc = "decide" /\ h.snap = row /\ h.out = row /\ h.at = updatedAt
      /\ handler' = [handler EXCEPT ![t] = h]
      /\ UNCHANGED <<row, updatedAt, revision, auths>>
  BY <1>1 DEF StartExport, IdleHandler
<1>3. Follows(h, row, updatedAt, revision)
  BY <1>2, Numbers DEF Follows, StepInv, Alike
<1>4. QED BY <1>2, <1>3, ThreadMoves DEF StepInv

\* The bytes are built: the command goes on with the row it read.
LEMMA BuildFollows ==
  ASSUME Inv, StepInv, Inv', NEW t \in Threads, BuildPack(t)
  PROVE  StepInv'
<1>1. PICK g : g = handler[t]
  OBVIOUS
<1>2. PICK h : h = [g EXCEPT !.pc = "authorize"]
  OBVIOUS
<1>3. /\ handler' = [handler EXCEPT ![t] = h] /\ g.pc = "decide"
      /\ UNCHANGED <<row, updatedAt, revision, auths>>
  BY <1>1, <1>2 DEF BuildPack, Goto
<1>4. /\ h.pc = "authorize" /\ h.snap = g.snap /\ h.out = g.out /\ h.at = g.at
  BY <1>1, <1>2, Numbers DEF Handler
<1>5. Follows(g, row, updatedAt, revision)
  BY <1>1 DEF StepInv
<1>6. Follows(h, row, updatedAt, revision)
  BY <1>3, <1>4, <1>5 DEF Follows, Reading
<1>7. QED BY <1>3, <1>6, ThreadMoves DEF StepInv

\* A thread ends.
LEMMA EndFollows ==
  ASSUME Inv, StepInv, Inv', NEW t \in Threads, Ended(t),
         UNCHANGED <<row, updatedAt, revision, auths>>
  PROVE  StepInv'
  BY IdleFollows, ThreadMoves DEF Ended, StepInv

\* The bytes are authorized: no export of the row it read has its id.
LEMMA AuthorizeFollows ==
  ASSUME Inv, StepInv, Inv', NEW t \in Threads, Authorize(t)
  PROVE  StepInv'
<1>1. PICK g : g = handler[t]
  OBVIOUS
<1>2. CASE Ended(t) /\ UNCHANGED auths
  BY <1>2, EndFollows DEF Authorize
<1>3. ASSUME NEW file, g.cmd \notin AuthIds,
             auths' = Append(auths, [id |-> g.cmd, print |-> file, receipt |-> Record(t)]),
             handler' = [handler EXCEPT ![t].pc = "rename", ![t].print = file]
      PROVE  StepInv'
  <2>1. PICK h : h = [g EXCEPT !.pc = "rename", !.print = file]
    OBVIOUS
  <2>2. handler' = [handler EXCEPT ![t] = h] /\ UNCHANGED <<row, updatedAt, revision>>
    BY <1>1, <1>3, <2>1 DEF Authorize
  <2>3. /\ h.pc = "rename" /\ h.snap = g.snap /\ h.out = g.out /\ h.at = g.at /\ h.cmd = g.cmd
    BY <1>1, <2>1, Numbers DEF Handler
  <2>4. g.pc = "authorize" /\ Follows(g, row, updatedAt, revision)
    BY <1>1 DEF Authorize, StepInv
  <2>5. \A e \in g.snap.exports : e.id # g.cmd
    BY <1>1, <1>3 DEF Inv, HandlersInv, GoodHandler, Listed, AuthIds
  <2>6. Follows(h, row, updatedAt, revision)
    BY <2>3, <2>4, <2>5 DEF Follows, Reading
  <2>7. \A i \in DOMAIN auths' : ~auths'[i].receipt.overturned
    <3>1. PICK a : a = [id |-> g.cmd, print |-> file, receipt |-> Record(t)]
      OBVIOUS
    <3>2. auths \in Seq(Authorization) /\ auths' = Append(auths, a)
      BY <1>3, <3>1 DEF Inv, TablesInv
    <3>3. ~a.receipt.overturned
      BY <3>1 DEF Record
    <3>4. \A i \in DOMAIN auths' : (i \in DOMAIN auths /\ auths'[i] = auths[i]) \/ auths'[i] = a
      BY <3>2
    <3>5. QED BY <3>3, <3>4 DEF StepInv
  <2>8. QED BY <2>2, <2>6, <2>7, ThreadMoves
<1>4. QED BY <1>1, <1>2, <1>3 DEF Authorize

\* What a row lists with more that is not marked.
LEMMA WithMore ==
  ASSUME NEW r \in Row, NEW more, \A e \in more : ~e.overturned,
         Distinct(r), NEW out, out = [r EXCEPT !.exports = @ \cup more],
         \A e, f \in more : e.id = f.id => e = f,
         \A e \in more, f \in r.exports : e.id # f.id
  PROVE  /\ Alike(out, r) /\ Distinct(out)
         /\ out.exports = r.exports \cup more
<1>1. /\ out.exports = r.exports \cup more
      /\ out.st = r.st /\ out.card = r.card /\ out.round = r.round /\ out.rounds = r.rounds
      /\ out.reverified = r.reverified /\ out.audit = r.audit
  BY DEF Row
<1>2. Marked(out) = Marked(r)
  BY <1>1 DEF Marked
<1>3. Distinct(out)
  <2>1. SUFFICES ASSUME NEW e \in out.exports, NEW f \in out.exports, e.id = f.id
                 PROVE  e = f
    BY DEF Distinct
  <2>2. QED BY <1>1, <2>1 DEF Distinct
<1>4. QED BY <1>1, <1>2, <1>3 DEF Alike

\* A handler that is about to save the row it read with more listed.
LEMMA SavesMore ==
  ASSUME Inv, StepInv, NEW g, NEW h, NEW at, NEW rev,
         Follows(g, row, at, rev), g.pc \in Reading,
         h.pc = "save", h.snap = g.snap, h.at = g.at,
         Alike(h.out, g.snap), Distinct(h.out), g.snap.exports \subseteq h.out.exports
  PROVE  Follows(h, row, at, rev)
<1>1. h.at <= rev /\ Distinct(h.snap)
  BY DEF Follows, Reading
<1>2. ASSUME h.at = at PROVE Alike(h.out, row)
  BY <1>2 DEF Follows, Alike
<1>3. ASSUME h.at = at PROVE Marked(row) \subseteq h.out.exports /\ MarksNew(row, h.out)
  BY <1>2, <1>3 DEF Alike, Marked, MarksNew
<1>4. QED BY <1>1, <1>2, <1>3 DEF Follows, Reading

\* The visible pack is about to be listed.
LEMMA RenameFollows ==
  ASSUME Inv, StepInv, Inv', NEW t \in Threads, Rename(t)
  PROVE  StepInv'
<1>1. PICK g : g = handler[t]
  OBVIOUS
<1>2. PICK out : out = [g.snap EXCEPT !.exports = @ \cup {Record(t)}]
  OBVIOUS
<1>3. PICK h : h = [g EXCEPT !.pc = "save", !.keeps = FALSE, !.out = out]
  OBVIOUS
<1>4. /\ UNCHANGED <<row, updatedAt, revision, auths>> /\ g.pc = "rename"
      /\ Ended(t) \/ handler' = [handler EXCEPT ![t] = h]
  BY <1>1, <1>2, <1>3 DEF Rename
<1>5. CASE Ended(t)
  BY <1>4, <1>5, EndFollows
<1>6. CASE handler' = [handler EXCEPT ![t] = h]
  <2>1. h.pc = "save" /\ h.snap = g.snap /\ h.at = g.at /\ h.out = out
    BY <1>1, <1>3, Numbers DEF Handler
  <2>2. Follows(g, row, updatedAt, revision) /\ g.snap \in Row
    BY <1>1, Numbers DEF StepInv
  <2>3. ~Record(t).overturned /\ Record(t).id = g.cmd
    BY <1>1 DEF Record
  <2>4. Distinct(g.snap) /\ \A f \in g.snap.exports : Record(t).id # f.id
    BY <1>4, <2>2, <2>3 DEF Follows
  <2>5. PICK more : more = {Record(t)}
    OBVIOUS
  <2>6. /\ \A e \in more : ~e.overturned
        /\ \A e, f \in more : e.id = f.id => e = f
        /\ \A e \in more, f \in g.snap.exports : e.id # f.id
    BY <2>3, <2>4, <2>5
  <2>7. Alike(out, g.snap) /\ Distinct(out) /\ g.snap.exports \subseteq out.exports
    <3>1. out = [g.snap EXCEPT !.exports = @ \cup more]
      BY <1>2, <2>5
    <3>2. g.snap \in Row /\ Distinct(g.snap)
      BY <2>2, <2>4
    <3>3. Alike(out, g.snap) /\ Distinct(out) /\ out.exports = g.snap.exports \cup more
      BY <2>6, <3>1, <3>2, WithMore
    <3>4. QED BY <3>3
  <2>8. Follows(h, row, updatedAt, revision)
    BY <1>4, <2>1, <2>2, <2>7, SavesMore DEF Reading
  <2>9. QED BY <1>4, <1>6, <2>8, ThreadMoves DEF StepInv
<1>7. QED BY <1>4, <1>5, <1>6

\* What recovery lists is not listed, and one for each command.
LEMMA MissingIs ==
  ASSUME Inv, StepInv, NEW r, NEW done, done \subseteq {auths[i] : i \in DOMAIN auths}
  PROVE  LET more == Missing(r, done)
         IN  /\ \A e \in more : /\ ~e.overturned /\ e.id \notin ExportIds(r)
                                /\ \E i \in DOMAIN auths : auths[i].id = e.id /\ auths[i].receipt = e
             /\ \A e, f \in more : e.id = f.id => e = f
<1>1. PICK more : more = Missing(r, done)
  OBVIOUS
<1>2. FilesOk(auths, private, visible)
  BY DEF Inv, FilesInv
<1>3. ASSUME NEW e \in more
      PROVE  \E i \in DOMAIN auths : /\ auths[i].id = e.id /\ auths[i].receipt = e
                                     /\ auths[i].id \notin ExportIds(r)
  <2>1. PICK a \in done : a.receipt = e /\ a.id \notin ExportIds(r)
    BY <1>1, <1>3 DEF Missing
  <2>2. PICK i \in DOMAIN auths : auths[i] = a
    BY <2>1
  <2>3. QED BY <1>2, <2>1, <2>2 DEF FilesOk
<1>4. \A e \in more : ~e.overturned /\ e.id \notin ExportIds(r)
  BY <1>3 DEF StepInv
<1>5. \A e, f \in more : e.id = f.id => e = f
  BY <1>2, <1>3 DEF FilesOk
<1>6. QED BY <1>1, <1>3, <1>4, <1>5

\* What a recovery found is about to be listed.
LEMMA RecoverFollows ==
  ASSUME Inv, StepInv, Inv', NEW t \in Threads, Recover(t)
  PROVE  StepInv'
<1>1. PICK g : g = handler[t]
  OBVIOUS
<1>2. /\ UNCHANGED <<row, updatedAt, revision, auths>> /\ g.pc = "decide"
      /\ \/ Ended(t)
         \/ \E done : /\ done \subseteq {auths[i] : i \in DOMAIN auths}
                      /\ handler' = [handler EXCEPT
                            ![t].pc = "save", ![t].keeps = TRUE,
                            ![t].out = [g.snap EXCEPT !.exports = @ \cup Missing(g.snap, done)]]
  <2> DEFINE Intact(i) == \A j \in 1..i : Restorable(auths[j])
             done == {auths[i] : i \in {j \in DOMAIN auths : Intact(j)}}
  <2>1. done \subseteq {auths[i] : i \in DOMAIN auths}
    OBVIOUS
  <2>2. \/ Ended(t)
        \/ handler' = [handler EXCEPT
              ![t].pc = "save", ![t].keeps = TRUE,
              ![t].out = [g.snap EXCEPT !.exports = @ \cup Missing(g.snap, done)]]
    BY <1>1 DEF Recover
  <2>3. UNCHANGED <<row, updatedAt, revision, auths>> /\ g.pc = "decide"
    BY <1>1 DEF Recover
  <2> HIDE DEF done
  <2>4. QED BY <2>1, <2>2, <2>3
<1>3. CASE Ended(t)
  BY <1>2, <1>3, EndFollows
<1>4. ASSUME NEW done, done \subseteq {auths[i] : i \in DOMAIN auths},
             handler' = [handler EXCEPT
                ![t].pc = "save", ![t].keeps = TRUE,
                ![t].out = [g.snap EXCEPT !.exports = @ \cup Missing(g.snap, done)]]
      PROVE  StepInv'
  <2>1. PICK more : more = Missing(g.snap, done)
    OBVIOUS
  <2>2. PICK out : out = [g.snap EXCEPT !.exports = @ \cup more]
    OBVIOUS
  <2>3. PICK h : h = [g EXCEPT !.pc = "save", !.keeps = TRUE, !.out = out]
    OBVIOUS
  <2>4. handler' = [handler EXCEPT ![t] = h]
    BY <1>1, <1>4, <2>1, <2>2, <2>3
  <2>5. h.pc = "save" /\ h.snap = g.snap /\ h.at = g.at /\ h.out = out
    BY <1>1, <2>3, Numbers DEF Handler
  <2>6. Follows(g, row, updatedAt, revision) /\ g.snap \in Row /\ Distinct(g.snap)
    BY <1>1, Numbers DEF StepInv, Follows
  <2>7. /\ \A e \in more : ~e.overturned /\ e.id \notin ExportIds(g.snap)
        /\ \A e, f \in more : e.id = f.id => e = f
    BY <1>4, <2>1, MissingIs
  <2>8. Alike(out, g.snap) /\ Distinct(out) /\ g.snap.exports \subseteq out.exports
    BY <2>2, <2>6, <2>7, WithMore DEF ExportIds
  <2>9. Follows(h, row, updatedAt, revision)
    BY <1>2, <2>5, <2>6, <2>8, SavesMore DEF Reading
  <2>10. QED BY <1>2, <2>4, <2>9, ThreadMoves DEF StepInv
<1>5. QED BY <1>2, <1>3, <1>4

\* What a re-verification makes of a row: the marks stay, and a failure marks
\* the packs of its round.
LEMMA ReverifiedIs ==
  ASSUME NEW r \in Row, NEW v \in Reverification, Distinct(r), NEW out, out = Reverified(r, v)
  PROVE  Distinct(out) /\ Marked(r) \subseteq out.exports /\ MarksNew(r, out)
<1>1. PICK with : with = [r EXCEPT !.reverified = r.reverified \cup {v}, !.audit = r.audit \cup {v}]
  OBVIOUS
<1>2. with \in Row /\ with.exports = r.exports /\ with.audit = r.audit \cup {v}
  BY <1>1 DEF Row
<1>3. CASE v.passed
  <2>1. out = with
    BY <1>1, <1>3 DEF Reverified
  <2>2. QED BY <1>2, <1>3, <2>1 DEF Distinct, Marked, MarksNew
<1>4. CASE ~v.passed
  <2>1. PICK dep : dep = [e \in r.exports |-> e.overturned \/ Depends(with, e, v)]
    OBVIOUS
  <2>2. \A e \in r.exports : /\ dep[e] \in BOOLEAN
                             /\ e.overturned => dep[e]
                             /\ e.kind = "pack" /\ v.method = "builtin" /\ e.round = v.round => dep[e]
    BY <2>1 DEF Depends
  <2>3. out = [with EXCEPT !.exports = {[e EXCEPT !.overturned = dep[e]] : e \in r.exports},
                           !.eligible = with.eligible /\ v.round # with.round]
    BY <1>1, <1>2, <1>4, <2>1 DEF Reverified, MarkOverturned
  <2>4. /\ out.exports = {[e EXCEPT !.overturned = dep[e]] : e \in r.exports}
        /\ out.audit = r.audit \cup {v}
    BY <1>2, <2>3 DEF Row
  <2>5. \A e \in r.exports : LET m == [e EXCEPT !.overturned = dep[e]]
                             IN  /\ m.id = e.id /\ m.kind = e.kind /\ m.round = e.round
                                 /\ m.overturned = dep[e] /\ (e.overturned => m = e)
    <3>1. SUFFICES ASSUME NEW e \in Export, NEW b \in BOOLEAN
                   PROVE  LET m == [e EXCEPT !.overturned = b]
                          IN  /\ m.id = e.id /\ m.kind = e.kind /\ m.round = e.round
                              /\ m.overturned = b /\ (e.overturned /\ b => m = e)
      BY <2>2, RowFields
    <3>2. QED BY DEF Export
  <2>6. Distinct(out)
    <3>1. SUFFICES ASSUME NEW m \in out.exports, NEW n \in out.exports, m.id = n.id
                   PROVE  m = n
      BY DEF Distinct
    <3>2. PICK e \in r.exports : m = [e EXCEPT !.overturned = dep[e]]
      BY <2>4
    <3>3. PICK f \in r.exports : n = [f EXCEPT !.overturned = dep[f]]
      BY <2>4
    <3>4. e.id = f.id
      BY <2>5, <3>1, <3>2, <3>3
    <3>5. e = f
      BY <3>4 DEF Distinct
    <3>6. QED BY <3>2, <3>3, <3>5
  <2>7. Marked(r) \subseteq out.exports
    BY <2>4, <2>5 DEF Marked
  <2>8. MarksNew(r, out)
    <3>1. SUFFICES ASSUME NEW m \in out.exports, m.kind = "pack", v.method = "builtin",
                          m.round = v.round
                   PROVE  m.overturned
      BY <2>4 DEF MarksNew
    <3>2. PICK e \in r.exports : m = [e EXCEPT !.overturned = dep[e]]
      BY <2>4
    <3>3. e.kind = "pack" /\ e.round = v.round /\ m.overturned = dep[e]
      BY <2>5, <3>1, <3>2
    <3>4. QED BY <2>2, <3>1, <3>3
  <2>9. QED BY <2>6, <2>7, <2>8
<1>5. v.passed \in BOOLEAN
  BY DEF Reverification
<1>6. QED BY <1>3, <1>4, <1>5

\* The outcome of a re-verification is about to be saved.
LEMMA ReverifyFollows ==
  ASSUME Inv, StepInv, Inv', NEW t \in Threads, Reverify(t)
  PROVE  StepInv'
<1>1. PICK v \in Reverification :
         handler' = [handler EXCEPT ![t] =
            [IdleHandler(row) EXCEPT !.pc = "save", !.at = updatedAt,
                                     !.out = Reverified(row, v)]]
  BY DEF Reverify
<1>2. PICK out : out = Reverified(row, v)
  OBVIOUS
<1>3. PICK h : h = [IdleHandler(row) EXCEPT !.pc = "save", !.at = updatedAt, !.out = out]
  OBVIOUS
<1>4. h.pc = "save" /\ h.snap = row /\ h.at = updatedAt /\ h.out = out /\ h.keeps = FALSE
  BY <1>3 DEF IdleHandler
<1>5. Distinct(out) /\ Marked(row) \subseteq out.exports /\ MarksNew(row, out)
  BY <1>2, Numbers, ReverifiedIs DEF StepInv
<1>6. Follows(h, row, updatedAt, revision)
  BY <1>4, <1>5, Numbers DEF Follows, StepInv, Reading
<1>7. handler' = [handler EXCEPT ![t] = h] /\ UNCHANGED <<row, updatedAt, revision, auths>>
  BY <1>1, <1>2, <1>3 DEF Reverify
<1>8. QED BY <1>6, <1>7, ThreadMoves DEF StepInv

\* A refused pack writes back the row it read, under the updated_at it read.
LEMMA RefuseFollows ==
  ASSUME Inv, StepInv, Inv', NEW t \in Threads, Refuse(t)
  PROVE  StepInv'
<1>1. PICK g : g = handler[t]
  OBVIOUS
<1>2. Ended(t) /\ UNCHANGED <<updatedAt, auths>> /\ g.pc = "decide"
  BY <1>1 DEF Refuse
<1>3. CASE UNCHANGED <<row, revision>>
  BY <1>2, <1>3, EndFollows
<1>4. CASE updatedAt = g.at /\ row' = g.snap /\ revision' = revision + 1
  <2>1. Follows(g, row, updatedAt, revision)
    BY <1>1 DEF StepInv
  <2>2. Alike(row', row) /\ Distinct(row')
    BY <1>2, <1>4, <2>1 DEF Follows, Reading
  <2>3. revision <= revision' /\ updatedAt' <= revision'
    BY <1>2, <1>4, Numbers DEF StepInv
  <2>4. QED BY <1>2, <2>2, <2>3, IdleFollows, StepMoves DEF Ended, StepInv
<1>5. QED BY <1>1, <1>3, <1>4 DEF Refuse

\* A handler saves: under a new updated_at, or the same row with more listed.
LEMMA SaveFollows ==
  ASSUME Inv, StepInv, Inv', NEW t \in Threads, Save(t)
  PROVE  StepInv'
<1>1. PICK g : g = handler[t]
  OBVIOUS
<1>2. /\ Ended(t) /\ auths' = auths /\ g.pc = "save" /\ updatedAt = g.at
      /\ row' = g.out /\ revision' = revision + 1
      /\ updatedAt' = IF g.keeps THEN updatedAt ELSE revision + 1
  BY <1>1 DEF Save, Fits
<1>3. Follows(g, row, updatedAt, revision)
  BY <1>1 DEF StepInv
<1>4. Distinct(row') /\ (g.keeps => Alike(row', row))
  BY <1>2, <1>3 DEF Follows
<1>5. /\ revision <= revision' /\ updatedAt' <= revision'
      /\ updatedAt' = updatedAt \/ updatedAt' > revision
      /\ ~g.keeps => updatedAt' > revision
  BY <1>2, Numbers DEF StepInv
<1>6. (updatedAt' = updatedAt /\ Alike(row', row)) \/ updatedAt' > revision
  BY <1>2, <1>4, <1>5
<1>7. QED BY <1>2, <1>4, <1>5, <1>6, IdleFollows, StepMoves DEF Ended, StepInv

\* The process dies.
LEMMA CrashFollows ==
  ASSUME StepInv, Crash
  PROVE  StepInv'
<1>1. PICK i : i = IdleHandler(NewRow("licensed"))
  OBVIOUS
<1>2. /\ UNCHANGED <<row, updatedAt, revision, auths>>
      /\ \A t \in Threads : handler'[t] = i
  BY <1>1 DEF Crash
<1>3. Follows(i, row, updatedAt, revision)
  BY <1>1, IdleFollows
<1>4. QED BY <1>2, <1>3 DEF StepInv

\* Every step keeps what the handlers hold.
LEMMA StepNext == Inv /\ Inv' /\ StepInv /\ [Next]_vars => StepInv'
<1> SUFFICES ASSUME Inv, Inv', StepInv, [Next]_vars PROVE StepInv'
  OBVIOUS
<1>1. CASE UNCHANGED vars
  BY <1>1 DEF vars, StepInv
<1>2. ASSUME NEW t \in Threads, Export_(t) PROVE StepInv'
  <2>1. CASE SaveLost(t)
    BY <2>1, EndFollows DEF SaveLost
  <2>2. QED BY <1>2, <2>1, StartFollows, BuildFollows, AuthorizeFollows, RenameFollows,
                RecoverFollows, RefuseFollows, SaveFollows DEF Export_
<1>3. QED BY <1>1, <1>2, WrittenFollows, ReverifyFollows, CrashFollows DEF Next

\* When the first round is committed nothing is listed and nobody reads.
LEMMA StepInit == Init => StepInv
<1> SUFFICES ASSUME Init PROVE StepInv
  OBVIOUS
<1>1. row.exports = {}
  BY DEF Init, NewRow
<1>2. Distinct(row) /\ updatedAt <= revision /\ DOMAIN auths = {}
  BY <1>1 DEF Init, Distinct
<1>3. QED BY <1>2, IdleFollows DEF Init, StepInv

\* What a step makes of the row.
LEMMA RowSteps ==
  ASSUME Inv, StepInv, [Next]_vars
  PROVE  Distinct(row') /\ Marked(row) \subseteq row'.exports /\ MarksNew(row, row')
<1>1. ASSUME row' = row PROVE Distinct(row') /\ Marked(row) \subseteq row'.exports /\ MarksNew(row, row')
  BY <1>1 DEF StepInv, Marked, MarksNew
<1>2. CASE CommitRound \/ StopSearch \/ MoveResearch
  <2>1. row'.exports = row.exports /\ row'.audit = row.audit
    BY <1>2, WrittenIs
  <2>2. QED BY <2>1 DEF StepInv, Distinct, Marked, MarksNew
<1>3. ASSUME NEW t \in Threads, Save(t)
      PROVE  Distinct(row') /\ Marked(row) \subseteq row'.exports /\ MarksNew(row, row')
  <2>1. PICK g : g = handler[t]
    OBVIOUS
  <2>2. g.pc = "save" /\ g.at = updatedAt /\ row' = g.out
    BY <1>3, <2>1 DEF Save, Fits
  <2>3. Follows(g, row, updatedAt, revision)
    BY <2>1 DEF StepInv
  <2>4. QED BY <2>2, <2>3 DEF Follows
<1>4. ASSUME NEW t \in Threads, Refuse(t)
      PROVE  Distinct(row') /\ Marked(row) \subseteq row'.exports /\ MarksNew(row, row')
  <2>1. PICK g : g = handler[t]
    OBVIOUS
  <2>2. CASE row' = row
    BY <1>1, <2>2
  <2>3. CASE g.pc = "decide" /\ g.at = updatedAt /\ row' = g.snap
    <3>1. Follows(g, row, updatedAt, revision)
      BY <2>1 DEF StepInv
    <3>2. Alike(g.snap, row) /\ Distinct(g.snap)
      BY <2>3, <3>1 DEF Follows, Reading
    <3>3. QED BY <2>3, <3>2 DEF Alike, Marked, MarksNew
  <2>4. QED BY <1>4, <2>1, <2>2, <2>3 DEF Refuse
<1>5. ASSUME NEW t \in Threads, Export_(t)
      PROVE  Save(t) \/ Refuse(t) \/ row' = row
  BY <1>5 DEF Export_, StartExport, BuildPack, Authorize, Rename, Recover, SaveLost
<1>6. (\E t \in Threads : Reverify(t)) \/ Crash => row' = row
  BY DEF Reverify, Crash
<1>7. UNCHANGED vars => row' = row
  BY DEF vars
<1>8. QED BY <1>1, <1>2, <1>3, <1>4, <1>5, <1>6, <1>7 DEF Next

(* An export once marked stays listed and marked, however many handlers save *)
(* rows they read before and whatever a recovery brings back                *)
(* (publish.py:126, main.py:1806).                                          *)
THEOREM OverturnedForGoodAlways == Spec => OverturnedForGood
<1>1. ASSUME Inv, StepInv, [Next]_vars
      PROVE  \A e \in row.exports : e.overturned =>
                /\ e.id \in ExportIds(row')
                /\ \A f \in row'.exports : f.id = e.id => f.overturned
  <2>1. SUFFICES ASSUME NEW e \in row.exports, e.overturned
                 PROVE  /\ e.id \in ExportIds(row')
                        /\ \A f \in row'.exports : f.id = e.id => f.overturned
    OBVIOUS
  <2>2. e \in row'.exports /\ Distinct(row')
    BY <1>1, <2>1, RowSteps DEF Marked
  <2>3. QED BY <2>1, <2>2 DEF ExportIds, Distinct
<1>2. QED BY <1>1, StepInit, StepNext, Invariance, PTL DEF Spec, OverturnedForGood

(* A failed re-verification by a built-in method marks every pack of its    *)
(* round that is listed when the failure is stored (export.py:306).         *)
THEOREM FailureMarksAlways == Spec => FailureMarks
<1>1. ASSUME Inv, StepInv, [Next]_vars
      PROVE  \A v \in row'.audit \ row.audit, e \in row'.exports :
                e.kind = "pack" /\ v.method = "builtin" /\ ~v.passed /\ e.round = v.round
                  => e.overturned
  BY <1>1, RowSteps DEF MarksNew
<1>2. QED BY <1>1, StepInit, StepNext, Invariance, PTL DEF Spec, FailureMarks

-----------------------------------------------------------------------------
(* A command lists what it was sent for                                    *)

\* Rows that are alike are packs alike.
LEMMA AlikeEligible ==
  ASSUME NEW r, NEW s, Alike(r, s)
  PROVE  (Eligible(r) <=> Eligible(s)) /\ r.round = s.round
  BY DEF Alike, Eligible, AllCurrentReverifiesPassed

\* A command goes on owning its export when another step writes the row.
LEMMA OwnsStays ==
  ASSUME NEW h, NEW r, NEW s, NEW at \in Nat, NEW bt \in Nat, NEW rev \in Nat, NEW ids,
         NEW exp, exp[h.cmd] <= rev, h.at \in Nat, h.pc # "idle" => h.at <= rev,
         (bt = at /\ Alike(s, r)) \/ bt > rev,
         Owns(h, r, at, rev, exp, ids)
  PROVE  Owns(h, s, bt, rev + 1, exp, ids)
<1>1. exp[h.cmd] # rev + 1
  OBVIOUS
<1>2. CASE h.pc = "save" /\ h.at = bt /\ h.cmd \notin Journaled
  <2>1. h.at = at /\ Alike(s, r)
    BY <1>2
  <2>2. \A e \in h.out.exports : e.kind = "pack" /\ e.id = h.cmd => Eligible(r) /\ e.round = r.round
    BY <1>2, <2>1 DEF Owns
  <2>3. \A e \in h.out.exports : e.kind = "pack" /\ e.id = h.cmd => Eligible(s) /\ e.round = s.round
    BY <2>1, <2>2, AlikeEligible
  <2>4. QED BY <1>1, <1>2, <2>3 DEF Owns, Reading
<1>3. CASE ~(h.pc = "save" /\ h.at = bt /\ h.cmd \notin Journaled)
  BY <1>1, <1>3 DEF Owns
<1>4. QED BY <1>2, <1>3


\* A thread that has ended runs no command.
LEMMA EndedRuns ==
  IdleHandler(NewRow("licensed")).cmd = "none" /\ "none" \notin Exports
  BY PublicationAssumption DEF IdleHandler

\* The row is written, and a thread may end.
LEMMA OwnWritten ==
  ASSUME Inv, StepInv, OwnInv, revision' = revision + 1, UNCHANGED <<auths, expects>>,
         \A u \in Threads : handler'[u] = handler[u] \/ handler'[u].cmd = "none",
         (updatedAt' = updatedAt /\ Alike(row', row)) \/ updatedAt' = revision + 1
  PROVE  OwnInv'
<1>1. updatedAt \in Nat /\ revision \in Nat /\ updatedAt' \in Nat
  BY Numbers
<1>2. AuthIds' = AuthIds
  BY DEF AuthIds
<1>3. PICK s, bt, next : s = row' /\ bt = updatedAt' /\ next = revision + 1
  OBVIOUS
<1>4. ASSUME NEW u \in Threads, handler'[u].cmd \in Exports
      PROVE  Owns(handler'[u], s, bt, next, expects, AuthIds)
  <2>1. handler'[u] = handler[u]
    BY <1>4, EndedRuns
  <2>2. PICK g : g = handler[u]
    OBVIOUS
  <2>3. g.at \in Nat /\ (g.pc # "idle" => g.at <= revision)
    BY <2>2, Numbers DEF StepInv, Follows
  <2>4. Owns(g, row, updatedAt, revision, expects, AuthIds) /\ expects[g.cmd] <= revision
    BY <1>4, <2>1, <2>2 DEF OwnInv
  <2>5. (bt = updatedAt /\ Alike(s, row)) \/ bt > revision
    BY <1>1, <1>3
  <2>6. bt \in Nat
    BY <1>1, <1>3
  <2>7. Owns(g, s, bt, next, expects, AuthIds)
    BY <1>1, <1>3, <2>3, <2>4, <2>5, <2>6, OwnsStays
  <2>8. QED BY <2>1, <2>2, <2>7
<1>5. \A t \in Threads : handler'[t].cmd \in Exports =>
          Owns(handler'[t], row', updatedAt', revision', expects', AuthIds')
  BY <1>2, <1>3, <1>4
<1>6. \A c \in Exports : expects[c] <= revision + 1 /\ expects[c] # revision + 1
  <2>1. expects \in [Exports -> {Never} \cup Nat]
    BY DEF Inv, TablesInv
  <2>2. \A c \in Exports : expects[c] \in Int /\ expects[c] <= revision
    BY <2>1 DEF OwnInv, Never
  <2>3. QED BY <1>1, <2>2
<1>7. ASSUME NEW i \in DOMAIN auths PROVE GivenFor(auths[i], s, next, expects)
  <2>1. auths[i].id \in Exports
    BY PrintIsAFile DEF Inv, TablesInv
  <2>2. QED BY <1>3, <1>6, <2>1 DEF OwnInv, GivenFor
<1>8. \A t, u \in Threads :
         handler'[t].cmd = handler'[u].cmd /\ handler'[t].cmd \in Exports \ Journaled => t = u
  BY EndedRuns DEF OwnInv
<1>9. QED BY <1>3, <1>5, <1>6, <1>7, <1>8 DEF OwnInv

\* A thread goes on with its command, or ends; nothing is authorized.
LEMMA OwnMoves ==
  ASSUME Inv, OwnInv, NEW t \in Threads, NEW h, handler' = [handler EXCEPT ![t] = h],
         UNCHANGED <<row, updatedAt, revision, auths, expects>>,
         h.cmd = "none" \/ (/\ h.cmd = handler[t].cmd
                            /\ h.cmd \in Exports =>
                                 Owns(h, row, updatedAt, revision, expects, AuthIds))
  PROVE  OwnInv'
<1>1. AuthIds' = AuthIds
  BY DEF AuthIds
<1>2. \A u \in Threads : handler'[u] = IF u = t THEN h ELSE handler[u]
  BY Numbers
<1>3. \A u \in Threads : handler'[u].cmd \in Exports =>
          /\ handler'[u].cmd = handler[u].cmd
          /\ Owns(handler'[u], row, updatedAt, revision, expects, AuthIds)
  BY <1>2, EndedRuns DEF OwnInv
<1>4. \A u, v \in Threads :
         handler'[u].cmd = handler'[v].cmd /\ handler'[u].cmd \in Exports \ Journaled => u = v
  BY <1>3 DEF OwnInv
<1>5. QED BY <1>1, <1>3, <1>4 DEF OwnInv

\* A thread ends.
LEMMA EndOwns ==
  ASSUME Inv, OwnInv, NEW t \in Threads, Ended(t),
         UNCHANGED <<row, updatedAt, revision, auths, expects>>
  PROVE  OwnInv'
  BY EndedRuns, OwnMoves DEF Ended

\* A client that sends its command again expects what it expected before.
LEMMA StartOwns ==
  ASSUME ~Rereads, Inv, StepInv, OwnInv, NEW t \in Threads, NEW c \in Exports, StartExport(t, c)
  PROVE  OwnInv'
<1>1. PICK h : h = [IdleHandler(row) EXCEPT !.pc = "decide", !.cmd = c, !.at = updatedAt]
  OBVIOUS
<1>2. /\ h.pc = "decide" /\ h.snap = row /\ h.cmd = c /\ Sends(c)
      /\ handler' = [handler EXCEPT ![t] = h]
      /\ expects' = [expects EXCEPT ![c] = IF @ = Never THEN revision ELSE @]
      /\ UNCHANGED <<row, updatedAt, revision, auths>>
  <2>1. PICK again \in {FALSE, Rereads} :
           expects' = [expects EXCEPT ![c] = IF @ = Never \/ again THEN revision ELSE @]
    BY DEF StartExport
  <2>2. again = FALSE
    BY <2>1, PublicationAssumption
  <2>3. expects' = [expects EXCEPT ![c] = IF @ = Never THEN revision ELSE @]
    BY <2>1, <2>2
  <2>4. h.pc = "decide" /\ h.snap = row /\ h.cmd = c
    BY <1>1 DEF IdleHandler
  <2>5. QED BY <1>1, <2>3, <2>4 DEF StartExport
<1>3. expects \in [Exports -> {Never} \cup Nat] /\ revision \in Nat
  BY DEF Inv, TablesInv
<1>4. AuthIds' = AuthIds
  BY <1>2 DEF AuthIds
<1>5. /\ \A d \in Exports : expects[d] # Never => expects'[d] = expects[d]
      /\ \A d \in Exports : expects'[d] <= revision
      /\ expects'[c] # Never
  BY <1>2, <1>3 DEF OwnInv, Never
<1>6. \A i \in DOMAIN auths : auths[i].id \in Exports /\ expects[auths[i].id] # Never
  BY PrintIsAFile DEF Inv, TablesInv, OwnInv, GivenFor
<1>7. \A u \in Threads : handler[u].cmd \in Exports => expects[handler[u].cmd] # Never
  BY DEF OwnInv, Owns
<1>8. c \notin Journaled => expects[c] = Never
  BY <1>2 DEF Sends
<1>9. c \notin Journaled => c \notin AuthIds /\ \A u \in Threads : handler[u].cmd # c
  BY <1>6, <1>7, <1>8 DEF AuthIds
<1>10. Owns(h, row, updatedAt, revision, expects', AuthIds)
  BY <1>2, <1>5, <1>9 DEF Owns
<1>11. \A u \in Threads : handler'[u] = IF u = t THEN h ELSE handler[u]
  BY <1>2, Numbers
<1>12. ASSUME NEW u \in Threads, handler'[u].cmd \in Exports
       PROVE  Owns(handler'[u], row, updatedAt, revision, expects', AuthIds)
  <2>1. CASE u = t
    BY <1>10, <1>11, <2>1
  <2>2. CASE u # t
    <3>1. PICK g : g = handler[u] /\ g = handler'[u]
      BY <1>11, <2>2
    <3>2. Owns(g, row, updatedAt, revision, expects, AuthIds) /\ expects'[g.cmd] = expects[g.cmd]
      BY <1>5, <1>7, <1>12, <3>1 DEF OwnInv
    <3>3. Owns(g, row, updatedAt, revision, expects', AuthIds)
      BY <3>2 DEF Owns
    <3>4. QED BY <3>1, <3>3
  <2>3. QED BY <2>1, <2>2
<1>13. \A i \in DOMAIN auths : GivenFor(auths[i], row, revision, expects')
  BY <1>5, <1>6 DEF OwnInv, GivenFor
<1>14. \A u, v \in Threads :
         handler'[u].cmd = handler'[v].cmd /\ handler'[u].cmd \in Exports \ Journaled => u = v
  BY <1>2, <1>9, <1>11 DEF OwnInv
<1>15. QED BY <1>2, <1>4, <1>5, <1>12, <1>13, <1>14 DEF OwnInv

\* The bytes of a command are built: it was allowed them.
LEMMA BuildOwns ==
  ASSUME Inv, OwnInv, NEW t \in Threads, BuildPack(t)
  PROVE  OwnInv'
<1>1. PICK g : g = handler[t]
  OBVIOUS
<1>2. PICK h : h = [g EXCEPT !.pc = "authorize"]
  OBVIOUS
<1>3. /\ handler' = [handler EXCEPT ![t] = h] /\ g.pc = "decide"
      /\ UNCHANGED <<row, updatedAt, revision, auths, expects>>
      /\ g.cmd \in Packs => Eligible(g.snap)
  BY <1>1, <1>2 DEF BuildPack, Goto, Allowed
<1>4. /\ h.pc = "authorize" /\ h.snap = g.snap /\ h.cmd = g.cmd
  BY <1>1, <1>2, Numbers DEF Handler
<1>5. g.cmd \in Exports => Owns(g, row, updatedAt, revision, expects, AuthIds)
  BY <1>1 DEF OwnInv
<1>6. g.cmd \in Exports => Owns(h, row, updatedAt, revision, expects, AuthIds)
  BY <1>3, <1>4, <1>5 DEF Owns, Reading
<1>7. QED BY <1>1, <1>3, <1>4, <1>6, OwnMoves

\* The record of what is authorized is made of the row the command was sent for.
LEMMA AuthorizeOwns ==
  ASSUME Inv, StepInv, OwnInv, NEW t \in Threads, Authorize(t)
  PROVE  OwnInv'
<1>1. PICK g : g = handler[t]
  OBVIOUS
<1>2. /\ g.pc = "authorize" /\ g.cmd \in Exports
      /\ Owns(g, row, updatedAt, revision, expects, AuthIds)
      /\ UNCHANGED <<row, updatedAt, revision, expects>>
  BY <1>1 DEF Authorize, OwnInv, Inv, HandlersInv, GoodHandler, HandlerOk
<1>3. CASE Ended(t) /\ UNCHANGED auths
  BY <1>2, <1>3, EndOwns
<1>4. ASSUME NEW file, auths' = Append(auths, [id |-> g.cmd, print |-> file, receipt |-> Record(t)]),
             handler' = [handler EXCEPT ![t].pc = "rename", ![t].print = file]
      PROVE  OwnInv'
  <2>1. PICK h : h = [g EXCEPT !.pc = "rename", !.print = file]
    OBVIOUS
  <2>2. PICK a : a = [id |-> g.cmd, print |-> file, receipt |-> Record(t)]
    OBVIOUS
  <2>3. /\ handler' = [handler EXCEPT ![t] = h]
        /\ auths \in Seq(Authorization) /\ auths' = Append(auths, a)
    BY <1>1, <1>4, <2>1, <2>2 DEF Inv, TablesInv
  <2>4. h.pc = "rename" /\ h.snap = g.snap /\ h.cmd = g.cmd
    BY <1>1, <2>1, Numbers DEF Handler
  <2>5. GivenFor(a, row, revision, expects)
    <3>1. a.id = g.cmd /\ a.receipt = Record(t)
      BY <2>2
    <3>2. Record(t).round = g.snap.round /\ (Record(t).kind = "pack" => g.cmd \in Packs)
      BY <1>1 DEF Record
    <3>3. QED BY <1>2, <3>1, <3>2 DEF GivenFor, Owns, Reading
  <2>6. \A i \in DOMAIN auths' : (i \in DOMAIN auths /\ auths'[i] = auths[i]) \/ auths'[i] = a
    BY <2>3
  <2>7. \A i \in DOMAIN auths' : GivenFor(auths'[i], row, revision, expects)
    BY <2>5, <2>6 DEF OwnInv
  <2>8. AuthIds' \subseteq AuthIds \cup {g.cmd}
    BY <2>2, <2>6 DEF AuthIds
  <2>9. \A u \in Threads : handler'[u] = IF u = t THEN h ELSE handler[u]
    BY <2>3, Numbers
  <2>10. PICK ids : ids = AuthIds'
    OBVIOUS
  <2>11. ASSUME NEW u \in Threads, handler'[u].cmd \in Exports
         PROVE  Owns(handler'[u], row, updatedAt, revision, expects, ids)
    <3>1. CASE u = t
      <4>1. Owns(h, row, updatedAt, revision, expects, ids)
        BY <1>2, <2>4 DEF Owns, Reading
      <4>2. QED BY <2>9, <3>1, <4>1
    <3>2. CASE u # t
      <4>1. PICK f : f = handler[u] /\ f = handler'[u]
        BY <2>9, <3>2
      <4>2. Owns(f, row, updatedAt, revision, expects, AuthIds)
        BY <2>11, <4>1 DEF OwnInv
      <4>3. f.cmd \notin Journaled => f.cmd # g.cmd
        BY <1>1, <2>11, <3>2, <4>1 DEF OwnInv
      <4>4. Owns(f, row, updatedAt, revision, expects, ids)
        BY <2>8, <2>10, <4>2, <4>3 DEF Owns
      <4>5. QED BY <4>1, <4>4
    <3>3. QED BY <3>1, <3>2
  <2>12. \A u, v \in Threads :
           handler'[u].cmd = handler'[v].cmd /\ handler'[u].cmd \in Exports \ Journaled => u = v
    BY <1>1, <2>4, <2>9 DEF OwnInv
  <2>13. QED BY <1>2, <2>7, <2>10, <2>11, <2>12 DEF OwnInv
<1>5. QED BY <1>1, <1>3, <1>4 DEF Authorize

\* What a command is about to list under its own id.
LEMMA RenameOwns ==
  ASSUME Inv, StepInv, OwnInv, NEW t \in Threads, Rename(t)
  PROVE  OwnInv'
<1>1. PICK g : g = handler[t]
  OBVIOUS
<1>2. PICK out : out = [g.snap EXCEPT !.exports = @ \cup {Record(t)}]
  OBVIOUS
<1>3. PICK h : h = [g EXCEPT !.pc = "save", !.keeps = FALSE, !.out = out]
  OBVIOUS
<1>4. /\ UNCHANGED <<row, updatedAt, revision, auths, expects>> /\ g.pc = "rename"
      /\ Ended(t) \/ handler' = [handler EXCEPT ![t] = h]
  BY <1>1, <1>2, <1>3 DEF Rename
<1>5. /\ h.pc = "save" /\ h.at = g.at /\ h.out = out /\ h.cmd = g.cmd
      /\ out.exports = g.snap.exports \cup {Record(t)}
  BY <1>1, <1>2, <1>3, Numbers DEF Handler, Row
<1>6. Follows(g, row, updatedAt, revision)
  BY <1>1 DEF StepInv
<1>7. Record(t).round = g.snap.round /\ (Record(t).kind = "pack" => g.cmd \in Packs)
  BY <1>1 DEF Record
<1>8. ASSUME g.cmd \in Exports PROVE Owns(h, row, updatedAt, revision, expects, AuthIds)
  <2>1. Owns(g, row, updatedAt, revision, expects, AuthIds)
    BY <1>1, <1>8 DEF OwnInv
  <2>2. ASSUME NEW e \in out.exports, e.kind = "pack", e.id = g.cmd, g.at = updatedAt
        PROVE  Eligible(row) /\ e.round = row.round
    <3>1. e = Record(t)
      BY <1>4, <1>5, <1>6, <2>2 DEF Follows
    <3>2. Alike(g.snap, row)
      BY <1>4, <1>6, <2>2 DEF Follows, Reading
    <3>3. Eligible(g.snap)
      BY <1>4, <1>7, <2>1, <2>2, <3>1 DEF Owns
    <3>4. QED BY <1>7, <3>1, <3>2, <3>3, AlikeEligible
  <2>3. QED BY <1>5, <2>1, <2>2 DEF Owns, Reading
<1>9. QED BY <1>1, <1>4, <1>5, <1>8, EndOwns, OwnMoves

\* What a recovery is about to list under its own id.
LEMMA RecoverOwns ==
  ASSUME Inv, StepInv, OwnInv, NEW t \in Threads, Recover(t)
  PROVE  OwnInv'
<1>1. PICK g : g = handler[t]
  OBVIOUS
<1>2. \/ Ended(t)
      \/ \E done : /\ done \subseteq {auths[i] : i \in DOMAIN auths}
                   /\ handler' = [handler EXCEPT
                         ![t].pc = "save", ![t].keeps = TRUE,
                         ![t].out = [g.snap EXCEPT !.exports = @ \cup Missing(g.snap, done)]]
  <2> DEFINE Intact(i) == \A j \in 1..i : Restorable(auths[j])
             done == {auths[i] : i \in {j \in DOMAIN auths : Intact(j)}}
  <2>1. done \subseteq {auths[i] : i \in DOMAIN auths}
    OBVIOUS
  <2>2. \/ Ended(t)
        \/ handler' = [handler EXCEPT
              ![t].pc = "save", ![t].keeps = TRUE,
              ![t].out = [g.snap EXCEPT !.exports = @ \cup Missing(g.snap, done)]]
    BY <1>1 DEF Recover
  <2> HIDE DEF done
  <2>3. QED BY <2>1, <2>2
<1>3. /\ UNCHANGED <<row, updatedAt, revision, auths, expects>> /\ g.pc = "decide"
      /\ g.cmd \in AuthIds /\ (g.cmd \in Packs => Eligible(g.snap))
  BY <1>1 DEF Recover, Allowed
<1>4. ASSUME NEW done, done \subseteq {auths[i] : i \in DOMAIN auths},
             handler' = [handler EXCEPT
                ![t].pc = "save", ![t].keeps = TRUE,
                ![t].out = [g.snap EXCEPT !.exports = @ \cup Missing(g.snap, done)]]
      PROVE  OwnInv'
  <2>1. PICK more : more = Missing(g.snap, done)
    OBVIOUS
  <2>2. PICK out : out = [g.snap EXCEPT !.exports = @ \cup more]
    OBVIOUS
  <2>3. PICK h : h = [g EXCEPT !.pc = "save", !.keeps = TRUE, !.out = out]
    OBVIOUS
  <2>4. handler' = [handler EXCEPT ![t] = h]
    BY <1>1, <1>4, <2>1, <2>2, <2>3
  <2>5. /\ h.pc = "save" /\ h.at = g.at /\ h.out = out /\ h.cmd = g.cmd
        /\ out.exports = g.snap.exports \cup more
    BY <1>1, <2>2, <2>3, Numbers DEF Handler, Row
  <2>6. \A e \in more : \E i \in DOMAIN auths : auths[i].id = e.id /\ auths[i].receipt = e
    BY <1>4, <2>1, MissingIs
  <2>7. ASSUME g.cmd \in Exports PROVE Owns(h, row, updatedAt, revision, expects, AuthIds)
    <3>1. Owns(g, row, updatedAt, revision, expects, AuthIds)
      BY <1>1, <2>7 DEF OwnInv
    <3>2. g.cmd \in Journaled
      BY <1>3, <3>1 DEF Owns
    <3>3. ASSUME NEW e \in out.exports, e.kind = "pack", e.id = g.cmd,
                 expects[g.cmd] = revision, g.cmd \notin ExportIds(row)
          PROVE  Eligible(row) /\ e.round = row.round
      <4>1. g.snap = row
        BY <1>3, <3>1, <3>2, <3>3 DEF Owns, Reading
      <4>2. e \in more
        BY <2>5, <3>3, <4>1 DEF ExportIds
      <4>3. PICK i \in DOMAIN auths : auths[i].id = e.id /\ auths[i].receipt = e
        BY <2>6, <4>2
      <4>4. GivenFor(auths[i], row, revision, expects)
        BY DEF OwnInv
      <4>5. QED BY <1>3, <3>2, <3>3, <4>1, <4>3, <4>4 DEF GivenFor
    <3>4. QED BY <2>5, <3>1, <3>2, <3>3 DEF Owns, Reading
  <2>8. QED BY <1>1, <1>3, <2>4, <2>5, <2>7, OwnMoves
<1>5. QED BY <1>2, <1>3, <1>4, EndOwns

\* The steps that write the row.
LEMMA SaveOwns ==
  ASSUME Inv, StepInv, OwnInv, NEW t \in Threads, Save(t) \/ Refuse(t)
  PROVE  OwnInv'
<1>1. PICK g : g = handler[t]
  OBVIOUS
<1>2. Follows(g, row, updatedAt, revision)
  BY <1>1 DEF StepInv
<1>3. Ended(t) /\ UNCHANGED <<auths, expects>>
  BY DEF Save, Refuse
<1>4. \A u \in Threads : handler'[u] = handler[u] \/ handler'[u].cmd = "none"
  BY <1>3, Numbers, EndedRuns DEF Ended
<1>5. CASE Save(t)
  <2>1. /\ g.pc = "save" /\ updatedAt = g.at /\ row' = g.out /\ revision' = revision + 1
        /\ updatedAt' = IF g.keeps THEN updatedAt ELSE revision + 1
    BY <1>1, <1>5 DEF Save, Fits
  <2>2. g.keeps => Alike(row', row)
    BY <1>2, <2>1 DEF Follows
  <2>3. QED BY <1>3, <1>4, <2>1, <2>2, OwnWritten
<1>6. CASE Refuse(t) /\ UNCHANGED <<row, revision>>
  BY <1>3, <1>6, EndOwns DEF Refuse
<1>7. CASE /\ g.pc = "decide" /\ updatedAt = g.at /\ row' = g.snap /\ revision' = revision + 1
           /\ updatedAt' = updatedAt
  <2>1. Alike(row', row)
    BY <1>2, <1>7 DEF Follows, Reading
  <2>2. QED BY <1>3, <1>4, <1>7, <2>1, OwnWritten
<1>8. QED BY <1>1, <1>5, <1>6, <1>7 DEF Refuse

\* Every step keeps what the commands hold, when a client that sends a command
\* again sends it as it was.
LEMMA OwnNext == ~Rereads /\ Inv /\ StepInv /\ OwnInv /\ [Next]_vars => OwnInv'
<1> SUFFICES ASSUME ~Rereads, Inv, StepInv, OwnInv, [Next]_vars PROVE OwnInv'
  OBVIOUS
<1>1. CASE UNCHANGED vars
  BY <1>1 DEF vars, OwnInv, AuthIds
<1>2. CASE CommitRound \/ StopSearch \/ MoveResearch
  BY <1>2, WrittenIs, OwnWritten
<1>3. ASSUME NEW t \in Threads, Export_(t) PROVE OwnInv'
  <2>1. CASE SaveLost(t)
    BY <2>1, EndOwns DEF SaveLost
  <2>2. QED BY <1>3, <2>1, StartOwns, BuildOwns, AuthorizeOwns, RenameOwns, RecoverOwns,
                SaveOwns DEF Export_
<1>4. ASSUME NEW t \in Threads, Reverify(t) PROVE OwnInv'
  <2>1. PICK v, h : /\ h = [IdleHandler(row) EXCEPT !.pc = "save", !.at = updatedAt,
                                                    !.out = Reverified(row, v)]
                    /\ handler' = [handler EXCEPT ![t] = h]
    BY <1>4 DEF Reverify
  <2>2. h.cmd = "none"
    BY <2>1 DEF IdleHandler
  <2>3. QED BY <1>4, <2>1, <2>2, OwnMoves DEF Reverify
<1>5. CASE Crash
  <2>1. \A t \in Threads : handler'[t].cmd = "none"
    BY <1>5, EndedRuns DEF Crash
  <2>2. UNCHANGED <<row, updatedAt, revision, auths, expects>>
    BY <1>5 DEF Crash
  <2>3. QED BY <2>1, <2>2, EndedRuns DEF OwnInv
<1>6. QED BY <1>1, <1>2, <1>3, <1>4, <1>5 DEF Next

\* When the first round is committed no command was sent.
LEMMA OwnInit == Init => OwnInv
<1> SUFFICES ASSUME Init PROVE OwnInv
  OBVIOUS
<1>1. \A t \in Threads : handler[t].cmd = "none"
  BY EndedRuns DEF Init
<1>2. DOMAIN auths = {} /\ \A c \in Exports : expects[c] <= revision
  BY DEF Init, Never
<1>3. QED BY <1>1, <1>2, EndedRuns DEF OwnInv

(* A pack that its own command saves is eligible then and its round the     *)
(* conclusion, though it was decided, built and authorized steps before     *)
(* (publish.py:1), when a client that sends a command again sends the one   *)
(* it sent.                                                                 *)
THEOREM PackWasEligibleAlways == ~Rereads => (Spec => PackWasEligible)
<1> SUFFICES ASSUME ~Rereads PROVE Spec => PackWasEligible
  OBVIOUS
<1>1. ASSUME Inv, StepInv, OwnInv, [Next]_vars
      PROVE  \A e \in row'.exports, t \in Threads :
                /\ e.kind = "pack" /\ e.id \notin ExportIds(row)
                /\ handler[t].pc = "save"
                /\ handler[t].cmd = e.id /\ handler'[t].cmd # e.id
                => Eligible(row) /\ e.round = row.round
  <2>1. SUFFICES ASSUME NEW e \in row'.exports, NEW t \in Threads,
                        e.kind = "pack", e.id \notin ExportIds(row), handler[t].pc = "save",
                        handler[t].cmd = e.id, handler'[t].cmd # e.id
                 PROVE  Eligible(row) /\ e.round = row.round
    OBVIOUS
  <2>2. row' # row /\ handler'[t] # handler[t]
    BY <2>1 DEF ExportIds
  <2>3. PICK g : g = handler[t]
    OBVIOUS
  <2>4. Save(t)
    <3>1. ~(CommitRound \/ StopSearch \/ MoveResearch)
      BY <1>1, <2>2, WrittenIs
    <3>2. \E u \in Threads : Save(u) \/ Refuse(u)
      BY <1>1, <2>2, <3>1 DEF Next, vars, Export_, StartExport, BuildPack, Authorize, Rename,
         Recover, SaveLost, Reverify, Crash
    <3>3. PICK u \in Threads : Save(u) \/ Refuse(u)
      BY <3>2
    <3>4. u = t
      BY <1>1, <2>2, <3>3, Numbers DEF Save, Refuse, Ended
    <3>5. QED BY <2>1, <3>3, <3>4 DEF Refuse
  <2>5. /\ row' = g.out /\ g.at = updatedAt
        /\ g.cmd \in Journaled => revision = expects[g.cmd]
    BY <2>3, <2>4 DEF Save, Fits
  <2>6. g.cmd \in Exports
    <3>1. row' \in Row
      BY <1>1, <2>3, <2>5, Numbers
    <3>2. e \in Export
      BY <2>1, <3>1, RowFields
    <3>3. QED BY <2>1, <2>3, <3>2 DEF Export
  <2>7. Owns(g, row, updatedAt, revision, expects, AuthIds)
    BY <1>1, <2>3, <2>6 DEF OwnInv
  <2>8. QED BY <2>1, <2>3, <2>5, <2>7 DEF Owns
<1>2. ~Rereads
  OBVIOUS
<1>3. Inv /\ StepInv /\ OwnInv /\ [Next]_vars => OwnInv'
  BY <1>2, OwnNext
<1>4. QED BY <1>1, <1>3, StepInit, StepNext, OwnInit, Invariance, PTL DEF Spec, PackWasEligible

(* No step lists a pack that is not eligible, leaves one of a failed round  *)
(* unmarked, or takes a mark back (main.py:1806).                           *)
THEOREM PackStepsHoldAlways == ~Rereads => (Spec => PackStepsHold)
  BY PackWasEligibleAlways, FailureMarksAlways, OverturnedForGoodAlways DEF PackStepsHold
=============================================================================
