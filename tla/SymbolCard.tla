----------------------------- MODULE SymbolCard -----------------------------
(***************************************************************************)
(* The symbols of a draft: how a description names them                    *)
(* (research/symbol_identity.py, symbol_mentions.py), the buttons of the   *)
(* confirm card that correct them (research/universe_validation.py), the   *)
(* default pool a silent description gets (universe_pool.py), and the      *)
(* confirmation that checks the list, asks the provider for its bars and   *)
(* opens the first version (main.py).                                      *)
(*                                                                         *)
(* Buttons are requests of their own threads and take no lock.  Opening    *)
(* the card reads the row and stores the list it filled in; a confirmation *)
(* reads the row, works for as long as the provider takes and writes it.   *)
(* Both are therefore two steps here, with any button between them.        *)
(*                                                                         *)
(* A token stands for what the parsers make of one word of the text; every *)
(* token is a symbol of its own.  The four other slots of the brief, the   *)
(* family and the price source are the subject of DraftDialogue.           *)
(***************************************************************************)
EXTENDS Naturals, FiniteSets

CONSTANTS
    Tokens,            \* the words that may be listings
    Class, Venue,      \* what extract_symbol_mentions sees in a token
    Pool,              \* the versioned default pool of each market
    Descriptions,      \* what a description may name: tokens and markets
    Boxes,             \* what the symbol box may hold
    Floors,            \* min_assets of the coverage floor
    Splits,            \* is the date of the last priced day already fixed
    Modes,             \* is a confirmation journaled or of an older client
    MaxEdits, MaxConfirms, \* bounds
    Absent             \* no universe, no row, no market

Markets  == {"CN", "US"}
Other(m) == IF m = "CN" THEN "US" ELSE "CN"
Listed   == Tokens \cup UNION {Pool[m] : m \in Markets}

\* bare: six digits whose prefix decides the exchange.  suffixed: with the
\* exchange.  venueless: digits of an undecided exchange.  amount: digits
\* before a unit.  listing: a ticker in capitals.  word: a ticker that is also
\* a common word.  lower: a ticker in small letters.
Classes == {"bare", "suffixed", "venueless", "amount", "listing", "word", "lower"}

ASSUME CardAssumption ==
    /\ IsFiniteSet(Tokens)
    /\ Class \in [Tokens -> Classes]
    /\ Venue \in [Tokens -> Markets]
    /\ \A m \in Markets : Pool[m] # {} /\ IsFiniteSet(Pool[m]) /\ Pool[m] \cap Tokens = {}
    /\ Pool["CN"] \cap Pool["US"] = {}
    /\ Descriptions \subseteq [names : SUBSET Tokens, markets : SUBSET Markets]
    /\ Boxes \subseteq SUBSET Tokens
    /\ Floors \subseteq Nat /\ Splits \subseteq BOOLEAN
    /\ Modes \subseteq {"journaled", "legacy"}
    /\ MaxEdits \in Nat /\ MaxConfirms \in Nat

VARIABLES
    said,     \* the text of the user turns
    floor,    \* min_assets of the locked coverage floor
    split,    \* evidence_policy has an explore_end, or there is no policy
    row,      \* the stored research
    card,     \* a view of the card being prepared: the row it read
    confirm,  \* the confirmation in progress, if any
    refused,  \* ghost: symbols the user said no to, and has not named since; but
              \* one that the box named keeps its place when its question is reopened
    edits, confirms \* how much of the bounds was used

cardVars == <<said, floor, split, row, card, confirm, refused, edits, confirms>>

Universe ==
    [market : Markets, unspecified : BOOLEAN, symbols : SUBSET Listed,
     override : BOOLEAN, unresolved : SUBSET Tokens, inferred : SUBSET Tokens,
     asks : SUBSET Tokens, answers : SUBSET (Tokens \X BOOLEAN),
     hints : SUBSET Tokens, mismatches : SUBSET Tokens]

\* A stored value can always be told from an absent one.
ASSUME AbsentAssumption == Absent \notin Universe /\ Absent \notin {"journaled", "legacy"}

\* cleared: ghost, the last button emptied the symbol box.
Row == [u : Universe \cup {Absent}, dismissed : SUBSET Tokens,
        status : {"draft", "running"}, by : {"journaled", "legacy", Absent},
        stamp : Nat, edits : Nat, cleared : BOOLEAN]

-----------------------------------------------------------------------------
(* Mentions: what the parsers find in a text. *)

Mentions == [symbol : SUBSET Tokens, inferred : SUBSET Tokens, ask : SUBSET Tokens,
             hint : SUBSET Tokens, unresolved : SUBSET Tokens, mismatch : SUBSET Tokens]

\* _explicit_market
Explicit(s) == IF Cardinality(s.markets) = 1 THEN CHOOSE m \in s.markets : TRUE ELSE Absent

\* The kind of a mention in prose.
Kind(t, explicit) ==
    CASE Class[t] \in {"word", "amount"} -> "ask"
      [] Class[t] = "lower"              -> "hint"
      [] Class[t] = "venueless"          -> "unresolved"
      [] OTHER -> IF explicit = Other(Venue[t]) THEN "mismatch" ELSE "symbol"

\* Slip: dismissed tokens are only left out of the recognized symbols shown.
DescribedWhole(s, dismissed) ==
    LET Of(k) == {t \in s.names : Kind(t, Explicit(s)) = k}
        only == \A t \in s.names : Class[t] = "lower"
    IN  [symbol |-> Of("symbol"),
         inferred |-> {t \in Of("symbol") : Class[t] # "suffixed"} \ dismissed,
         ask |-> Of("ask"), hint |-> IF only THEN Of("hint") ELSE {},
         unresolved |-> Of("unresolved"), mismatch |-> Of("mismatch")]

\* extract_symbol_mentions over the description, without the dismissed
\* tokens.  A hint is only for a text with nothing else in it.
DescribedMentions(s, dismissed) ==
    LET live == s.names \ dismissed
        Of(k) == {t \in live : Kind(t, Explicit(s)) = k}
        only == \A t \in s.names : Class[t] = "lower"
    IN  [symbol |-> Of("symbol"),
         inferred |-> {t \in Of("symbol") : Class[t] # "suffixed"},
         ask |-> Of("ask"), hint |-> IF only THEN Of("hint") ELSE {},
         unresolved |-> Of("unresolved"), mismatch |-> Of("mismatch")]

\* parse_symbol_field: a box is a list of symbols, not a sentence.
BoxMentions(T) ==
    LET Of(k) == {t \in T : Class[t] \in k}
        found == Of(Classes \ {"venueless", "amount"})
    IN  [symbol |-> found, inferred |-> found \ Of({"suffixed"}), ask |-> Of({"amount"}),
         hint |-> {}, unresolved |-> Of({"venueless"}), mismatch |-> {}]

\* universe_with_mentions
WithMentions(u, m) ==
    [u EXCEPT !.symbols = m.symbol, !.unresolved = m.unresolved,
              !.inferred = m.inferred, !.asks = m.ask, !.hints = m.hint,
              !.mismatches = m.mismatch,
              !.override = m.symbol \cup m.unresolved \cup m.ask \cup m.mismatch # {}]

Blank(market, unspecified) ==
    [market |-> market, unspecified |-> unspecified, symbols |-> {}, override |-> FALSE,
     unresolved |-> {}, inferred |-> {}, asks |-> {}, answers |-> {}, hints |-> {},
     mismatches |-> {}]

\* The universe of a first description: the market it names, or that of the
\* listings in it, or a question.
UniverseFor(s) ==
    LET m == DescribedMentions(s, {})
        cn == {t \in s.names : Venue[t] = "CN"}
        named == m.symbol \cup m.ask \cup m.hint \cup m.mismatch
        market == IF "CN" \in s.markets THEN "CN"
                  ELSE IF "US" \in s.markets THEN "US"
                  ELSE IF cn # {} THEN "CN"
                  ELSE IF named # {} THEN "US" ELSE Absent
    IN  WithMentions(IF market = Absent THEN Blank("CN", TRUE) ELSE Blank(market, FALSE), m)

\* market_symbol_sides
Side(symbols, m) == {x \in symbols : IF x \in Tokens THEN Venue[x] = m ELSE x \in Pool[m]}
Mixed(symbols)   == \A m \in Markets : Side(symbols, m) # {}

\* Nothing in the universe says which symbols to use.
Silent(u) == ~u.override /\ u.symbols \cup u.unresolved \cup u.asks \cup u.mismatches = {}

\* apply_described_symbols
Described(u, s, dismissed) ==
    LET m == DescribedMentions(s, dismissed)
    IN  IF Silent(u) /\ \E k \in DOMAIN m : m[k] # {} THEN WithMentions(u, m) ELSE u

\* materialize_default_pool
Materialized(u, s, dismissed) ==
    IF u = Absent THEN u
    ELSE LET d == Described(u, s, dismissed)
         IN  IF Silent(d) /\ ~d.unspecified
             THEN [Blank(d.market, FALSE) EXCEPT !.symbols = Pool[d.market],
                                                 !.hints = d.hints, !.answers = d.answers]
             ELSE d

-----------------------------------------------------------------------------
(* The reasons a list may not run. *)

\* reject_market_mismatches, its second arm: all the symbols are of one
\* market, and the brief has the other one.
AllForeign(u) == Side(u.symbols, Other(u.market)) # {} /\ Side(u.symbols, u.market) = {}

TooFew(u) == u.override /\ u.symbols # {} /\ Cardinality(u.symbols) < floor

\* The checks of evaluate_run_gate on the shape of the universe.
Gate(u) ==
    u # Absent => /\ ~u.unspecified
                  /\ u.mismatches = {} /\ ~AllForeign(u)
                  /\ u.unresolved = {} /\ u.asks = {}
                  /\ u.override => u.symbols # {}
                  /\ ~Mixed(u.symbols)
                  /\ ~TooFew(u)

-----------------------------------------------------------------------------
(* The buttons of the card. *)

\* One button: the universe and the dismissed tokens it leaves.
Press(u, dismissed, cleared) ==
    /\ edits < MaxEdits
    /\ edits' = edits + 1
    /\ row' = [row EXCEPT !.u = u, !.dismissed = dismissed, !.stamp = @ + 1,
                          !.edits = edits + 1, !.cleared = cleared]
    /\ UNCHANGED <<said, floor, split, card, confirm, confirms>>

\* _require_draft, and a universe to change.
Editable == row.status = "draft" /\ row.u # Absent

\* set_research_symbol, with an empty box.
ClearBox ==
    /\ Editable
    /\ Press([row.u EXCEPT !.symbols = {}, !.override = FALSE, !.unresolved = {},
                           !.inferred = {}, !.asks = {}, !.answers = {}, !.hints = {}],
             row.dismissed \cup row.u.inferred, TRUE)
    /\ UNCHANGED refused

\* set_research_symbol
FillBox(T) ==
    /\ Editable
    /\ T # {}
    /\ Press([WithMentions(row.u, BoxMentions(T)) EXCEPT !.hints = {}],
             row.dismissed \cup row.u.inferred, FALSE)
    /\ refused' = refused \ T

\* answer_symbol_ask
AnswerAsk(t, yes) ==
    /\ Editable
    /\ t \in row.u.asks
    /\ LET symbols == IF yes THEN row.u.symbols \cup {t} ELSE row.u.symbols
           asks == row.u.asks \ {t}
       IN  Press([row.u EXCEPT !.symbols = symbols, !.asks = asks,
                               !.answers = (@ \ ({t} \X BOOLEAN)) \cup {<<t, yes>>},
                               !.override = symbols \cup asks \cup row.u.unresolved # {}],
                 IF yes THEN row.dismissed ELSE row.dismissed \cup {t}, FALSE)
    /\ refused' = IF yes THEN refused \ {t} ELSE refused \cup ({t} \ row.u.symbols)

\* Slip: a reopened question keeps whatever list there is.
AnySymbols(u) == u.symbols

\* A list that is not the user's own is not kept when a question reopens.
OwnSymbols(u) == IF u.override THEN u.symbols ELSE {}

\* revert_symbol_ask
RevertAsk(t, yes) ==
    /\ Editable
    /\ <<t, yes>> \in row.u.answers
    /\ LET own == OwnSymbols(row.u)
       IN  Press([row.u EXCEPT !.answers = @ \ {<<t, yes>>}, !.asks = @ \cup {t},
                               !.symbols = IF yes THEN own \ {t} ELSE own,
                               !.override = TRUE],
                 row.dismissed \ {t}, FALSE)
    /\ refused' = refused \ {t}

\* use_hinted_symbol; the card offers the hints of a default pool.
UseHint(t) ==
    /\ Editable
    /\ t \in row.u.hints /\ ~row.u.override
    /\ Press([row.u EXCEPT !.symbols = {t}, !.override = TRUE, !.unresolved = {},
                           !.inferred = {}, !.asks = {}, !.answers = {}, !.hints = {}],
             row.dismissed \cup row.u.hints, FALSE)
    /\ refused' = refused \ {t}

\* remove_market_side; the card offers it while both markets are named.
RemoveSide(m) ==
    /\ Editable
    /\ Mixed(row.u.symbols)
    /\ LET drop == Side(row.u.symbols, m)
           keep == row.u.symbols \ drop
       IN  /\ Press([row.u EXCEPT !.market = Other(m), !.symbols = keep,
                                  !.override = keep \cup row.u.unresolved \cup row.u.asks # {},
                                  !.inferred = @ \ drop],
                    row.dismissed \cup (row.u.inferred \cap drop), FALSE)
           /\ refused' = refused \cup ((row.u.inferred \cap drop) \ row.u.asks)

\* dismiss_mismatched_symbol: the list is read again from the description.
DismissMismatch(t) ==
    /\ Editable
    /\ t \in row.u.mismatches
    /\ LET dismissed == row.dismissed \cup {t}
       IN  Press(WithMentions(row.u, DescribedMentions(said, dismissed)), dismissed, FALSE)
    /\ refused' = refused \cup {t}

\* choose_default_market
ChooseMarket(m) ==
    /\ Editable
    /\ row.u.unspecified
    /\ Press([row.u EXCEPT !.market = m, !.unspecified = FALSE], row.dismissed, FALSE)
    /\ UNCHANGED refused

\* A message after the pool failed and its slot was unlocked: what it names
\* fills the slot, dismissed or not.
Restate(s) ==
    /\ row.status = "draft" /\ row.u = Absent /\ edits < MaxEdits
    /\ edits' = edits + 1
    /\ said' = [names |-> said.names \cup s.names, markets |-> said.markets \cup s.markets]
    /\ row' = [row EXCEPT !.u = UniverseFor(s), !.stamp = @ + 1, !.edits = edits + 1,
                          !.cleared = FALSE]
    /\ refused' = refused \ s.names
    /\ UNCHANGED <<floor, split, card, confirm, confirms>>

Button ==
    \/ ClearBox
    \/ \E T \in Boxes : FillBox(T)
    \/ \E t \in Tokens, yes \in BOOLEAN : AnswerAsk(t, yes)
    \/ \E t \in Tokens, yes \in BOOLEAN : RevertAsk(t, yes)
    \/ \E t \in Tokens : UseHint(t)
    \/ \E m \in Markets : RemoveSide(m)
    \/ \E t \in Tokens : DismissMismatch(t)
    \/ \E m \in Markets : ChooseMarket(m)
    \/ \E s \in Descriptions : Restate(s)

-----------------------------------------------------------------------------
(* Opening the card. *)

\* fetch_view reads the row of a draft ...
OpenCard ==
    /\ card = Absent /\ row.status = "draft"
    /\ card' = row
    /\ UNCHANGED <<said, floor, split, row, confirm, refused, edits, confirms>>

\* Slip: the list is only filled in, so any draft takes it.
FitsAnyDraft(copy) == row.status = copy.status

\* store.save: the write is conditional on updated_at.
Fits(copy) == row.stamp = copy.stamp

\* ... and stores the list it filled in, under the stamp it read.
ShowCard ==
    /\ card # Absent
    /\ LET u == Materialized(card.u, said, card.dismissed)
       IN  row' = IF u # card.u /\ Fits(card) THEN [card EXCEPT !.u = u] ELSE row
    /\ card' = Absent
    /\ UNCHANGED <<said, floor, split, confirm, refused, edits, confirms>>

-----------------------------------------------------------------------------
(* Confirming. *)

Idle == [at |-> "idle", mode |-> "legacy", copy |-> Absent]

\* The gate is passed on the row as it is stored; from here to the end the
\* per-research lock keeps other confirmations out, and nothing else.
ConfirmRun(mode) ==
    /\ confirm = Idle /\ confirms < MaxConfirms
    /\ row.status = "draft" /\ Gate(row.u)
    /\ confirms' = confirms + 1
    /\ confirm' = [at |-> "probing", mode |-> mode, copy |-> row]
    /\ UNCHANGED <<said, floor, split, row, card, refused, edits>>

\* May this confirmation write?  The journal also compares the digest of the
\* whole row; an older client compares updated_at.
Writes == IF confirm.mode = "journaled" THEN row = confirm.copy ELSE Fits(confirm.copy)

\* The list the provider is asked about.
Probed == Materialized(confirm.copy.u, said, confirm.copy.dismissed)

Over(r) ==
    /\ row' = r
    /\ confirm' = Idle
    /\ UNCHANGED <<said, floor, split, card, refused, edits, confirms>>

\* The checks of resolve_universe_symbols refuse the list it filled in, or
\* the provider has no bars for any named symbol: nothing is written.
Refuse ==
    /\ confirm.at = "probing" /\ Probed # Absent
    /\ ~Gate(Probed) \/ (split /\ Probed.override)
    /\ Over(row)

\* An outage: record_transient_confirm_notice adds a turn to the row that was read.
Outage ==
    /\ confirm.at = "probing" /\ Probed # Absent /\ Gate(Probed) /\ split
    /\ Over(IF Writes THEN [confirm.copy EXCEPT !.stamp = @ + 1] ELSE row)

\* shrink_pool_to_available_data keeps the symbols with bars.
Shrunk(u, kept) ==
    IF kept = u.symbols THEN u
    ELSE [Blank(u.market, FALSE) EXCEPT !.symbols = kept, !.override = u.override]

Enough(kept) == Cardinality(kept) >= floor

\* symbols_with_daily_data: what the source may have bars for; when it has
\* none for any symbol that is an outage.
WithData == (SUBSET Probed.symbols) \ {{}}

\* reopen_after_pool_failure: no universe, or too few symbols with bars.
Reopen ==
    /\ confirm.at = "probing"
    /\ \/ Probed = Absent
       \/ /\ Probed # Absent /\ Gate(Probed) /\ split
          /\ \E kept \in WithData : ~Enough(kept)
    /\ Over(IF Writes THEN [confirm.copy EXCEPT !.u = Absent, !.stamp = @ + 1] ELSE row)

\* Slip: the gate was passed before, so the filled-in list is not checked again.
RunnableAsGated ==
    IF Probed = Absent THEN {}
    ELSE IF ~split THEN {Probed}
    ELSE {Shrunk(Probed, kept) : kept \in {k \in WithData : Enough(k)}}

\* The lists that may come out of the probe.
Runnable ==
    IF Probed = Absent \/ ~Gate(Probed) THEN {}
    ELSE IF ~split THEN {Probed}
    ELSE {Shrunk(Probed, kept) : kept \in {k \in WithData : Enough(k)}}

Start(r, u, mode) == [r EXCEPT !.u = u, !.status = "running", !.by = mode, !.stamp = @ + 1]

\* transition and journal.commit in one transaction.
Commit ==
    /\ confirm.at = "probing" /\ confirm.mode = "journaled"
    /\ \E u \in Runnable : Over(IF Writes THEN Start(confirm.copy, u, "journaled") ELSE row)

\* An older client stores the checked draft first ...
SaveChecked ==
    /\ confirm.at = "probing" /\ confirm.mode = "legacy"
    /\ \E u \in Runnable :
         IF Writes
         THEN /\ row' = [confirm.copy EXCEPT !.u = u, !.stamp = @ + 1]
              /\ confirm' = [confirm EXCEPT !.at = "starting", !.copy = Absent]
              /\ UNCHANGED <<said, floor, split, card, refused, edits, confirms>>
         ELSE Over(row)

\* ... and opens the version from whatever the row holds when it is read again.
\* Without a universe the transition is refused.
StartLegacy ==
    /\ confirm.at = "starting"
    /\ Over(IF row.u = Absent THEN row ELSE Start(row, row.u, "legacy"))

Confirming == Refuse \/ Outage \/ Reopen \/ Commit \/ SaveChecked \/ StartLegacy

-----------------------------------------------------------------------------
CardInit ==
    /\ said \in Descriptions
    /\ floor \in Floors
    /\ split \in Splits
    /\ row = [u |-> UniverseFor(said), dismissed |-> {}, status |-> "draft", by |-> Absent,
              stamp |-> 0, edits |-> 0, cleared |-> FALSE]
    /\ card = Absent
    /\ confirm = Idle
    /\ refused = {}
    /\ edits = 0 /\ confirms = 0

CardNext ==
    \/ Button
    \/ OpenCard
    \/ ShowCard
    \/ \E mode \in Modes : ConfirmRun(mode)
    \/ Confirming

CardSpec == CardInit /\ [][CardNext]_cardVars

-----------------------------------------------------------------------------
(* Properties. *)

CardTypeOK ==
    /\ said \in [names : SUBSET Tokens, markets : SUBSET Markets]
    /\ floor \in Floors /\ split \in Splits
    /\ row \in Row
    /\ card \in Row \cup {Absent}
    /\ confirm \in [at : {"idle", "probing", "starting"}, mode : {"journaled", "legacy"},
                    copy : Row \cup {Absent}]
    /\ refused \subseteq Tokens
    /\ edits \in 0 .. MaxEdits /\ confirms \in 0 .. MaxConfirms

\* A list is either the user's or the pool of the market of the brief, never
\* a mixture and never a pool that passes for the user's choice: a named
\* symbol does not silently become the default pool, nor the pool a name.
PoolIsNotNamed ==
    row.u # Absent =>
        IF row.u.override THEN row.u.symbols \subseteq Tokens
                          ELSE row.u.symbols \subseteq Pool[row.u.market]

\* A symbol the user said no to (a question answered no, a symbol of the
\* other market dismissed, a recognized symbol of the removed side) is not
\* used or asked about again until the user names it: the description it
\* stands in is read again after many buttons.  The one exception is a symbol
\* that the box names and whose old question is reopened: answers outlive the
\* box, and a no closes the question and leaves the symbol where it is.
RefusedStaysOut == row.u # Absent => refused \cap (row.u.symbols \cup row.u.asks) = {}

\* No view, confirmation or notice writes a row that it read before a button
\* of the user: the last button is always in the stored row.
NoButtonIsLost == row.edits = edits

\* The list on the card is what the user and the description made it.
ListIsTheUsers == CardTypeOK /\ PoolIsNotNamed /\ RefusedStaysOut /\ NoButtonIsLost

\* What a journaled confirmation starts was checked as it is: no open
\* question, one market and that of the brief, and as many symbols as the
\* floor when they were named or priced.
RunWasChecked ==
    row.by = "journaled" =>
        /\ row.u # Absent /\ Gate(row.u) /\ row.u.symbols # {}
        /\ split \/ row.u.override => Enough(row.u.symbols)

\* "An empty field returns to the default pool" (universe_validation.py:279):
\* after the box was emptied, the list is empty or the pool.
EmptyFieldMeansPool ==
    row.u # Absent /\ row.cleared => row.u.symbols \subseteq Pool[row.u.market]

\* The same check for every client: "validate user symbols before confirm"
\* (universe_validation.py:592).
EveryRunWasChecked == row.status = "running" => row.u # Absent /\ Gate(row.u)
=============================================================================
