---------------------------- MODULE MCSymbolCard ----------------------------
(* Model-checking instance of SymbolCard: one token of each class that the *)
(* parsers treat differently, and descriptions that name one or two.       *)
EXTENDS SymbolCard, TLC

\* A six-digit code with and without its exchange, a ticker, a ticker that is
\* a word, a ticker in small letters, and digits of an undecided exchange.
MCTokens == {"600519", "600519.SH", "AAPL", "ALL", "spy", "430001"}
MCClass  == "600519" :> "bare" @@ "600519.SH" :> "suffixed" @@ "AAPL" :> "listing"
            @@ "ALL" :> "word" @@ "spy" :> "lower" @@ "430001" :> "venueless"
MCVenue  == "600519" :> "CN" @@ "600519.SH" :> "CN" @@ "AAPL" :> "US"
            @@ "ALL" :> "US" @@ "spy" :> "US" @@ "430001" :> "CN"
MCPool   == "CN" :> {"csi1", "csi2"} @@ "US" :> {"spx1", "spx2"}

Text(names, markets) == [names |-> names, markets |-> markets]
MCDescriptions == {
    Text({}, {}), Text({}, {"CN"}),
    Text({"600519.SH"}, {"CN"}), Text({"600519", "AAPL"}, {}),
    Text({"AAPL", "ALL"}, {"CN"}), Text({"ALL"}, {"US"}),
    Text({"spy"}, {"US"}), Text({"430001"}, {"CN"})}
MCBoxes == {{"600519.SH"}, {"600519.SH", "AAPL"}, {"430001"},
            {"ALL"}}
=============================================================================
