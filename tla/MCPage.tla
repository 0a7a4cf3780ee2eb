------------------------------- MODULE MCPage -------------------------------
(* Page, small.  The two of each pair are alike: terms or passages, addresses *)
(* of an item, intents.                                                       *)
EXTENDS Page, TLC

CONSTANTS a, b, c, d, t1, t2, x1, x2, y, i1, i2

\* Two addresses of one item and one of another; one page of each kind.
MCUrls == {x1, x2, y}
MCItemOf == x1 :> "X" @@ x2 :> "X" @@ y :> "Y"
MCTerms == {t1, t2}
MCAddresses == {a, b, c, d}
MCSurfaceOf == a :> "item" @@ b :> "none" @@ c :> "home" @@ d :> "file"
MCIntents == {i1, i2}

\* A built-in row and one of the user's, of one host.
MCBuiltIn == {"github"}
MCOwn == {"mirror"}
MCPatternOf == "github" :> "host" @@ "mirror" :> "host"

\* A tab, two pages, and two passages of one of them.
MCTabs == {"t"}
MCPages == {"p", "q"}
MCPageOf == t1 :> "p" @@ t2 :> "p"

MCMaxMoves == "lanes" :> 1 @@ "header" :> 2 @@ "surfaces" :> 2 @@ "composer" :> 1
MCMaxClicks == "header" :> 8 @@ "surfaces" :> 2 @@ "options" :> 3 @@ "composer" :> 3
MCMaxFaults == "lanes" :> 1 @@ "header" :> 2 @@ "surfaces" :> 1 @@ "options" :> 1 @@ "composer" :> 1

MCSymmetry == Permutations({t1, t2}) \union Permutations({x1, x2}) \union Permutations({i1, i2})
=============================================================================
