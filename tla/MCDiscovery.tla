----------------------------- MODULE MCDiscovery -----------------------------
(***************************************************************************)
(* The discovery page for TLC, part by part: its search box, one page with *)
(* its history, the codec of the cookie, the languages, the logos, the     *)
(* period of following, the list made of the feed and the return address.  *)
(* But for the language, which the logos need, a behaviour is that of one  *)
(* part, chosen at the start, while the others rest in an initial state.   *)
(***************************************************************************)
EXTENDS MCTypeAhead, IdpSelect, CookieCodec, LogoChoice, FollowPeriod,
        FeedList, ReturnAddress, TLC

CONSTANTS i4, i5

VARIABLE part

\* One page, four providers and a hidden one, a cookie of three, so that the
\* order of what stays behind a choice can go wrong.
MCProviders == {i1, i2, i3, i4, i5}
MCFeeds == {MCProviders, {i1, i2, i5}}
MCPreferred == <<i4>>

Simple(l) == [whole |-> l, part |-> l]

\* Browsers with and without a region.
MCTags == {Simple("de"), Simple("fr"), Simple("ja"),
           [whole |-> "de-at", part |-> "de"], [whole |-> "pt-br", part |-> "pt"]}

\* Bundles of the configuration: none; a language more; an incomplete bundle
\* in the place of one of the library, be it the default's or not.
MCOwnBundles == { <<>>, "pt" :> {"label", "autoFollow"},
                  "fr" :> Keys @@ "de-at" :> {"label"},
                  "en" :> {"label"}, "de" :> {"label", "badReturnString"} }

\* Logos too small, of exactly the best ratio, of the minimal size, square,
\* too large on both sides, too wide, too high.
S(x, y) == [w |-> x, h |-> y]
MCSizes == {S(29, 69), S(80, 60), S(30, 20), S(60, 60), S(230, 200),
            S(230, 50), S(60, 138)}

\* The days of the configuration.  The pauses, months of thirty days, reach
\* both sides of the end of the two longer periods and of the history.
MCTtls == <<1, 60, 270>>
MCPauses == {30, 210, 480}

\* The hidden providers of the list, in another order than the feed's.
MCHiddenIds == <<i3, i1>>

\* The resting states.
CodecRests  == text = <<33>> /\ CodecInit
LocalRests  == tag = Simple("fr") /\ own = <<>> /\ default = "en" /\ LocalInit
LogoRests   == logos = <<>> /\ LogoInit
FeedRests   == feedSent = <<>> /\ FeedInit
ReturnRests ==
  address = [query |-> FALSE, params |-> <<>>, fragment |-> FALSE] /\ ReturnInit
TextsRest   == CodecRests /\ LocalRests /\ LogoRests

\* Logos are chosen with and without a region.
LogoBrowsers ==
  /\ tag \in {Simple("fr"), [whole |-> "de-at", part |-> "de"]}
  /\ own = <<>> /\ default = "en"

DiscoveryInit ==
  /\ SearchInit /\ Init /\ FollowInit
  /\ \/ part \in {"search", "select", "follow"} /\ TextsRest /\ FeedRests /\ ReturnRests
     \/ part = "feed" /\ TextsRest /\ FeedInit /\ ReturnRests
     \/ part = "return" /\ TextsRest /\ FeedRests /\ ReturnInit
     \/ /\ FeedRests /\ ReturnRests
        /\ \/ part = "codec" /\ CodecInit /\ LocalRests /\ LogoRests
           \/ part = "local" /\ CodecRests /\ LocalInit /\ LogoRests
           \/ part = "logo" /\ CodecRests /\ LogoBrowsers /\ LocalInit /\ LogoInit

pageVars == <<searchVars, vars, followVars>>
textVars == <<codecVars, localVars, logoVars>>
listVars == <<feedVars, returnVars>>

\* One part moves.
OnPage(A, rest) == A /\ UNCHANGED <<rest, textVars, listVars>>
OnText(A, rest) == A /\ UNCHANGED <<rest, pageVars, listVars>>
OnList(A, rest) == A /\ UNCHANGED <<rest, pageVars, textVars>>

DiscoveryNext ==
  /\ UNCHANGED part
  /\ \/ part = "search" /\ OnPage(SearchNext, <<vars, followVars>>)
     \/ part = "select" /\ OnPage(Next, <<searchVars, followVars>>)
     \/ part = "follow" /\ OnPage(FollowNext, <<searchVars, vars>>)
     \/ part = "codec" /\ OnText(CodecNext, <<localVars, logoVars>>)
     \/ part = "local" /\ OnText(LocalNext, <<codecVars, logoVars>>)
     \/ part = "logo" /\ OnText(SetUp, <<codecVars, logoVars>>)
     \/ part = "logo" /\ OnText(LogoNext, <<codecVars, localVars>>)
     \/ part = "feed" /\ OnList(FeedNext, returnVars)
     \/ part = "return" /\ OnList(ReturnNext, feedVars)

DiscoverySpec ==
  DiscoveryInit /\ [][DiscoveryNext]_<<part, pageVars, textVars, listVars>>

\* The type invariants of the parts, and that a cookie's entry is base64.
DiscoveryTypeOK ==
  /\ SearchTypeOK /\ TypeOK
  /\ CodecTypeOK /\ LocalTypeOK /\ LogoTypeOK /\ FollowTypeOK
  /\ IsBase64
==============================================================================
