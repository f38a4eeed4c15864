------------------------------- MODULE Brand -------------------------------
(***************************************************************************)
(* The operator's branding (src/brand): BrandProvider fetches palette.json *)
(* from a URL that may change while a fetch is under way, merges what it   *)
(* gets into the default colours and writes them to the document; and      *)
(* BrandLogo falls back to the wordmark when the image fails.              *)
(*                                                                         *)
(* A palette is abstracted to what it says of each token: a colour that    *)
(* can be used, one that cannot (isHexColor), or nothing.                  *)
(***************************************************************************)
EXTENDS Naturals

CONSTANTS Url, Token, MaxLoads, NoUrl

ASSUME BrandAssumption == NoUrl \notin Url /\ MaxLoads \in Nat \ {0}

VARIABLES
  content,     \* what the server has under each URL
  paletteUrl,  \* the property
  loads,       \* fetches under way: <<url, cancelled>> of each
  nextLoad,
  loaded,      \* the state of the same name
  css,         \* the colour variables of the document
  logoUrl, failed,   \* BrandLogo
  broken       \* history: the logos whose image failed while shown

brandVars == <<content, paletteUrl, loads, nextLoad, loaded, css, logoUrl, failed, broken>>

Value   == {"valid", "invalid", "unset"}
Palette == [Token -> Value]
Empty   == [t \in Token |-> "unset"]

\* mergePalette: a token that is not overridden by a usable colour keeps its default.
MergePalette(palette) ==
  [t \in Token |-> IF palette[t] = "valid" THEN "custom" ELSE "default"]

Fetch(url, n) == [url |-> url, n |-> n, cancelled |-> FALSE]

\* The first render has run its effects.
BrandInit ==
  /\ content \in [Url -> Palette]
  /\ paletteUrl \in Url \cup {NoUrl}
  /\ nextLoad = 1
  /\ loads = IF paletteUrl = NoUrl THEN {} ELSE {Fetch(paletteUrl, 0)}
  /\ loaded = Empty /\ css = MergePalette(Empty)
  /\ logoUrl \in Url \cup {NoUrl} /\ failed = FALSE /\ broken = {}

-----------------------------------------------------------------------------
\* The effect on [paletteUrl]: its cleanup cancels the load before it starts
\* the next.  loaded keeps the palette of the old URL.
MutChangeUrlKeepsLoads(url) ==
  /\ url # paletteUrl /\ nextLoad < MaxLoads
  /\ paletteUrl' = url /\ nextLoad' = nextLoad + 1
  /\ loads' = loads \cup IF url = NoUrl THEN {} ELSE {Fetch(url, nextLoad)}
  /\ UNCHANGED <<content, loaded, css, logoUrl, failed, broken>>
ChangeUrl(url) ==
  /\ url # paletteUrl /\ nextLoad < MaxLoads
  /\ paletteUrl' = url /\ nextLoad' = nextLoad + 1
  /\ loads' = {[l EXCEPT !.cancelled = TRUE] : l \in loads}
                \cup IF url = NoUrl THEN {} ELSE {Fetch(url, nextLoad)}
  /\ UNCHANGED <<content, loaded, css, logoUrl, failed, broken>>

\* loadPalette never rejects: a failure of any kind gives the empty palette.
\* The colours are recomputed and written to the document.
Resolved(l) ==
  /\ l \in loads /\ loads' = loads \ {l}
  /\ IF l.cancelled THEN UNCHANGED <<loaded, css>>
     ELSE \E p \in {Empty, content[l.url]} :
            loaded' = p /\ css' = MergePalette(p)
  /\ UNCHANGED <<content, paletteUrl, nextLoad, logoUrl, failed, broken>>

-----------------------------------------------------------------------------
\* resolveBrandSlot and BrandLogo: the image shown, or NoUrl for the wordmark.
ShownLogo == IF failed THEN NoUrl ELSE logoUrl

LogoFails ==
  /\ ShownLogo # NoUrl
  /\ failed' = TRUE /\ broken' = broken \cup {ShownLogo}
  /\ UNCHANGED <<content, paletteUrl, loads, nextLoad, loaded, css, logoUrl>>

ChangeLogo(url) ==
  /\ logoUrl' = url
  /\ UNCHANGED <<content, paletteUrl, loads, nextLoad, loaded, css, failed, broken>>

BrandNext ==
  \/ \E url \in Url \cup {NoUrl} : ChangeUrl(url) \/ ChangeLogo(url)
  \/ \E l \in loads : Resolved(l)
  \/ LogoFails

BrandSpec == BrandInit /\ [][BrandNext]_brandVars
-----------------------------------------------------------------------------
(***************************************************************************)
(* Properties.                                                             *)
(***************************************************************************)

\* Types of the variables.
BrandTypeOK ==
  /\ paletteUrl \in Url \cup {NoUrl} /\ logoUrl \in Url \cup {NoUrl}
  /\ nextLoad \in 1..MaxLoads
  /\ loads \subseteq [url : Url, n : 0..MaxLoads, cancelled : BOOLEAN]
  /\ loaded \in Palette
  /\ css \in [Token -> {"default", "custom"}]
  /\ failed \in BOOLEAN /\ broken \subseteq Url

\* The answer of an earlier URL never overtakes that of the current one: once
\* nothing is under way, the colours are those of the palette at the current
\* URL, or the defaults.  (An absent URL starts no load and changes nothing.)
ColoursFollowUrl ==
  paletteUrl # NoUrl /\ loads = {} =>
    css \in {MergePalette(p) : p \in {Empty, content[paletteUrl]}}

\* "never broken": whatever the files contain, a token is overridden only by a
\* colour the browser understands.
OnlyUsableColours ==
  \A t \in Token : css[t] = "custom" =>
    \E url \in Url : content[url][t] = "valid"

\* A logo that failed to load is not shown again.
NoBrokenImage == ShownLogo \notin broken

\* "Renders the operator logo or the wordmark": a logo that has not failed is
\* shown.  Not so after another one failed: failed is never reset.
LogoIsShown == logoUrl \notin broken => ShownLogo = logoUrl

\* The branding shown is the one configured, or the default, and never broken.
BrandSafe == BrandTypeOK /\ ColoursFollowUrl /\ OnlyUsableColours /\ NoBrokenImage
=============================================================================
