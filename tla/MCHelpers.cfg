\* Every pair of paths of up to four characters; the address, env,
\* cookie, session, command search, text, inline text and escape cases MCHelpers
\* enumerates.
CONSTANTS
    Chars = {"a", "/", ".", "*"}
    MaxLen = 4
    NoCookie = NoCookie
SPECIFICATION Spec
INVARIANT HasPrefixByElems
INVARIANT SuffixAsDocumented
INVARIANT PathCmpByElems
INVARIANT AbsPathRoundTrip
INVARIANT LiteralPrefixMatch
INVARIANT EnvListRoundTrip
INVARIANT EnvMapRoundTrip
INVARIANT CookieDecision
INVARIANT HandlersAgree
INVARIANT TexNests
INVARIANT RoffNests
INVARIANT EscRoffNoRequests
INVARIANT TexSizeNet
INVARIANT RoffTocRepeatsHeading
INVARIANT SessionEndsAtLogout
INVARIANT AddrCompletion
INVARIANT LookPathFirst
INVARIANT RoffEnumNumbers
