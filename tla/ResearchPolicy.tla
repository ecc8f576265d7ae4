---------------------------- MODULE ResearchPolicy ----------------------------
(***************************************************************************)
(* research_policy.rs: what the research gateway may fetch, and what it    *)
(* makes of a page.  A URL is reduced to the parts the policy looks at, a  *)
(* page to a sequence of tokens; a token is a piece of text without angle  *)
(* brackets, a tag, or a "<" that no ">" of its own follows.  "<script>"   *)
(* stands for "<style>" as well, which is treated alike, and for any case. *)
(***************************************************************************)
EXTENDS Naturals, Sequences, Functions

(* How a host relates to the allowlist: an entry of it, below an entry, an   *)
(* entry with more characters in front, none of these; an address instead   *)
(* of a name.                                                                *)
Names == {"listed", "subdomain", "lookalike", "other"}
Addresses == {"privateAddress", "publicAddress"}

Urls == [https : BOOLEAN, credentials : BOOLEAN, port443 : BOOLEAN,
         host : {"none"} \cup Names \cup Addresses]

\* validate_fetch_url; the branches differ in the error code only.
Refused(url) ==
    \/ ~url.https \/ url.credentials \/ ~url.port443
    \/ url.host = "none"
    \/ url.host \in Addresses
    \/ url.host \notin {"listed", "subdomain"}

(* Reference, after RESEARCH_GATEWAY_PLAN.md: HTTPS to an allowed domain.    *)
WithinPolicy(url) ==
    url \in [https : {TRUE}, credentials : {FALSE}, port443 : {TRUE},
             host : {"listed", "subdomain"}]
-----------------------------------------------------------------------------
(* "<script ..>": a start tag of a script or a style with attributes, or a  *)
(* space in it; "</script ..>": an end tag with a space in it.  "<wide": a   *)
(* "<" for which one of the slices [..8] and [..7] of sanitize_html ends     *)
(* inside a character.                                                      *)
Scripts == {"<script>", "<script ..>"}
ScriptEnds == {"</script>", "</script ..>"}
Closed == {"<tag>"} \cup Scripts \cup ScriptEnds
Brackets == Closed \cup {"<", "<wide"}
Tokens == {"text"} \cup Brackets

Positions(a, b) == [k \in 1..(b + 1 - a) |-> a + k - 1]

\* The first position from i on of a token in T, or one past the end.
FirstOf(page, i, T) ==
    CHOOSE j \in i..(Len(page) + 1) :
        /\ j = Len(page) + 1 \/ page[j] \in T
        /\ \A k \in i..(j - 1) : page[k] \notin T

\* Mutant of EndOf: a script is a tag like any other.
EndOfTag(page, i) == FirstOf(page, i, Closed)

\* Where the element that begins at i ends: a script at its closing tag, if
\* both are written exactly so, anything else at the next ">".
EndOf(page, i) ==
    FirstOf(page, i, IF page[i] = "<script>" THEN {"</script>"} ELSE Closed)

\* One round of the loop of sanitize_html, whose source begins at i; `from`
\* says what is appended from a later position on.  An element that does not
\* end stops the loop, which then appends everything from where the text before
\* the element began, that text a second time.  0 stands for a panic, where
\* slicing ends inside a character.
Round(page, from, i) ==
    LET start == FirstOf(page, i, Brackets)
        end == EndOf(page, start)
    IN  IF start > Len(page) THEN Positions(i, Len(page))
        ELSE IF page[start] = "<wide" THEN <<0>>
        ELSE Positions(i, start - 1) \o
             (IF end > Len(page) THEN Positions(i, Len(page)) ELSE from[end + 1])

\* sanitize_html: the positions of the tokens that are in the result, in its
\* order.
Sanitize(page) ==
    LET from[i \in 1..(Len(page) + 1)] == Round(page, from, i) IN from[1]

(* Reference: the text outside scripts, however their start tags are        *)
(* written, of a page all of whose elements end, scripts at "</script>".    *)
WellFormed(page) == \A i \in DOMAIN page :
    /\ page[i] \notin {"<", "<wide", "</script ..>"}
    /\ page[i] \in Scripts => \E j \in i..Len(page) : page[j] = "</script>"

InScript(page, i) == \E j \in 1..(i - 1) :
    page[j] \in Scripts /\ \A k \in j..(i - 1) : page[k] \notin ScriptEnds

Readable(page) == {i \in DOMAIN page : page[i] = "text" /\ ~InScript(page, i)}

PlainScripts(page) == \A i \in DOMAIN page : page[i] # "<script ..>"

\* The numbers in S in their order, each once.
Lists(list, S) == Range(list) = S /\ \A i, j \in DOMAIN list : i < j => list[i] < list[j]
=============================================================================
