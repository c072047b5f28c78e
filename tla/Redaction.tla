------------------------------ MODULE Redaction ------------------------------
(***************************************************************************)
(* What the triage worker takes out of an issue before a model sees it     *)
(* (sanitizeForModel of cmd/triage/scan.go): HTML comments, then data      *)
(* URIs, then spans that look like base64.                                 *)
(*                                                                         *)
(* A text is a sequence of symbols, each of them a byte of one class or a  *)
(* token the regular expressions look for: "<!--", "-->", and "data:",     *)
(* which stands for "data:<type>;base64,".  Bytes of no class that matters *)
(* need no symbol of their own: a lone "-->" is one.                       *)
(***************************************************************************)
EXTENDS Naturals, FiniteSets, SequencesExt

CONSTANTS
    MinLen,         \* base64MinLen (40)
    UpperInverse,   \* 1 / base64UpperRatio (4)
    MaxText         \* bound: symbols of a text

ASSUME MinLenAssumption == MinLen \in Nat \ {0}
ASSUME UpperInverseAssumption == UpperInverse \in Nat \ {0}
ASSUME MaxTextAssumption == MaxText \in Nat

Base64 == {"upper", "lower", "digit", "special"}    \* special is one of + / =
Symbol == Base64 \cup {"space", "<!--", "-->", "data:"}

Blob    == "blob"       \* redactedBlobPlaceholder
Comment == "comment"    \* redactedCommentPlaceholder

(* Where the payload of a data URI can begin (reRedactDataURI needs one). *)
HasPayload(t, p) == t[p] = "data:" /\ p < Len(t) /\ t[p + 1] \in Base64

(***************************************************************************)
(* What stands for "data:<type>;base64," is one symbol, too short and too  *)
(* broken up by : ; and , to be a block of its own.  Its first letters,    *)
(* though, continue base64 before it: they would lengthen the payload of   *)
(* another data URI, or, where the symbol stays because it has no payload, *)
(* the span before it.  Texts in which they would are left out.  (The      *)
(* placeholders stand between brackets and join nothing.)                  *)
(***************************************************************************)
Texts ==
    {t \in BoundedSeq(Symbol, MaxText) : \A p \in DOMAIN t : t[p] = "data:" =>
        /\ p > 1 => t[p - 1] \notin Base64 \cup {"data:"}
        /\ \/ HasPayload(t, p)
           \/ \A o \in 1..p - 1 : t[o] \in Base64 =>
                  \E q \in o..p : t[q] \notin Base64 \cup {"space", "data:"}}

Count(text, class) == Cardinality({p \in DOMAIN text : text[p] \in class})

(***************************************************************************)
(* looksBase64Block.                                                       *)
(***************************************************************************)
LooksBase64_CountsSpaces(span) ==       \* mutant: the length is that of the span
    /\ Len(span) >= MinLen
    /\ \/ Count(span, {"special"}) > 0
       \/ /\ Count(span, {"upper"}) > 0 /\ Count(span, {"lower"}) > 0
          /\ UpperInverse * Count(span, {"upper"}) >= Count(span, Base64)

LooksBase64(span) ==
    /\ Count(span, Base64) >= MinLen
    /\ \/ Count(span, {"special"}) > 0
       \/ /\ Count(span, {"upper"}) > 0 /\ Count(span, {"lower"}) > 0
          /\ UpperInverse * Count(span, {"upper"}) >= Count(span, Base64)

-----------------------------------------------------------------------------
VARIABLES
    step,       \* the pass of sanitizeForModel under way
    issue,      \* the text of the issue
    text,       \* the input of the pass: what the one before has left
    out,        \* its output so far
    pos,        \* i, the next symbol to look at
    end, j,     \* the span found so far, and how far the search for it is
    redacted    \* substitutions so far

redactionVars == <<step, issue, text, out, pos, end, j, redacted>>

NoText ==
    /\ step = "off" /\ issue = <<>> /\ text = <<>> /\ out = <<>>
    /\ pos = 1 /\ end = 1 /\ j = 1 /\ redacted = 0

RedactionInit ==
    /\ step = "comments"
    /\ issue \in Texts /\ text = issue
    /\ out = <<>> /\ pos = 1 /\ end = 1 /\ j = 1 /\ redacted = 0

At(p, class) == p <= Len(text) /\ text[p] \in class

Emit(symbols) == out' = out \o symbols

(***************************************************************************)
(* ReplaceAllStringFunc: the leftmost match, the shortest from there, and  *)
(* on after it.  A pass that has come to the end hands its output on.      *)
(***************************************************************************)
Ends_OnOneLine(p) ==        \* mutant: no (?s), so that a comment ends with its line
    {q \in p..Len(text) : text[q] = "-->" /\ \A r \in p..q : text[r] # "space"}

Ends(p) == {q \in p..Len(text) : text[q] = "-->"}

RemoveComment ==
    /\ step = "comments" /\ At(pos, {"<!--"}) /\ Ends(pos) # {}
    /\ pos' = Min(Ends(pos)) + 1
    /\ Emit(<<Comment>>) /\ redacted' = redacted + 1
    /\ UNCHANGED <<step, issue, text, end, j>>

Payload(p) == {q \in p..Len(text) : \A r \in p..q : text[r] \in Base64}

RemoveDataURI ==
    /\ step = "uris" /\ At(pos, {"data:"}) /\ Payload(pos + 1) # {}
    /\ pos' = Max(Payload(pos + 1)) + 1
    /\ Emit(<<Blob>>) /\ redacted' = redacted + 1
    /\ UNCHANGED <<step, issue, text, end, j>>

Copy ==
    /\ pos <= Len(text)
    /\ \/ step = "comments" /\ ~(text[pos] = "<!--" /\ Ends(pos) # {})
       \/ step = "uris" /\ ~(text[pos] = "data:" /\ Payload(pos + 1) # {})
       \/ step = "blocks" /\ text[pos] \notin Base64
    /\ Emit(<<text[pos]>>) /\ pos' = pos + 1
    /\ UNCHANGED <<step, issue, text, end, j, redacted>>

HandOn ==
    /\ step \in {"comments", "uris"} /\ pos > Len(text)
    /\ step' = IF step = "comments" THEN "uris" ELSE "blocks"
    /\ text' = out /\ out' = <<>> /\ pos' = 1
    /\ UNCHANGED <<issue, end, j, redacted>>

(***************************************************************************)
(* redactBase64Blocks.  Positions are those after the symbol, so that the  *)
(* span is text[pos .. end - 1].                                           *)
(***************************************************************************)
StartSpan ==
    /\ step = "blocks" /\ At(pos, Base64)
    /\ step' = "span" /\ j' = pos /\ end' = pos
    /\ UNCHANGED <<issue, text, out, pos, redacted>>

ExtendSpan ==
    /\ step = "span" /\ At(j, Base64)
    /\ j' = j + 1 /\ end' = j + 1
    /\ UNCHANGED <<step, issue, text, out, pos, redacted>>

(* Where the run of whitespace that begins at p ends. *)
AfterSpaces(p) ==
    Min({q \in p..Len(text) + 1 : ~At(q, {"space"})})

Resumes_NotOverSpaces(p) == FALSE       \* mutant: a span ends at whitespace

Resumes(p) == At(p, {"space"}) /\ At(AfterSpaces(p), Base64)

AbsorbSpaces ==
    /\ step = "span" /\ Resumes(j)
    /\ j' = AfterSpaces(j)
    /\ UNCHANGED <<step, issue, text, out, pos, end, redacted>>

CloseSpan ==
    LET span == SubSeq(text, pos, end - 1)
    IN  /\ step = "span" /\ ~At(j, Base64) /\ ~Resumes(j)
        /\ \/ LooksBase64(span) /\ Emit(<<Blob>>) /\ redacted' = redacted + 1
           \/ ~LooksBase64(span) /\ Emit(span) /\ UNCHANGED redacted
        /\ pos' = end
        /\ step' = "blocks"
        /\ UNCHANGED <<issue, text, end, j>>

RedactionNext ==
    \/ RemoveComment \/ RemoveDataURI \/ Copy \/ HandOn
    \/ StartSpan \/ ExtendSpan \/ AbsorbSpaces \/ CloseSpan

RedactionSpec == RedactionInit /\ [][RedactionNext]_redactionVars

Sanitized == step = "blocks" /\ pos > Len(text)
-----------------------------------------------------------------------------
(***************************************************************************)
(* What each pass is for, without a scan: where the parts to be replaced   *)
(* are, by the symbols around them.                                        *)
(***************************************************************************)
Replaced(t, Inside(_), Begins(_), placeholder) ==
    FlattenSeq([p \in DOMAIN t |-> IF ~Inside(p) THEN <<t[p]>>
                                   ELSE IF Begins(p) THEN <<placeholder>> ELSE <<>>])

(* p is in a comment: one has been opened and not closed, and will be. *)
WithoutComments(t) ==
    LET Open(p)   == \E o \in 1..p : /\ t[o] = "<!--"
                                    /\ \A q \in o..p - 1 : t[q] # "-->"
        Inside(p) == Open(p) /\ \E q \in p..Len(t) : t[q] = "-->"
        Begins(p) == p = 1 \/ t[p - 1] = "-->" \/ ~Open(p - 1)
    IN  Replaced(t, Inside, Begins, Comment)

WithoutDataURIs(t) ==
    LET Inside(p) == \E o \in 1..p : /\ HasPayload(t, o)
                                    /\ \A q \in o + 1..p : t[q] \in Base64
        Begins(p) == t[p] = "data:"
    IN  Replaced(t, Inside, Begins, Blob)

(* The maximal intervals of base64 and space that begin and end with base64. *)
Spans(t) ==
    LET Solid(a, b) == /\ \A p \in a..b : t[p] \in Base64 \cup {"space"}
                       /\ t[a] \in Base64 /\ t[b] \in Base64
        Intervals   == {ab \in (DOMAIN t) \X (DOMAIN t) :
                           ab[1] <= ab[2] /\ Solid(ab[1], ab[2])}
    IN  {ab \in Intervals : \A cd \in Intervals :
            cd[1] <= ab[1] /\ ab[2] <= cd[2] => cd = ab}

Blocks(t) == {ab \in Spans(t) : LooksBase64(SubSeq(t, ab[1], ab[2]))}

WithoutBlocks(t) ==
    LET Inside(p) == \E ab \in Blocks(t) : p \in ab[1]..ab[2]
        Begins(p) == \E ab \in Blocks(t) : p = ab[1]
    IN  Replaced(t, Inside, Begins, Blob)

(***************************************************************************)
(* The three passes replace every comment, data URI and block, each by one *)
(* placeholder, which they count, and leave everything else as it is.      *)
(***************************************************************************)
SanitizedAsDefined ==
    Sanitized =>
        /\ out = WithoutBlocks(WithoutDataURIs(WithoutComments(issue)))
        /\ redacted = Count(out, {Blob, Comment})

(***************************************************************************)
(* "chunking a blob across spaces/newlines does not defeat it"             *)
(* (scan.go:12): as much is found as when the chunks are put together.     *)
(***************************************************************************)
Joined(t) ==
    LET Gap(p) == \E ab \in Spans(t) : p \in ab[1]..ab[2] /\ t[p] = "space"
    IN  FlattenSeq([p \in DOMAIN t |-> IF Gap(p) THEN <<>> ELSE <<t[p]>>])

ChunkingChangesNothing ==
    Sanitized =>
        Count(out, {Blob}) = Count(text, {Blob}) + Cardinality(Blocks(Joined(text)))

(***************************************************************************)
(* Nothing that a pass looks for is whole in the end: what a pass removes  *)
(* or leaves never brings two halves together behind it.  Halves do stay:  *)
(* a comment that nobody closes, and a data URI that a comment has cut     *)
(* from its payload, whose rest is text like any other.                    *)
(***************************************************************************)
NothingLeftWhole ==
    Sanitized =>
        /\ \A p \in DOMAIN out : ~HasPayload(out, p)
        /\ \A p, q \in DOMAIN out : ~(p < q /\ out[p] = "<!--" /\ out[q] = "-->")

(***************************************************************************)
(* "removes content the model must not act on [...]: HTML comments (hidden *)
(* in the GitHub UI)" (scan.go:167): no comment that begins the text is    *)
(* left.  (Markdown takes one for a comment to the end of the text when    *)
(* nothing closes it.)                                                     *)
(***************************************************************************)
HTMLCommentsRemoved ==
    Sanitized => \A p \in DOMAIN out : out[p] = "<!--" => p > 1
=============================================================================
