------------------------------ MODULE EditScript ------------------------------
(***************************************************************************)
(* The model's edits, from its answer to the new content of the file       *)
(* (rewriteFile of cmd/fix/main.go): parseEdits, validateEdits and         *)
(* applyEdits, on answers that mean some edits and may be cut off where    *)
(* MaxOutputTokens ends them (gemini.Call does not look at why the model   *)
(* stopped).                                                               *)
(*                                                                         *)
(* An answer is a sequence of symbols: characters, "nl", and the four      *)
(* markers.  JSON answers carry their edits as they are.                   *)
(***************************************************************************)
EXTENDS Naturals, FiniteSets, SequencesExt

CONSTANTS
    Char,           \* characters, the line end "nl" among them
    MaxContent,     \* bound: characters of the file
    MaxOld, MaxNew, \* bounds: characters of an edit's two texts
    MaxEdits        \* bound: edits of an answer

(* The texts of an edit have no markers in them, and an answer has some text. *)
ASSUME CharAssumption ==
    Char # {} /\ {"Begin", "Old", "New", "End"} \cap Char = {}
ASSUME EditBoundsAssumption ==
    MaxContent \in Nat /\ MaxOld \in Nat /\ MaxNew \in Nat /\ MaxEdits \in Nat

Edit == [old: BoundedSeq(Char, MaxOld), new: BoundedSeq(Char, MaxNew)]

(***************************************************************************)
(* The format the prompt asks for.                                         *)
(***************************************************************************)
Render(e) ==
    <<"Begin", "nl", "Old", "nl">> \o e.old \o <<"nl", "New", "nl">> \o e.new
        \o <<"nl", "End", "nl">>

Rendered(script) == FlattenSeq([i \in DOMAIN script |-> Render(script[i])])

(***************************************************************************)
(* strings.Index, with 0 for -1; strings.TrimPrefix and TrimSuffix of one  *)
(* line end; what is left of a text from position p on.                    *)
(***************************************************************************)
Index(t, symbol) == SelectInSeq(t, LAMBDA s : s = symbol)

From(t, p) == SubSeq(t, p, Len(t))

TrimLineEnds_All(t) ==      \* mutant: strings.Trim, of every line end
    LET kept == {p \in DOMAIN t : t[p] # "nl"}
    IN  IF kept = {} THEN <<>> ELSE SubSeq(t, Min(kept), Max(kept))

TrimLineEnds(t) ==
    LET u == IF t # <<>> /\ t[1] = "nl" THEN Tail(t) ELSE t
    IN  IF u # <<>> /\ Last(u) = "nl" THEN Front(u) ELSE u

ValidEdits(edits) ==
    /\ edits # <<>>
    /\ \A i \in DOMAIN edits : edits[i].old # <<>> /\ edits[i].old # edits[i].new

-----------------------------------------------------------------------------
VARIABLES
    stage,      \* where rewriteFile is
    content,    \* the file
    meant,      \* the edits the model means
    isJSON,     \* it answers in JSON
    rest,       \* of the answer, what parseMarkerEdits has not read
    edits,      \* those parsed so far
    applied,    \* how many of them are applied
    fixed       \* the content they have given

editVars == <<stage, content, meant, isJSON, rest, edits, applied, fixed>>

NoAnswer ==
    /\ stage = "off" /\ content = <<>> /\ meant = <<>> /\ isJSON = FALSE
    /\ rest = <<>> /\ edits = <<>> /\ applied = 0 /\ fixed = <<>>

(***************************************************************************)
(* How an answer is read does not depend on the file: those that are cut   *)
(* off, or lack a marker within a block, come with an empty one.           *)
(***************************************************************************)
EditInit ==
    /\ stage = "parse"
    /\ content \in BoundedSeq(Char, MaxContent)
    /\ meant \in BoundedSeq(Edit, MaxEdits)
    /\ isJSON \in BOOLEAN
    /\ \/ isJSON /\ rest = <<>>
       \/ ~isJSON /\ rest = Rendered(meant)
       \/ ~isJSON /\ content = <<>> /\ \E cut \in DOMAIN Rendered(meant) :
                                          rest = SubSeq(Rendered(meant), 1, cut)
       \/ ~isJSON /\ content = <<>> /\ \E p \in DOMAIN Rendered(meant) :
                                          /\ Rendered(meant)[p] \in {"Old", "New"}
                                          /\ rest = RemoveAt(Rendered(meant), p)
    /\ edits = <<>> /\ applied = 0 /\ fixed = content

Fail == stage' = "failed" /\ UNCHANGED <<content, meant, isJSON, rest, edits,
                                         applied, fixed>>

(***************************************************************************)
(* parseEdits: JSON with valid edits is taken.  JSON that is cut off, or   *)
(* whose edits are not valid, is read as marked blocks and has none.       *)
(***************************************************************************)
ParseJSON ==
    /\ stage = "parse" /\ isJSON
    /\ \/ /\ ValidEdits(meant)
          /\ edits' = meant /\ stage' = "apply"
          /\ UNCHANGED <<content, meant, isJSON, rest, applied, fixed>>
       \/ Fail

(***************************************************************************)
(* One round of the loop of parseMarkerEdits.                              *)
(***************************************************************************)
AfterBegin == From(rest, Index(rest, "Begin") + 1)

ParseBlock ==
    LET block == SubSeq(AfterBegin, 1, Index(AfterBegin, "End") - 1)
        oi    == Index(block, "Old")
        ni    == Index(block, "New")
    IN  /\ stage = "parse" /\ Index(rest, "Begin") # 0
        /\ \/ /\ Index(AfterBegin, "End") # 0
              /\ oi # 0 /\ ni # 0 /\ oi < ni
              /\ edits' = Append(edits,
                             [old |-> TrimLineEnds(SubSeq(block, oi + 1, ni - 1)),
                              new |-> TrimLineEnds(From(block, ni + 1))])
              /\ rest' = From(AfterBegin, Index(AfterBegin, "End") + 1)
              /\ UNCHANGED <<stage, content, meant, isJSON, applied, fixed>>
           \/ Index(AfterBegin, "End") = 0 /\ Fail
           \/ Index(AfterBegin, "End") # 0 /\ (oi = 0 \/ ni = 0 \/ ni < oi) /\ Fail

EndOfBlocks ==
    /\ stage = "parse" /\ ~isJSON /\ Index(rest, "Begin") = 0
    /\ \/ /\ ValidEdits(edits)
          /\ stage' = "apply"
          /\ UNCHANGED <<content, meant, isJSON, rest, edits, applied, fixed>>
       \/ ~ValidEdits(edits) /\ Fail

(***************************************************************************)
(* applyEdits.  strings.Count goes on behind the match it has counted.     *)
(***************************************************************************)
Places(t, s) == {p \in 1..Len(t) + 1 - Len(s) : SubSeq(t, p, p + Len(s) - 1) = s}

MatchCount(t, s) ==
    LET from[p \in 1..Len(t) + 1] ==
            IF p > Len(t) THEN 0
            ELSE IF p \in Places(t, s) THEN 1 + from[p + Len(s)] ELSE from[p + 1]
    IN  from[1]

Unique_Present(t, s) == MatchCount(t, s) >= 1       \* mutant: n > 1 is no error

Unique(t, s) == MatchCount(t, s) = 1

ApplyEdit ==
    LET e == edits[applied + 1]
    IN  /\ stage = "apply" /\ applied < Len(edits)
        /\ \/ /\ Unique(fixed, e.old)
              /\ fixed' = ReplaceFirstSubSeq(e.new, e.old, fixed)
              /\ applied' = applied + 1
              /\ UNCHANGED <<stage, content, meant, isJSON, rest, edits>>
           \/ ~Unique(fixed, e.old) /\ Fail

Finish ==
    /\ stage = "apply" /\ applied = Len(edits)
    /\ \/ /\ content # fixed
          /\ stage' = "fixed"
          /\ UNCHANGED <<content, meant, isJSON, rest, edits, applied, fixed>>
       \/ content = fixed /\ Fail

EditNext == ParseJSON \/ ParseBlock \/ EndOfBlocks \/ ApplyEdit \/ Finish

EditSpec == EditInit /\ [][EditNext]_editVars
-----------------------------------------------------------------------------
(***************************************************************************)
(* What is applied is what was meant: all of it, or, when the answer was   *)
(* cut off, the edits that were complete.  A half edit never passes.       *)
(***************************************************************************)
NoHalfEdit ==
    stage \in {"apply", "fixed"} =>
        /\ IsPrefix(edits, meant)
        /\ isJSON => edits = meant

(***************************************************************************)
(* "Each Old block must appear EXACTLY ONCE in the current file"           *)
(* (main.go:362).  When it does, nowhere touched by another edit, an       *)
(* accepted answer does all its edits at once: that they are done one      *)
(* after the other, each on the result of the last, makes no difference.   *)
(* Texts that can overlap themselves are left out: those strings.Count     *)
(* takes for unique where they are not ("aa" in "aaa").                    *)
(***************************************************************************)
Place(e) == CHOOSE p \in Places(content, e.old) : TRUE

Extent(e) == Place(e)..Place(e) + Len(e.old) - 1

OverlapsItself(s) ==
    \E n \in 1..Len(s) - 1 : SubSeq(s, 1, n) = SubSeq(s, Len(s) - n + 1, Len(s))

AsThePromptSays ==
    /\ \A i \in DOMAIN edits : /\ Cardinality(Places(content, edits[i].old)) = 1
                               /\ ~OverlapsItself(edits[i].old)
    /\ \A i, k \in DOMAIN edits :
           i # k => Extent(edits[i]) \cap Extent(edits[k]) = {}

AllAtOnce ==
    FlattenSeq([p \in DOMAIN content |->
        IF \E i \in DOMAIN edits : p = Place(edits[i])
        THEN edits[CHOOSE i \in DOMAIN edits : p = Place(edits[i])].new
        ELSE IF \E i \in DOMAIN edits : p \in Extent(edits[i])
        THEN <<>> ELSE <<content[p]>>])

EditsAsOne ==
    stage = "fixed" /\ AsThePromptSays => fixed = AllAtOnce

=============================================================================
