------------------------------ MODULE Leakage ------------------------------
(***************************************************************************)
(* bench/prompts/check_leakage.py: the check that B-4 runs on its held-out *)
(* prompts before it builds an arm.  It compares every prompt with every   *)
(* anchor the classifiers were built from, word by word.                   *)
(*                                                                         *)
(* A text is its words in order, as normalize leaves them, and the way it  *)
(* was written (case, quotes, white space, last punctuation): "blank" if   *)
(* it is white space only.  A ratio of two counts is the pair of them, a   *)
(* limit is in percent.                                                    *)
(***************************************************************************)
EXTENDS Integers, Sequences, FiniteSets

CONSTANTS
  Stopwords,    \* the English function words
  Opaque,       \* words that _TOKEN, written for ASCII, does not see
  AnchorFiles,  \* ANCHOR_FILES
  Classes,      \* VALID_LABELS, and CLASSES of B-4
  MinPrompts,   \* MIN_PROMPTS
  MinPerClass   \* MIN_PER_CLASS

JACCARD_LIMIT == 60
CONTAINMENT_LIMIT == 75
FULL_JACCARD_LIMIT == 60
FULL_CONTAINMENT_LIMIT == 80

normalize(text) == text.words

\* Every token of a text, stopwords included.
full_tokens(text) == {normalize(text)[i] : i \in DOMAIN normalize(text)} \ Opaque

\* Without the stopwords, unless nothing else is left.
content_tokens(text) ==
  IF full_tokens(text) \subseteq Stopwords THEN full_tokens(text)
  ELSE full_tokens(text) \ Stopwords

jaccard(a, b) == <<Cardinality(a \cap b), Cardinality(a \cup b)>>

\* Overlap as a fraction of the smaller set.
containment(a, b) ==
  << Cardinality(a \cap b),
     IF Cardinality(a) <= Cardinality(b) THEN Cardinality(a) ELSE Cardinality(b) >>

\* A ratio over an empty set is 0.
Reaches(ratio, limit) == ratio[2] > 0 /\ 100 * ratio[1] >= limit * ratio[2]

\* A bug to catch: only the words that carry content are compared.
BugContentOnly(p, a) ==
  \/ Reaches(jaccard(content_tokens(p), content_tokens(a)), JACCARD_LIMIT)
  \/ Reaches(containment(content_tokens(p), content_tokens(a)), CONTAINMENT_LIMIT)

\* One of the four scores of a prompt and an anchor is at its limit.
is_near_duplicate(p, a) ==
  \/ Reaches(jaccard(content_tokens(p), content_tokens(a)), JACCARD_LIMIT)
  \/ Reaches(containment(content_tokens(p), content_tokens(a)), CONTAINMENT_LIMIT)
  \/ Reaches(jaccard(full_tokens(p), full_tokens(a)), FULL_JACCARD_LIMIT)
  \/ Reaches(containment(full_tokens(p), full_tokens(a)), FULL_CONTAINMENT_LIMIT)

-----------------------------------------------------------------------------
(* main.  A prompt is [id, label, text]; dir is what the anchor directory  *)
(* holds: a function from the files that exist to their anchor texts.      *)

\* The anchors of the files that were read, and the files that were not.
load_anchors(dir) ==
  [ anchors |-> UNION {dir[f] : f \in DOMAIN dir \cap AnchorFiles},
    missing |-> AnchorFiles \ DOMAIN dir ]

\* validate_schema adds no problem: ids told apart, labels known, no blank
\* prompt, enough prompts in all and of each class.
validate_schema(prompts) ==
  /\ \A i, j \in DOMAIN prompts : prompts[i].id = prompts[j].id => i = j
  /\ \A i \in DOMAIN prompts : prompts[i].label \in Classes /\ prompts[i].text.form # "blank"
  /\ Len(prompts) >= MinPrompts
  /\ \A c \in Classes :
       Cardinality({i \in DOMAIN prompts : prompts[i].label = c}) >= MinPerClass

\* Two prompts of the set are the same text.
internal_dupes(prompts) ==
  \E i, j \in DOMAIN prompts : i # j /\ normalize(prompts[i].text) = normalize(prompts[j].text)

verbatim(prompts, anchors) ==
  {i \in DOMAIN prompts : \E a \in anchors : normalize(prompts[i].text) = normalize(a)}

near(prompts, anchors) ==
  {i \in DOMAIN prompts : \E a \in anchors : is_near_duplicate(prompts[i].text, a)}

\* The exit code: 2 without a report if an anchor file could not be read, 1
\* if the set is contaminated or malformed.
check_leakage(prompts, dir, allow_missing_anchors) ==
  LET loaded == load_anchors(dir)
      clean == /\ verbatim(prompts, loaded.anchors) = {}
               /\ near(prompts, loaded.anchors) = {}
               /\ validate_schema(prompts) /\ ~internal_dupes(prompts)
  IN  IF loaded.missing # {} /\ ~allow_missing_anchors THEN 2
      ELSE IF clean THEN 0 ELSE 1

=============================================================================
