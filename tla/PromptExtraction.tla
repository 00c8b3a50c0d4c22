--------------------------- MODULE PromptExtraction ---------------------------
(***************************************************************************)
(* From the buffered request body to the context of the classify call:     *)
(* extract_prompt and truncate_chars of prompt.rs, as build_request uses   *)
(* them.  A text is a sequence of characters; of a character all that      *)
(* matters is whether it is white space and how many bytes it takes.       *)
(***************************************************************************)
EXTENDS Integers, Sequences, SequencesExt

CONSTANTS
  Chars,           \* the characters of a text
  Width,           \* bytes of each character in UTF-8, 1 to 4
  Space,           \* the characters str::trim removes
  Newline,         \* the character that joins parts
  MaxPromptChars,  \* config.max_prompt_chars
  None             \* Option::None

\* serde_json values, as far as prompt.rs looks into them: a field that is
\* not there, a string, an array, and anything else.
Absent == [kind |-> "absent"]
Str(text) == [kind |-> "string", text |-> text]
Arr(items) == [kind |-> "array", items |-> items]
OtherValue == [kind |-> "other"]

\* An element of messages, of a content array; a body that is an object.
Message(user, content) == [user |-> user, content |-> content]
Part(is_text, text) == [is_text |-> is_text, text |-> text]
Object(messages, prompt, input) == [messages |-> messages, prompt |-> prompt, input |-> input]

\* Their types: a value whose items, if it is an array, are in a set, and the
\* objects made of such values; an item or a part without a text has None.
Text == Seq(Chars)
Value(items) ==
  {Absent, OtherValue} \cup [kind : {"string"}, text : Text] \cup [kind : {"array"}, items : Seq(items)]
Content == Value([is_text : BOOLEAN, text : Text \cup {None}])
Field == Value(Text \cup {None})
Objects == [messages : Value([user : BOOLEAN, content : Content]), prompt : Field, input : Field]

-----------------------------------------------------------------------------

\* Vec<&str>::join("\n")
join(parts) ==
  LET joined[i \in 0 .. Len(parts)] ==
        IF i = 0 THEN << >>
        ELSE IF i = 1 THEN parts[1]
        ELSE joined[i - 1] \o <<Newline>> \o parts[i]
  IN  joined[Len(parts)]

\* (!joined.is_empty()).then_some(joined)
NonEmpty(text) == IF text = << >> THEN None ELSE text

\* filter_map: the texts of a list, in order, without the items that have none.
texts(items) ==
  LET found[i \in 0 .. Len(items)] ==
        IF i = 0 THEN << >>
        ELSE IF items[i] = None THEN found[i - 1]
        ELSE Append(found[i - 1], items[i])
  IN  found[Len(items)]

\* content_text: parts of another type, and without a string text, are skipped.
content_text(content) ==
  CASE content.kind = "string" -> content.text
    [] content.kind = "array" ->
         LET part_text(p) == IF p.is_text THEN p.text ELSE None
         IN  NonEmpty(join(texts([i \in DOMAIN content.items |-> part_text(content.items[i])])))
    [] OTHER -> None

\* A bug to catch: the first user message is taken.
BugFirstUser(messages) ==
  LET users == {i \in DOMAIN messages : messages[i].user}
  IN  IF users = {} THEN None ELSE content_text(messages[Min(users)].content)

\* from_messages: the last user message and no other, usable or not.
from_messages(messages) ==
  LET users == {i \in DOMAIN messages : messages[i].user}
  IN  IF users = {} THEN None ELSE content_text(messages[Max(users)].content)

\* text_or_array: items that are no strings are skipped.
text_or_array(value) ==
  CASE value.kind = "string" -> value.text
    [] value.kind = "array" -> NonEmpty(join(texts(value.items)))
    [] OTHER -> None

\* str::trim
trim(text) ==
  LET ink == {i \in DOMAIN text : text[i] \notin Space}
  IN  IF ink = {} THEN << >> ELSE SubSeq(text, Min(ink), Max(ink))

\* The first source that yields a text, blank or not.
candidate(object) ==
  LET m == IF object.messages.kind = "array" THEN from_messages(object.messages.items) ELSE None
      p == text_or_array(object.prompt)
      i == text_or_array(object.input)
  IN  IF m # None THEN m ELSE IF p # None THEN p ELSE i

\* extract_prompt: a body that is no JSON object has no prompt.
extract_prompt(body) ==
  IF body.kind # "object" THEN None
  ELSE LET c == candidate(body.object) IN IF c = None THEN None ELSE NonEmpty(trim(c))

-----------------------------------------------------------------------------
(* truncate_chars works on the bytes of the text.                          *)

\* The UTF-8 encoding: each byte knows its character and its place in it.
bytes(text) ==
  LET upto[n \in 0 .. Len(text)] ==
        IF n = 0 THEN << >>
        ELSE upto[n - 1] \o [k \in 1 .. Width[text[n]] |-> <<text[n], k>>]
  IN  upto[Len(text)]

\* char_indices().nth(n): the byte offset of character number n, if any.
byte_index(text, n) ==
  IF n >= Len(text) THEN None ELSE Len(bytes(SubSeq(text, 1, n)))

\* A bug to catch: the limit is taken for a byte offset.
BugByteSlice(text, max_chars) == SubSeq(bytes(text), 1, max_chars)

\* truncate_chars: &text[..byte_index].
truncate_chars(text, max_chars) ==
  LET cut == byte_index(text, max_chars)
  IN  IF cut = None THEN bytes(text) ELSE SubSeq(bytes(text), 1, cut)

\* build_request: the text the classify call carries, None without a prompt.
Context(body) ==
  IF extract_prompt(body) = None THEN None
  ELSE truncate_chars(extract_prompt(body), MaxPromptChars)

=============================================================================
