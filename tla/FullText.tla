------------------------------ MODULE FullText ------------------------------
(***************************************************************************)
(* Words of an event's texts and searching for them: tokenize_text, the    *)
(* rows of App::IndexForFulltextFn, and the part of App::find_in_index     *)
(* that answers a filter's "search".  Texts are sequences of characters.   *)
(***************************************************************************)
EXTENDS Integers, SequencesExt, FiniteSetsExt

CONSTANTS Alphabet,   \* characters
          Alnum,      \* those that words are made of, std::isalnum
          Lower(_),   \* std::tolower
          Unac(_),    \* unac_char_utf16: the characters without accents, or <<>>
          Utf8(_),    \* the bytes of a character
          TokenBytes, \* 15: words are cut there
          RelWidth,   \* 2^8: relevance is an unsigned char
          MaxContent, MaxTitle, \* bounds on the texts
          MaxQuery    \* bound on what is searched

ASSUME FullTextAssumption ==
  /\ Alnum \subseteq Alphabet
  /\ \A c \in Alnum : Lower(c) \in Alnum
  /\ \A c \in Alphabet : Unac(c) \in Seq(Alphabet) /\ Utf8(c) \in Seq(0..255) \ {<<>>}
  /\ TokenBytes \in Nat /\ TokenBytes > 1
  /\ RelWidth \in Nat /\ RelWidth > 2 * TokenBytes
  /\ MaxContent \in Nat /\ MaxTitle \in Nat /\ MaxQuery \in Nat

VARIABLES content, \* Event::content
          title    \* of the tag "title"

textVars == <<content, title>>

-----------------------------------------------------------------------------
(* fulltext.cpp.                                                           *)

\* The longest runs of letters and digits, in lower case.
Words(text) ==
  LET InWord(k) == k \in DOMAIN text /\ text[k] \in Alnum
      IsRun(p) == (\A k \in p[1]..p[2] : InWord(k)) /\ ~InWord(p[1] - 1) /\ ~InWord(p[2] + 1)
      Run(p) == [k \in 1..(p[2] - p[1] + 1) |-> Lower(text[p[1] + k - 1])]
  IN {Run(p) : p \in {x \in (DOMAIN text) \X (DOMAIN text) : x[1] <= x[2] /\ IsRun(x)}}

\* What unac leaves alone stays.
unac_word(word) == FlattenSeq([i \in DOMAIN word |->
                     IF Unac(word[i]) = <<>> THEN <<word[i]>> ELSE Unac(word[i])])

\* Faulty variant: words are not cut.
Token_Long(word) == FlattenSeq([i \in DOMAIN word |-> Utf8(word[i])])

\* The bytes of a word as far as they are kept, whether or not a character ends there.
Token(word) ==
  LET bytes == FlattenSeq([i \in DOMAIN word |-> Utf8(word[i])])
  IN SubSeq(bytes, 1, Min({Len(bytes), TokenBytes}))

\* Faulty variant: words are kept with their accents only.
tokenize_text_Accents(text) == [b \in {Token(w) : w \in Words(text)} |-> 1]

\* The tokens with their relevance: 1 as written, 2 without accents; the sorted list keeps
\* the first of equal words, which has the smaller one.
tokenize_text(text) ==
  LET written == {Token(w) : w \in Words(text)}
      plain == {Token(unac_word(w)) : w \in {v \in Words(text) : unac_word(v) # v}}
  IN [b \in written \cup plain |-> IF b \in written THEN 1 ELSE 2]

-----------------------------------------------------------------------------
(* app.cpp.                                                                *)

\* The rows of an event; a word in a tag takes the row of the same word in the content.
\* Words of a single byte have none.
IndexForFulltext ==
  LET body == tokenize_text(content)
      tag == tokenize_text(title)
  IN [b \in {x \in DOMAIN body \cup DOMAIN tag : Len(x) > 1} |->
        IF b \in DOMAIN tag THEN tag[b] ELSE body[b]]

\* The rows a token selects, those it is a prefix of.
Selected(rows, token) == {b \in DOMAIN rows : IsPrefix(token, b)}

\* Is the event among the candidates of a filter that searches for query?
Found(query) ==
  \E token \in DOMAIN tokenize_text(query) : Selected(IndexForFulltext, token) # {}

\* fulltext_relevance_ordering: what 256 is divided by.
Divisor(relevance, row, token) == (relevance * (Len(row) - Len(token) + 1)) % RelWidth

-----------------------------------------------------------------------------
FullTextInit == content = <<>> /\ title = <<>>

TypeContent(c) ==
  /\ Len(content) < MaxContent /\ content' = Append(content, c) /\ UNCHANGED title
TypeTitle(c) ==
  /\ Len(title) < MaxTitle /\ title' = Append(title, c) /\ UNCHANGED content

MoreText == \E c \in Alphabet : TypeContent(c) \/ TypeTitle(c)

\* One word, up to a length.
Queries(n) == UNION {[1..k -> Alnum] : k \in 1..n}

-----------------------------------------------------------------------------
\* tokenize_text on both sides of the index: a word of two letters or more is found by any
\* beginning of it of up to MaxQuery letters, in whatever case and with or without accents on
\* either side.  What is
\* found can be ordered: fulltext_relevance_ordering divides by an unsigned char that was
\* multiplied by a difference of lengths, and it is never zero, whatever is searched.
SearchFinds ==
  LET rows == IndexForFulltext
  IN \A q \in Queries(MaxQuery) :
       /\ \A w \in Words(content) \cup Words(title) :
            LET typed == [i \in DOMAIN q |-> Lower(q[i])]
            IN Len(w) > 1 /\ IsPrefix(unac_word(typed), unac_word(w)) => Found(q)
       /\ \A row \in DOMAIN rows, token \in DOMAIN tokenize_text(q) :
            row \in Selected(rows, token) => Divisor(rows[row], row, token) # 0
=============================================================================
