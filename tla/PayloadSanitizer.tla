--------------------------- MODULE PayloadSanitizer ---------------------------
(***************************************************************************)
(* PayloadSanitizer. A text is a sequence of tokens: the characters JSON   *)
(* is made of, each for itself and by its name, and a token for a word: a  *)
(* field's name, the text [REDACTED], an injection pattern, a control      *)
(* character, or other characters, which the code tells apart in no way    *)
(* that matters here.                                                      *)
(***************************************************************************)
EXTENDS Integers, Sequences, SequencesExt, FiniteSetsExt

CONSTANTS
    Words,              \* the words: names of fields, and any other text
    SensitiveFields,    \* sensitive_fields(), in order
    MaxLength           \* MAX_PAYLOAD_LENGTH, in tokens

\* Tokens that are no words.
Marks == {"quote", "backslash", "colon", "comma", "lbrace", "rbrace", "lbracket",
          "rbracket", "space", "control"}

Required == {"transaction_id", "amount"}

Tokens == Words \cup Marks \cup Required \cup {"REDACTED", "injection"}

ASSUME SanitizerAssumption ==
    /\ Words \cap (Marks \cup {"REDACTED", "injection", "out_of_range"}) = {}
    /\ SensitiveFields \in Seq(Words)

\* What sanitize returns for a text it refuses, and how it ends when it would
\* cut the text behind its end.
Refused == <<>>
OutOfRange == <<"out_of_range">>

Quoted(word) == <<"quote", word, "quote">>

\* Where word, quoted, begins in s.
Places(s, word) ==
    {i \in 1..Len(s) - 2 : SubSeq(s, i, i + 2) = Quoted(word)}

FirstOf(s, from, toks) ==
    Min({i \in from..Len(s) : s[i] \in toks} \cup {Len(s) + 1})

-----------------------------------------------------------------------------
(* validate_payload.                                                       *)

LooksLikeJson(s) ==
    LET first == Min({i \in 1..Len(s) : s[i] # "space"} \cup {Len(s) + 1})
    IN  first <= Len(s) /\ s[first] \in {"lbrace", "lbracket"}

Valid(s) ==
    /\ s # <<>> /\ Len(s) <= MaxLength
    /\ LooksLikeJson(s)
    /\ \A word \in Required : Places(s, word) # {}
    /\ ~Contains(s, "injection")

-----------------------------------------------------------------------------
(* redact_field_value.                                                     *)

\* Where the scan of a quoted value that reached i stops: behind the closing
\* quote, or behind the text, and one further if the text ends in a backslash.
ClosedAt(s) ==
    LET scan[i \in 1..Len(s) + 2] ==
            IF i > Len(s) THEN i
            ELSE IF s[i] = "backslash" THEN scan[i + 2]
            ELSE IF s[i] = "quote" THEN i + 1
            ELSE scan[i + 1]
    IN  scan

\* Slip: a quote that is escaped closes the value.
ValueEndAtQuote(s, start) ==
    IF s[start] = "quote"
      THEN FirstOf(s, start + 1, {"quote"}) + 1
      ELSE FirstOf(s, start, {"comma", "rbrace", "rbracket", "space"})

ValueEnd(s, start) ==
    IF s[start] = "quote"
      THEN ClosedAt(s)[start + 1]
      ELSE FirstOf(s, start, {"comma", "rbrace", "rbracket", "space"})

\* The text behind the position pos, with every value of the field replaced.
RedactField(s, field) ==
    LET redacted[pos \in 1..Len(s) + 1] ==
          LET key   == Min({i \in Places(s, field) : i >= pos} \cup {Len(s) + 1})
              colon == FirstOf(s, key + 3, {"colon"})
              start == Min({i \in colon + 1..Len(s) : s[i] # "space"}
                             \cup {Len(s) + 1})
              end   == ValueEnd(s, start)
          IN  IF key > Len(s) \/ colon > Len(s) \/ start > Len(s)
                THEN SubSeq(s, pos, Len(s))
              ELSE IF end > Len(s) + 1 \/ redacted[end] = OutOfRange
                THEN OutOfRange
              ELSE SubSeq(s, pos, start - 1) \o Quoted("REDACTED")
                     \o redacted[end]
    IN  redacted[1]

-----------------------------------------------------------------------------
(* sanitize.                                                               *)

\* strip_sensitive_fields: one pass for each field.
StripSensitive(s) == FoldLeft(RedactField, s, SensitiveFields)

KeepCharacter(kept, c) == IF c = "control" THEN kept ELSE Append(kept, c)

StripControl(s) == FoldLeft(KeepCharacter, <<>>, s)

Trim(s) ==
    LET black == {i \in 1..Len(s) : s[i] # "space"}
    IN  IF black = {} THEN <<>> ELSE SubSeq(s, Min(black), Max(black))

Sanitize(s) ==
    LET clean == Trim(StripControl(s))
    IN  IF Valid(clean) THEN StripSensitive(clean) ELSE Refused

-----------------------------------------------------------------------------
(* What sanitize is for, told of documents instead of texts: a document is *)
(* the fields of a flat object, [key, gap, value], gap and value in tokens. *)

\* The quote at j ends a string whose characters begin at i: the backslashes right
\* before it are even in number, and so none of them escapes it.
Closes(s, i, j) ==
    /\ s[j] = "quote"
    /\ \E k \in i..j :
          /\ (j - k) % 2 = 0
          /\ \A m \in k..j - 1 : s[m] = "backslash"
          /\ k = i \/ s[k - 1] # "backslash"

IsString(v) ==
    /\ Len(v) >= 2 /\ v[1] = "quote"
    /\ Closes(v, 2, Len(v)) /\ \A j \in 2..Len(v) - 1 : ~Closes(v, 2, j)

IsScalar(v) ==
    v # <<>> /\ \A i \in DOMAIN v : v[i] \notin {"quote", "comma", "rbrace", "rbracket", "space"}

\* The words that are told apart. In a value the sanitizer would take the quoted
\* name of a field for the field, wherever it stands: a document has none there.
Names == Range(SensitiveFields) \cup Required

IsFlat(doc) ==
    /\ doc \in Seq([key : Tokens, gap : Seq({"space"}), value : Seq(Tokens)])
    /\ doc # <<>>
    /\ \A i \in DOMAIN doc :
          /\ doc[i].key \notin Marks \cup {"injection"}
          /\ IsString(doc[i].value) \/ IsScalar(doc[i].value)
          /\ \A k \in DOMAIN doc[i].value :
                doc[i].value[k] \notin Names \cup {"control"}

FieldText(f) == Quoted(f.key) \o <<"colon">> \o f.gap \o f.value

Render(doc) ==
    LET fields[i \in 1..Len(doc)] ==
            FieldText(doc[i]) \o IF i = Len(doc) THEN <<"rbrace">>
                                                 ELSE <<"comma">> \o fields[i + 1]
    IN  <<"lbrace">> \o fields[1]

Keys(doc) == {doc[i].key : i \in DOMAIN doc}

Acceptable(doc) ==
    /\ Required \subseteq Keys(doc)
    /\ \A i \in DOMAIN doc : ~Contains(doc[i].value, "injection")
    /\ Len(Render(doc)) <= MaxLength

\* The document whose sensitive fields say "REDACTED".
Cleaned(doc) ==
    [i \in DOMAIN doc |->
        IF Contains(SensitiveFields, doc[i].key)
          THEN [doc[i] EXCEPT !.value = Quoted("REDACTED")]
          ELSE doc[i]]

=============================================================================
