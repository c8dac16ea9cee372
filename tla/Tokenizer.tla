---- MODULE Tokenizer ----
(***************************************************************************)
(* HFTokenizer: how a text becomes the tokens that the embedding and the     *)
(* reranking model are given.                                               *)
(*                                                                         *)
(* Characters are letters (after lower-casing), blanks, and marks, the       *)
(* punctuation and ideographs that are words of their own.  A token is the   *)
(* text it stands for, with a flag where WordPiece writes a prefix; special   *)
(* tokens have no text.  The vocabulary of BPE holds what its merges make.    *)
(***************************************************************************)
EXTENDS Integers, Sequences, FiniteSets, SequencesExt, FiniteSetsExt

CONSTANTS
    Letters, Marks, Blank,
    Vocabularies,   \* WordPiece: sets of tokens
    MergeLists,     \* BPE: sequences of pairs of texts, by rank
    MaxWord,        \* characters of a word that WordPiece looks at (200)
    MaxModel,       \* tokens that the model takes (512)
    MaxQuery,       \* tokens of a query (64)
    MaxText         \* bound: characters encoded at once

Characters == Letters \cup Marks \cup {Blank}
ShortTexts == UNION {[1..n -> Characters] : n \in 0..MaxText}

VARIABLES
    modelType, vocab, merges,   \* the tokenizer's file
    query, document,
    ids, types                  \* what the model is given

file == <<modelType, vocab, merges>>
vars == <<file, query, document, ids, types>>

Piece(text, continues) == [text |-> text, continues |-> continues]
Unk == Piece(<<"unk">>, FALSE)
Cls == Piece(<<"cls">>, FALSE)
Sep == Piece(<<"sep">>, FALSE)

Init ==
    /\ \/ modelType = "WordPiece" /\ vocab \in Vocabularies /\ merges = <<>>
       \/ modelType = "BPE" /\ vocab = {} /\ merges \in MergeLists
    /\ query = <<>> /\ document = <<>>
    /\ ids = <<>> /\ types = <<>>

---------------------------------------------------------------------------
\* preTokenize: blanks separate words, and a mark is put between blanks.
AddCharacter(words, c) ==
    CASE c = Blank -> Append(words, <<>>)
      [] c \in Marks -> words \o <<<<c>>, <<>>>>
      [] OTHER -> Append(Front(words), Append(Last(words), c))

PreTokenize(text) ==
    SelectSeq(FoldLeft(AddCharacter, <<<<>>>>, text), LAMBDA w : w # <<>>)

\* wordpieceTokenize: from each place on the longest token there is.
Longest(word, start) ==
    {end \in start..Len(word) : Piece(SubSeq(word, start, end), start > 1) \in vocab}

Pieces(word) ==
    LET from[start \in 1..(Len(word) + 1)] ==
          IF start > Len(word) THEN <<>>
          ELSE IF Longest(word, start) = {} THEN <<Unk>>
          ELSE LET end == Max(Longest(word, start))
               IN  <<Piece(SubSeq(word, start, end), start > 1)>> \o from[end + 1]
    IN  from[1]

WordPiece(word) ==
    IF Len(word) > MaxWord \/ Unk \in Range(Pieces(word)) THEN <<Unk>> ELSE Pieces(word)

\* bpeTokenize: each merge once, in the order of their ranks, from left to right.
Merged(symbols, pair) ==
    LET from[i \in 1..(Len(symbols) + 2)] ==
          IF i > Len(symbols) THEN <<>>
          ELSE IF i < Len(symbols) /\ symbols[i] = pair[1] /\ symbols[i + 1] = pair[2]
               THEN <<pair[1] \o pair[2]>> \o from[i + 2]
               ELSE <<symbols[i]>> \o from[i + 1]
    IN  from[1]

Singles(word) == [i \in DOMAIN word |-> <<word[i]>>]

Bpe(word) ==
    LET symbols == FoldLeft(Merged, Singles(word), merges)
    IN  [i \in DOMAIN symbols |-> Piece(symbols[i], FALSE)]

Tokenize(text) ==
    LET words == PreTokenize(text)
    IN  FlattenSeq([i \in DOMAIN words |->
          IF modelType = "WordPiece" THEN WordPiece(words[i]) ELSE Bpe(words[i])])

Cut(tokens, n) == SubSeq(tokens, 1, Min({n, Len(tokens)}))

\* encodeSingle: what is embedded.
EncodeSingle(text) ==
    /\ document' = text /\ query' = <<>>
    /\ ids' = <<Cls>> \o Cut(Tokenize(text), MaxModel - 2) \o <<Sep>>
    /\ types' = [i \in DOMAIN ids' |-> 0]
    /\ UNCHANGED file

\* A mutant: a long query is not cut.
UncutQuery(tokens) == tokens

CutQuery(tokens) == Cut(tokens, MaxQuery)

\* encodePair: what is reranked; the document has what the query leaves, and the
\* models of the second kind put two separators between them and know no types.
EncodePair(q, d) ==
    LET a == CutQuery(Tokenize(q))
        between == IF modelType = "WordPiece" THEN <<Sep>> ELSE <<Sep, Sep>>
        room == MaxModel - 2 - Len(between) - Len(a)
        front == <<Cls>> \o a \o between
    IN  /\ query' = q /\ document' = d
        /\ ids' = front \o Cut(Tokenize(d), room) \o <<Sep>>
        /\ types' = [i \in DOMAIN ids' |->
                       IF modelType = "WordPiece" /\ i > Len(front) THEN 1 ELSE 0]
        /\ UNCHANGED file

\* An encoding depends on nothing before it.
Next ==
    /\ ids = <<>>
    /\ \/ \E d \in ShortTexts : EncodeSingle(d)
       \/ \E q, d \in ShortTexts : Len(q) + Len(d) <= MaxText /\ EncodePair(q, d)

Spec == Init /\ [][Next]_vars

---------------------------------------------------------------------------
\* Byte-pair encoding as it is defined: of the pairs in a word the one of the lowest
\* rank is merged, again and again, until there is none.
Ranks(symbols) ==
    {r \in DOMAIN merges : \E i \in 1..(Len(symbols) - 1) : <<symbols[i], symbols[i + 1]>> = merges[r]}

MergeLowest(symbols) ==
    IF Ranks(symbols) = {} THEN symbols ELSE Merged(symbols, merges[Min(Ranks(symbols))])

Reference(word) ==
    LET symbols == FoldLeft(LAMBDA s, i : MergeLowest(s), Singles(word), word)
    IN  [i \in DOMAIN symbols |-> Piece(symbols[i], FALSE)]

\* What tokens stand for, up to the first unknown one, and what a text says.
Spelt(tokens) == FlattenSeq([i \in DOMAIN tokens |-> tokens[i].text])
SpeltAlike(tokens, text) ==
    Unk \notin Range(tokens) => IsPrefix(Spelt(tokens), SelectSeq(text, LAMBDA c : c # Blank))

Separators == {i \in DOMAIN ids : ids[i] = Sep}
QueryTokens == IF query = <<>> THEN <<>> ELSE SubSeq(ids, 2, Min(Separators) - 1)
DocumentTokens ==
    IF Cardinality(Separators) = 1 THEN SubSeq(ids, 2, Len(ids) - 1)
    ELSE SubSeq(ids, Max(Separators \ {Len(ids)}) + 1, Len(ids) - 1)

\* What the model gets fits it, ends with its separator, spells the query and the
\* document from their beginnings, and cuts neither while there is room for it.
EncodingFits ==
    ids # <<>> =>
      /\ Len(ids) <= MaxModel /\ Len(types) = Len(ids)
      /\ Head(ids) = Cls /\ Last(ids) = Sep
      /\ SpeltAlike(QueryTokens, query) /\ SpeltAlike(DocumentTokens, document)
      /\ Len(ids) < MaxModel => DocumentTokens = Tokenize(document)
      /\ Len(QueryTokens) < MaxQuery => QueryTokens = Tokenize(query)
      /\ \A i \in DOMAIN types : types[i] = 1 => i > Min(Separators)

\* One pass over the merges finds the tokens of byte-pair encoding, as long as every
\* merge puts together what merges before it made.
MergesByRank ==
    modelType = "BPE" =>
      \A i \in DOMAIN PreTokenize(document) :
        Bpe(PreTokenize(document)[i]) = Reference(PreTokenize(document)[i])

\* The tokens are those of the model's own tokenizer.
EncodingIsExact == EncodingFits /\ MergesByRank
====
