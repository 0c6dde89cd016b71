---------------------------- MODULE ContextPacking ----------------------------
(***************************************************************************)
(* Fitting retrieved chunks into the token budget of a prompt, best chunk  *)
(* first; one that does not fit is reduced to its relevant sentences.      *)
(* (llm/context.py)                                                        *)
(***************************************************************************)
EXTENDS Integers, Sequences, SequencesExt

CONSTANTS
    Chunk,
    Length,      \* characters of each chunk
    Sentences,   \* lengths of its sentences that share a word with the query, best first
    Budget,      \* max_tokens - reserved_tokens
    MinExcerpt   \* room below which no excerpt is cut

CharsPerToken == 4    \* CHARS_PER_TOKEN
SentenceLimit == 6    \* sentences considered for an excerpt

Tokens(chars) == IF chars < CharsPerToken THEN 1 ELSE chars \div CharsPerToken

\* A chunk is at most one chunking window, which is far below the budget, and its
\* sentences are at least 20 characters long.
ASSUME PackingAssumption ==
    /\ Budget \in Nat /\ MinExcerpt \in Nat
    /\ Length \in [Chunk -> Nat]
    /\ Sentences \in [Chunk -> Seq(Nat)]
    /\ \A c \in Chunk :
        /\ Tokens(Length[c]) <= Budget
        /\ Len(Sentences[c]) <= SentenceLimit
        /\ \A i \in DOMAIN Sentences[c] : Sentences[c][i] >= 20

Total(lengths) == FoldLeft(LAMBDA sum, n : sum + n, 0, lengths)

\* Mutant: every relevant sentence is kept.
Kept_All(c, room) == Sentences[c]

\* The sentences of c kept in an excerpt of at most room tokens: the longest run
\* of the best ones whose estimates add up to no more.
Kept(c, room) ==
    LET Fits(k) == Total([i \in 1..k |-> Tokens(Sentences[c][i])]) <= room
        Most == CHOOSE k \in 0..Len(Sentences[c]) :
                    Fits(k) /\ \A j \in (k+1)..Len(Sentences[c]) : ~Fits(j)
    IN  SubSeq(Sentences[c], 1, Most)

\* Estimated size of the kept sentences, joined by blanks.
Joined(lengths) == Tokens(Total(lengths) + Len(lengths) - 1)

\* The step of the packing loop for chunk c: taken whole, as an excerpt, or dropped.
Add(packed, c) ==
    LET whole   == Tokens(Length[c])
        room    == Budget - packed.used
        excerpt == Kept(c, room)
        Append2(cost) == [kept |-> Append(packed.kept, c), used |-> packed.used + cost]
    IN  CASE whole <= room                                  -> Append2(whole)
          [] whole > room /\ room >= MinExcerpt /\ excerpt # <<>> -> Append2(Joined(excerpt))
          [] OTHER                                          -> packed

\* pack_context: the chunks shown to the model, and their estimated tokens.
Pack(chunks) == FoldLeft(Add, [kept |-> <<>>, used |-> 0], chunks)

===============================================================================
