-------------------------------- MODULE Chunking --------------------------------
(***************************************************************************)
(* ingestion/chunking.py and ingestion/references.py: a document becomes   *)
(* chunks that name their section, and its bibliography becomes references. *)
(*                                                                         *)
(* A document is a preamble and a sequence of headings, each with a level  *)
(* and a body.  A body is a sequence of paragraphs, a paragraph a sequence *)
(* of sentences, a sentence a sequence of character positions, so that a   *)
(* piece of text says which characters it holds.  What is a heading and    *)
(* where a sentence ends is decided by patterns that are not modelled.     *)
(***************************************************************************)
EXTENDS Integers, Sequences, FiniteSets, SequencesExt, Selections

CONSTANTS
  Input,          \* the texts that may be parsed: [document, lines], the second as
                  \* the lines parse_references sees
  MaxChars,       \* max_tokens * CHARS_PER_TOKEN
  OverlapChars,   \* overlap_tokens * CHARS_PER_TOKEN
  MinChunkChars,  \* MIN_CHUNK_CHARS
  MaxReferences   \* MAX_REFERENCES

Blank == <<>>
LineKind == {"references", "appendix", "marker", "marker+text", "text", "blank"}

Characters(body) == UNION {UNION {Range(body[p][s]) : s \in DOMAIN body[p]} : p \in DOMAIN body}

\* Sentences and paragraphs have text, and every character has its own place.
IsText(sentence) == sentence # <<>> /\ sentence \in Seq(Range(sentence) \ {Blank})
IsParagraph(paragraph) ==
  /\ paragraph # <<>> /\ paragraph \in Seq(Range(paragraph))
  /\ \A s \in Range(paragraph) : IsText(s)
IsBody(body) == body \in Seq(Range(body)) /\ \A p \in Range(body) : IsParagraph(p)
IsDocument(doc) ==
  /\ IsBody(doc.preamble) /\ doc.headings \in Seq(Range(doc.headings))
  /\ \A h \in Range(doc.headings) :
       /\ h = [title |-> h.title, level |-> h.level, body |-> h.body]
       /\ h.level \in Nat /\ IsBody(h.body)
       /\ Characters(doc.preamble) \cap Characters(h.body) = {}
  /\ \A i, j \in DOMAIN doc.headings :
       i # j => Characters(doc.headings[i].body) \cap Characters(doc.headings[j].body) = {}

ASSUME ChunkingAssumption ==
  /\ \A input \in Input : IsDocument(input.document) /\ input.lines \in Seq(LineKind)
  /\ MaxChars \in Nat \ {0} /\ OverlapChars \in Nat
  /\ MinChunkChars \in Nat /\ 2 * MinChunkChars <= MaxChars
  /\ MaxReferences \in Nat \ {0}

VARIABLES
  document,    \* the document being parsed: [preamble, headings]
  chunks,      \* the chunks made of it, <<>> before
  lines,       \* the text searched for references
  references,  \* the references found in it
  parsed       \* which of the two passes are done

chunkingVars == <<document, chunks, lines, references, parsed>>

Least(a, b) == IF a < b THEN a ELSE b
Most(a, b) == IF a > b THEN a ELSE b

\* str.strip on a text whose only white space is Blank.
Strip(text) ==
  LET solid == {i \in DOMAIN text : text[i] # Blank}
  IN  IF solid = {} THEN <<>>
      ELSE SubSeq(text, CHOOSE i \in solid : \A j \in solid : i <= j,
                        CHOOSE i \in solid : \A j \in solid : j <= i)

-----------------------------------------------------------------------------
(* _hard_split.                                                            *)

\* How far the next cut of an overlong sentence starts after this one.
Stride == Most(1, MaxChars - OverlapChars)

\* How often `while len(sentence) > max_chars` cuts a sentence of n characters.
Cuts(n) == IF n <= MaxChars THEN 0 ELSE (n - MaxChars + Stride - 1) \div Stride

CutOff(sentence, k) == SubSeq(sentence, (k - 1) * Stride + 1, (k - 1) * Stride + MaxChars)

Tail0(text, n) == SubSeq(text, Most(1, Len(text) - n + 1), Len(text))

\* One sentence of the loop: overlong ones are cut, and a piece that would pass the
\* budget is closed, its tail carried into the next.
AddSentence(acc, sentence) ==
  LET m == Cuts(Len(sentence))
      flushed == IF m > 0 /\ acc.current # <<>> THEN Append(acc.pieces, acc.current) ELSE acc.pieces
      cut == flushed \o [k \in 1 .. m |-> CutOff(sentence, k)]
      open == IF m > 0 THEN <<>> ELSE acc.current
      rest == SubSeq(sentence, m * Stride + 1, Len(sentence))
      closes == open # <<>> /\ Len(open) + Len(rest) + 1 > MaxChars
      carried == IF closes THEN Tail0(open, OverlapChars) ELSE open
  IN  [pieces |-> IF closes THEN Append(cut, open) ELSE cut,
       current |-> Strip(carried \o <<Blank>> \o rest)]

HardSplit(paragraph) ==
  LET acc == FoldLeft(AddSentence, [pieces |-> <<>>, current |-> <<>>], paragraph)
  IN  IF acc.current = <<>> THEN acc.pieces ELSE Append(acc.pieces, acc.current)

-----------------------------------------------------------------------------
(* chunk_text.                                                             *)

\* A paragraph as text: its sentences with a blank between them.
JoinedTo(text, sentence) == IF text = <<>> THEN sentence ELSE text \o <<Blank>> \o sentence
Joined(paragraph) == FoldLeft(JoinedTo, <<>>, paragraph)

(* Mutant: a paragraph joins the part as long as the part itself fits. *)
AddParagraph_TooLate(acc, paragraph) ==
  LET text == Joined(paragraph)
      candidate == IF acc.buffer = <<>> THEN text ELSE acc.buffer \o <<Blank, Blank>> \o text
      flushed == IF acc.buffer = <<>> THEN acc.parts ELSE Append(acc.parts, acc.buffer)
  IN  IF Len(text) > MaxChars
      THEN [parts |-> flushed \o HardSplit(paragraph), buffer |-> <<>>]
      ELSE IF Len(acc.buffer) > MaxChars
           THEN [parts |-> flushed, buffer |-> text]
           ELSE [parts |-> acc.parts, buffer |-> candidate]

\* One paragraph of the packing loop: paragraphs share a part while it fits.
AddParagraph(acc, paragraph) ==
  LET text == Joined(paragraph)
      candidate == IF acc.buffer = <<>> THEN text ELSE acc.buffer \o <<Blank, Blank>> \o text
      flushed == IF acc.buffer = <<>> THEN acc.parts ELSE Append(acc.parts, acc.buffer)
  IN  IF Len(text) > MaxChars
      THEN [parts |-> flushed \o HardSplit(paragraph), buffer |-> <<>>]
      ELSE IF Len(candidate) > MaxChars
           THEN [parts |-> flushed, buffer |-> text]
           ELSE [parts |-> acc.parts, buffer |-> candidate]

Parts(body) ==
  LET acc == FoldLeft(AddParagraph, [parts |-> <<>>, buffer |-> <<>>], body)
  IN  IF acc.buffer = <<>> THEN acc.parts ELSE Append(acc.parts, acc.buffer)

(* Mutant: slivers go even when the section has nothing else. *)
Kept_NoException(parts) == Chosen(parts, {i \in DOMAIN parts : Len(parts[i]) >= MinChunkChars})

\* Slivers are dropped, unless the section is one short passage.
Kept(parts) ==
  IF Len(parts) <= 1 THEN parts
  ELSE Chosen(parts, {i \in DOMAIN parts : Len(parts[i]) >= MinChunkChars})

-----------------------------------------------------------------------------
(* split_sections and chunk_document.                                      *)

\* The sections: the preamble when there is one, and every heading that has a body.
Sections(doc) ==
  (IF doc.preamble = <<>> THEN <<>>
   ELSE <<[title |-> IF doc.headings = <<>> THEN "Document" ELSE "Front Matter",
           level |-> 1, body |-> doc.preamble]>>)
  \o Chosen(doc.headings, {i \in DOMAIN doc.headings : doc.headings[i].body # <<>>})

(* Mutant: only deeper headings leave the breadcrumb. *)
Pushed_KeepsSiblings(stack, section) ==
  Append(Chosen(stack, {i \in DOMAIN stack : stack[i].level <= section.level}), section)

\* The breadcrumb stack after a section: headings no higher than it are popped.
\* The stack is ascending in level, so popping from its end keeps those above.
Pushed(stack, section) ==
  Append(Chosen(stack, {i \in DOMAIN stack : stack[i].level < section.level}), section)

\* One section of the loop of chunk_document.
AddSection(acc, section) ==
  LET stack == Pushed(acc.stack, section)
      path == [i \in DOMAIN stack |-> stack[i].title]
  IN  [stack |-> stack,
       chunks |-> acc.chunks \o [i \in DOMAIN Kept(Parts(section.body)) |->
                    [content |-> Kept(Parts(section.body))[i], path |-> path]]]

ChunksOf(doc) ==
  FoldLeft(AddSection, [stack |-> <<>>, chunks |-> <<>>], Sections(doc)).chunks

-----------------------------------------------------------------------------
(* parse_references.  A line is a heading of the bibliography, a heading   *)
(* that may follow it, an entry marker with the text after it, text, or    *)
(* blank; text is long enough for an entry or not.                         *)

Long == {"text", "marker+text"}

(* Mutant: the first heading wins. *)
Section_FromFirst(text) ==
  LET heads == {i \in DOMAIN text : text[i] = "references"}
      first == CHOOSE i \in heads : \A j \in heads : i <= j
  IN  IF heads = {} THEN {} ELSE first + 1 .. Len(text)

\* find_references_section: the lines after the last heading, up to an appendix.
Section(text) ==
  LET heads == {i \in DOMAIN text : text[i] = "references"}
      last == CHOOSE i \in heads : \A j \in heads : j <= i
      after == last + 1 .. Len(text)
  IN  IF heads = {} THEN {}
      ELSE {i \in after : \A j \in after : text[j] = "appendix" => i < j}

Markers(text, section) == {i \in section : text[i] \in {"marker", "marker+text"}}

\* _split_numbered: with two markers or more, from each marker to the next.
\* _split_unnumbered: else the blocks between blank lines.
Entries(text, section) ==
  LET marks == Markers(text, section)
      starts == IF Cardinality(marks) >= 2 THEN marks
                ELSE {i \in section : text[i] # "blank" /\ (i - 1 \in section => text[i - 1] = "blank")}
      Ends(i, j) == IF Cardinality(marks) >= 2 THEN j \in marks ELSE text[j] = "blank"
  IN  {{j \in section : j >= i /\ \A k \in (i + 1) .. j : ~ Ends(i, k)} : i \in starts}

\* The entries long enough, in the order of the text, at most MAX_REFERENCES.
ReferencesOf(text) ==
  LET first(e) == CHOOSE i \in e : \A j \in e : i <= j
      long == {e \in Entries(text, Section(text)) : \E i \in e : text[i] \in Long}
  IN  {e \in long : Cardinality({f \in long : first(f) < first(e)}) < MaxReferences}

-----------------------------------------------------------------------------

ChunkingInit ==
  /\ \E input \in Input : document = input.document /\ lines = input.lines
  /\ chunks = <<>> /\ references = {}
  /\ parsed = {}

\* chunk_document, as the worker calls it.
ChunkDocument ==
  /\ "chunks" \notin parsed
  /\ chunks' = ChunksOf(document)
  /\ parsed' = parsed \cup {"chunks"}
  /\ UNCHANGED <<document, lines, references>>

\* parse_references, as the worker calls it.
ParseReferences ==
  /\ "references" \notin parsed
  /\ references' = ReferencesOf(lines)
  /\ parsed' = parsed \cup {"references"}
  /\ UNCHANGED <<document, chunks, lines>>

ChunkingNext == ChunkDocument \/ ParseReferences

ChunkingSpec == ChunkingInit /\ [][ChunkingNext]_chunkingVars

-----------------------------------------------------------------------------
(* What should hold.                                                       *)

Held(piece) == Range(piece) \ {Blank}
Chunked == "chunks" \in parsed

\* No section is lost: one that has a body has a chunk, however its parts were cut,
\* and every character that is in no chunk belongs to a part shorter than the
\* minimum (chunking.py:125-155, 191-204).
NoSectionIsLost ==
  Chunked => \A i \in DOMAIN Sections(document) :
    LET section == Sections(document)[i]
        own == {k \in DOMAIN chunks : Held(chunks[k].content) \subseteq Characters(section.body)}
        slivers == {k \in DOMAIN Parts(section.body) : Len(Parts(section.body)[k]) < MinChunkChars}
    IN  /\ own # {}
        /\ Characters(section.body) \subseteq
             (UNION {Held(chunks[k].content) : k \in own})
             \cup (UNION {Held(Parts(section.body)[k]) : k \in slivers})

\* No chunk outgrows its budget by more than the tail it carries over, and a part
\* packed from whole paragraphs keeps to it (chunking.py:145-150, 181-186).
BudgetIsKept ==
  Chunked => \A k \in DOMAIN chunks : \A i \in DOMAIN Sections(document) :
    LET body == Sections(document)[i].body
        whole == \A p \in DOMAIN body : Len(Joined(body[p])) <= MaxChars
    IN  Held(chunks[k].content) \subseteq Characters(body) =>
          Len(chunks[k].content) <= MaxChars + (IF whole THEN 0 ELSE OverlapChars + 1)

\* A chunk's section path lists the headings it is nested in, from the outermost:
\* those before it that no heading of their level or a higher one has closed since.
\* Headings without a body of their own do not take part (chunking.py:103-105,
\* 217-222).
PathsNameTheNesting ==
  Chunked =>
    LET sections == Sections(document)
        Open(i, j) == j <= i /\ \A k \in (j + 1) .. i : sections[k].level > sections[j].level
        Nesting(i) == Chosen(sections, {j \in DOMAIN sections : Open(i, j)})
        PathOf(i) == [k \in DOMAIN Nesting(i) |-> Nesting(i)[k].title]
    IN  \A k \in DOMAIN chunks : \E i \in DOMAIN sections :
          /\ Held(chunks[k].content) \subseteq Characters(sections[i].body)
          /\ chunks[k].path = PathOf(i)

\* References come from the bibliography alone, the last one and not the appendix
\* behind it; no two share a line; every marked entry with enough text is one
\* (references.py:62-76, 84-93, 109-134).
ReferencesAreTheEntries ==
  "references" \in parsed =>
    LET behind(kind, i) == \E j \in DOMAIN lines : lines[j] = kind /\ j < i
        inside == {i \in DOMAIN lines :
                     /\ behind("references", i)
                     /\ \A j \in i .. Len(lines) : lines[j] # "references"
                     /\ \A j \in DOMAIN lines :
                          j <= i /\ lines[j] = "appendix" => \E k \in j .. i : lines[k] = "references"}
        marked == {i \in inside : lines[i] \in {"marker", "marker+text"}}
    IN  /\ UNION references \subseteq inside
        /\ \A e, f \in references : e = f \/ e \cap f = {}
        /\ Cardinality(references) <= MaxReferences
        /\ Cardinality(references) < MaxReferences =>
             \A i \in inside : lines[i] = "marker+text" /\ Cardinality(marked) >= 2 =>
               \E e \in references : i \in e /\ \A j \in e : j >= i

\* A document is stored as it was written: no text lost, no chunk over its budget,
\* each under the headings it is nested in, and the bibliography entry by entry
\* (chunking.py:207-237, references.py:101-136).
StoredAsWritten ==
  /\ NoSectionIsLost
  /\ BudgetIsKept
  /\ PathsNameTheNesting
  /\ ReferencesAreTheEntries

================================================================================
