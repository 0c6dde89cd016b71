---------------------------- MODULE LiteratureReview ----------------------------
(***************************************************************************)
(* research/review.py: an outline is planned, every section retrieves its  *)
(* own passages and is drafted, all sections at once, and the markers of   *)
(* the texts are resolved against one numbering of the papers.  Papers may *)
(* be deleted while the review is being written.                           *)
(***************************************************************************)
EXTENDS Integers, Sequences, FiniteSets, SequencesExt

CONSTANTS
  Shelf,           \* the papers the review is about, those of its scope
  PublishedIn,     \* PublishedIn[p]: published_year, 0 where it is NULL
  MaxPapers,       \* MAX_PAPERS
  DefaultSections, \* how many sections DEFAULT_SECTIONS has
  Outlines,        \* what a reply may hold: sequences of TRUE (a usable item) and FALSE, or
  Malformed,       \* `sections` that is neither empty nor a list: a dict, a number, true
  MaxItems,        \* MAX_SECTIONS: how many items of an outline are read
  MaxSections,     \* the max_sections a request may ask for
  MaxRetrieved,    \* SOURCES_PER_SECTION
  MaxOutages       \* how many calls of the providers fail in a behaviour

ASSUME ReviewAssumption ==
  /\ IsFiniteSet(Shelf)
  /\ Outlines \subseteq Seq(BOOLEAN) \cup {Malformed} /\ Malformed \notin Seq(BOOLEAN)
  /\ MaxItems \in Nat \ {0} /\ MaxPapers \in Nat \ {0} /\ DefaultSections \in Nat \ {0}
  /\ MaxSections \subseteq Nat \ {0} /\ MaxRetrieved \in Nat \ {0} /\ MaxOutages \in Nat

VARIABLES
  onShelf,   \* the papers that have not been deleted
  sources,   \* LiteratureReview.sources: the papers in the order of their numbers
  outlined,  \* what the outline was made of: the reply, and the max_sections of the request
  sections,  \* LiteratureReview.sections: stage, passages retrieved, source_indices
  phase,     \* "loading", "planning", "drafting", "answered", "empty", "failed"
  outages    \* how many calls have failed

reviewVars == <<onShelf, sources, outlined, sections, phase, outages>>

NewSection == [stage |-> "retrieving", passages |-> {}, cited |-> {}]

Smallest(a, b) == IF a < b THEN a ELSE b

\* by_paper of _format_sources_for_section: a paper's number in the review.
NumberOf(p) == CHOOSE n \in DOMAIN sources : sources[n] = p

\* The numbers of the sources a section was given: a passage of a paper that is not
\* a source of the review is not shown to the model.
Available(passages) == {NumberOf(p) : p \in passages \cap Range(sources)}

(* Mutant: any number of a source of the review is believed. *)
ResolveCitations_AnySource(markers, passages) == {n \in markers : n \in DOMAIN sources}

\* _resolve_citations: markers in range that name a source the section was given.
ResolveCitations(markers, passages) ==
  {n \in markers : n \in DOMAIN sources} \cap Available(passages)

-----------------------------------------------------------------------------

\* _load_sources: at most MAX_PAPERS papers, newest first; the database returns
\* them in any order, and sorted keeps it within a year.
LoadSources(loaded) ==
  /\ phase = "loading"
  /\ IsInjective(loaded)
  /\ Range(loaded) \subseteq onShelf
  /\ Len(loaded) = Smallest(MaxPapers, Cardinality(onShelf))
  /\ \A m, n \in DOMAIN loaded : m < n => PublishedIn[loaded[m]] >= PublishedIn[loaded[n]]
  /\ sources' = loaded
  /\ phase' = IF loaded = <<>> THEN "empty" ELSE "planning"
  /\ UNCHANGED <<onShelf, outlined, sections, outages>>

\* The items of an outline that become sections: the list is cut before the items
\* that are no section are dropped.
Usable(outline) == {i \in DOMAIN outline : i <= MaxItems /\ outline[i]}

(* Mutant: an outline without a usable item is taken as it is. *)
Planned_AsGiven(outline, most) == Smallest(most, Cardinality(Usable(outline)))

(* Mutant: the default structure is not cut to what the request asked for. *)
Planned_DefaultUncut(outline, most) ==
  IF Usable(outline) = {} THEN DefaultSections
  ELSE Smallest(most, Cardinality(Usable(outline)))

\* How many sections an outline gives: usable items, or the default structure.
Planned(outline, most) ==
  Smallest(most, IF Usable(outline) = {} THEN DefaultSections
                 ELSE Cardinality(Usable(outline)))

\* plan_outline: a call that fails, a reply without an object, and `sections` that is
\* a string are outlines without a usable item.  A gather of nothing returns at once.
PlanOutline(outline, most) ==
  /\ phase = "planning"
  /\ outline # Malformed
  /\ outlined' = [reply |-> outline, most |-> most]
  /\ sections' = [i \in 1 .. Planned(outline, most) |-> NewSection]
  /\ phase' = IF sections' = <<>> THEN "answered" ELSE "drafting"
  /\ UNCHANGED <<onShelf, sources, outages>>

\* The same for a reply whose `sections` cannot be cut or walked through: nothing
\* catches the exception, and the review fails before it has a section.
OutlineRaises(most) ==
  /\ phase = "planning"
  /\ Malformed \in Outlines
  /\ outlined' = [reply |-> Malformed, most |-> most]
  /\ phase' = "failed"
  /\ UNCHANGED <<onShelf, sources, sections, outages>>

\* The end of the gather: it raises with the first section that does, and returns
\* when all have.
Gathered(after) ==
  IF phase = "drafting" /\ \A i \in DOMAIN after : after[i].stage = "done"
  THEN "answered" ELSE phase

\* The retrieval of a section: papers of the review that still exist.  A section
\* without a passage says so and calls no model.
RetrieveFor(i, passages) ==
  /\ sections[i].stage = "retrieving"
  /\ passages \subseteq onShelf \cap Range(sources)
  /\ Cardinality(passages) <= MaxRetrieved
  /\ sections' = [sections EXCEPT ![i].stage = IF passages = {} THEN "done" ELSE "writing",
                                  ![i].passages = passages]
  /\ phase' = Gathered(sections')
  /\ UNCHANGED <<onShelf, sources, outlined, outages>>

\* retrieve raises (the embedding provider is out of retries): nothing catches it in
\* the section, and the review fails.  The other sections are not cancelled.
RetrievalRaises(i) ==
  /\ sections[i].stage = "retrieving"
  /\ outages < MaxOutages
  /\ outages' = outages + 1
  /\ sections' = [sections EXCEPT ![i].stage = "raised"]
  /\ phase' = "failed"
  /\ UNCHANGED <<onShelf, sources, outlined>>

\* The model answers with a text that holds these markers.
Draft(i, markers) ==
  /\ sections[i].stage = "writing"
  /\ sections' = [sections EXCEPT ![i].stage = "done",
                                  ![i].cited = ResolveCitations(markers, sections[i].passages)]
  /\ phase' = Gathered(sections')
  /\ UNCHANGED <<onShelf, sources, outlined, outages>>

(* Mutant: a failed draft is not caught. *)
DraftFails_Raises(i) ==
  /\ sections[i].stage = "writing"
  /\ outages < MaxOutages
  /\ outages' = outages + 1
  /\ sections' = [sections EXCEPT ![i].stage = "done"]
  /\ phase' = "failed"
  /\ UNCHANGED <<onShelf, sources, outlined>>

\* The model fails: "This section could not be generated."
DraftFails(i) ==
  /\ sections[i].stage = "writing"
  /\ outages < MaxOutages
  /\ outages' = outages + 1
  /\ sections' = [sections EXCEPT ![i].stage = "done"]
  /\ phase' = Gathered(sections')
  /\ UNCHANGED <<onShelf, sources, outlined>>

\* A paper of the scope is deleted meanwhile.
LosePaper(p) ==
  /\ p \in onShelf
  /\ onShelf' = onShelf \ {p}
  /\ UNCHANGED <<sources, outlined, sections, phase, outages>>

ReviewInit ==
  /\ onShelf = Shelf
  /\ sources = <<>> /\ sections = <<>> /\ outlined = [reply |-> <<>>, most |-> 0]
  /\ phase = "loading" /\ outages = 0

ReviewNext ==
  \/ \E papers \in SUBSET onShelf : \E loaded \in SetToSeqs(papers) : LoadSources(loaded)
  \/ \E outline \in Outlines, most \in MaxSections : PlanOutline(outline, most)
  \/ \E most \in MaxSections : OutlineRaises(most)
  \/ \E i \in DOMAIN sections :
       \/ \E passages \in SUBSET Shelf : RetrieveFor(i, passages)
       \/ RetrievalRaises(i)
       \/ \E markers \in SUBSET (1 .. Len(sources) + 1) : Draft(i, markers)
       \/ DraftFails(i)
  \/ \E p \in Shelf : LosePaper(p)

ReviewSpec == ReviewInit /\ [][ReviewNext]_reviewVars

-----------------------------------------------------------------------------
(* What should hold.                                                       *)

\* A marker means one paper in the whole review, and one its section was given: the
\* number resolves to a paper among the section's own passages, whatever the model
\* wrote and whatever was deleted meanwhile (review.py:204-209, 276-282).
MarkersMeanOnePaper ==
  \A i \in DOMAIN sections : \A n \in sections[i].cited :
    n \in DOMAIN sources /\ sources[n] \in sections[i].passages

\* An answered review has between one section and as many as the request asked for,
\* whatever the outline held, and none of them is still being written
\* (review.py:181-199, 298-306).
ReviewIsWhole ==
  phase = "answered" =>
    /\ Len(sections) \in 1 .. outlined.most
    /\ \A i \in DOMAIN sections : sections[i].stage = "done"

\* A model that fails costs a section its text, never the review.  Two things do cost
\* the review: a retrieval that raises, and an outline whose `sections` is no list
\* (review.py:172-181, 236-242, 266-269).
FailsForTwoReasons ==
  phase = "failed" <=>
    \/ outlined.reply = Malformed
    \/ \E i \in DOMAIN sections : sections[i].stage = "raised"

\* The markers of a review mean one paper each, a review that is answered is whole, and
\* only a retrieval that raises or a malformed outline keeps it from being answered
\* (review.py:152-322).
ReviewIsSound ==
  /\ MarkersMeanOnePaper
  /\ ReviewIsWhole
  /\ FailsForTwoReasons

================================================================================
