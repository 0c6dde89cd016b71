------------------------------- MODULE Networks -------------------------------
(***************************************************************************)
(* The corpus read as a graph: the networks and the overview of /graph     *)
(* (graph/analytics.py) and the expansion of a question to related papers  *)
(* (graph/retrieval.py).  Each reads the relational mirror in several      *)
(* statements of one request, first the papers the caller may see and then *)
(* what they hold, while papers are deleted and mirrored again.            *)
(*                                                                         *)
(* The row limits of the statements (2000 references, 5000 entities) are   *)
(* taken to be large enough; the limits on what is shown are parameters.   *)
(***************************************************************************)
EXTENDS Naturals, FiniteSetsExt, SequencesExt

CONSTANTS
  Corpus,        \* the papers, of this caller and of others
  HeldBy,        \* HeldBy[p]: "caller" or "other"
  Heading,       \* Heading[p]: normalize_key of the title, or Untitled
  Untitled,      \* title is NULL
  Byline,        \* Byline[p]: split_authors of its authors, which may repeat a name
  Bibliography,  \* Bibliography[p]: the normalized titles of its references, in order
  Mirrored,      \* Mirrored[p]: the sets of entities <<label, key>> a build may mirror
  NamedIn,       \* NamedIn[p][e]: how paper p spells an entity; one key has many spellings
  Questions,     \* the sets of keys a question may name
  Exclusions,    \* the sets of papers a caller of expand may exclude
  LabelFilters,  \* the labels a caller of /network may ask for, {} for any
  MinShared,     \* the min_papers it may ask for
  MaxSeeds,      \* MAX_SEED_ENTITIES
  MaxRelated,    \* MAX_RELATED_PAPERS
  MaxNodes,      \* the limit of a network
  MaxChanges     \* bound: deletions and builds in one behaviour

ASSUME NetworksAssumption ==
  /\ {MaxSeeds, MaxRelated, MaxNodes} \subseteq Nat \ {0} /\ MaxChanges \in Nat
  /\ IsFiniteSet(Corpus)
  /\ \A p \in Corpus :
       /\ HeldBy[p] \in {"caller", "other"}
       /\ Byline[p] \in Seq(ToSet(Byline[p]))
       /\ \A entities \in Mirrored[p] : IsFiniteSet(entities)

VARIABLES
  shelved,     \* the papers whose row exists
  entityRows,  \* extracted_entities: the entities of each paper
  changes,     \* how often one of the two has changed
  view         \* the request: what it asked for, what it has read and what it shows

networkVars == <<shelved, entityRows, changes, view>>

-----------------------------------------------------------------------------
(* Ranking and counting.                                                   *)

\* most_common(n), [:n] of a sorted list, and LIMIT n of an ordered statement: at
\* most n members, none of which weighs less than one left out.
TopOf(S, weight, n) ==
  {kept \in SUBSET S : /\ Cardinality(kept) = Min({n, Cardinality(S)})
                       /\ \A x \in kept, y \in S \ kept : weight[x] >= weight[y]}

\* LIMIT n of a statement that is not ordered, or by a column that is not modelled.
SomeOf(S, n) == kSubset(Min({n, Cardinality(S)}), S)

\* Where names stand in bylines, and which of them stand together.
Listings(papers) == UNION {{<<p, i>> : i \in DOMAIN Byline[p]} : p \in papers}
NameAt(listing) == Byline[listing[1]][listing[2]]
Together(papers) == {lm \in Listings(papers) \X Listings(papers) :
                       lm[1][1] = lm[2][1] /\ lm[1][2] < lm[2][2]}

AuthorWeights(papers) ==
  [name \in {NameAt(l) : l \in Listings(papers)} |->
     Cardinality({l \in Listings(papers) : NameAt(l) = name})]

PairWeights(papers) ==
  [pair \in {{NameAt(lm[1]), NameAt(lm[2])} : lm \in Together(papers)} |->
     Cardinality({lm \in Together(papers) : {NameAt(lm[1]), NameAt(lm[2])} = pair})]

\* The titled papers by their titles: of two with one title the row that comes last.
TitleIndexes(papers) ==
  LET titles == {Heading[p] : p \in papers} \ {Untitled}
  IN  {index \in [titles -> papers] : \A t \in titles : Heading[index[t]] = t}

\* The citations that resolve to another paper.
Resolved(citing, index) ==
  {edge \in UNION {{<<p, index[t]>> : t \in ToSet(Bibliography[p]) \cap DOMAIN index} :
                     p \in citing} : edge[1] # edge[2]}

(* Mutant: every reference counts, not every citing paper. *)
CitationWeights_PerReference(papers, citing, index) ==
  [q \in papers |-> 1 + Cardinality(UNION {{<<p, i>> : i \in {j \in DOMAIN Bibliography[p] :
       Bibliography[p][j] \in DOMAIN index /\ index[Bibliography[p][j]] = q /\ p # q}} : p \in citing})]

CitationWeights(papers, citing, index) ==
  [q \in papers |-> 1 + Cardinality({edge \in Resolved(citing, index) : edge[2] = q})]

\* The papers of a set that mention an entity, and how many there are.
Carriers(papers, e) == {p \in papers : e \in entityRows[p]}
EntityWeights(papers, labels) ==
  [e \in {f \in UNION {entityRows[p] : p \in papers} : labels = {} \/ f[1] \in labels} |->
     Cardinality(Carriers(papers, e))]

\* entity_cooccurrence groups by label and name: two spellings of one key are two.
Headlines(p) == {<<e[1], NamedIn[p][e]>> : e \in entityRows[p]}
HeadlineWeights(papers) ==
  [h \in UNION {Headlines(p) : p \in papers} |-> Cardinality({p \in papers : h \in Headlines(p)})]

(* Mutant: a key under two labels counts twice. *)
Degrees_PerRow(papers) ==
  [p \in {q \in papers : entityRows[q] # {}} |-> Cardinality(entityRows[p])]

\* most_connected_papers counts keys: one key under two labels is one.
Degrees(papers) ==
  [p \in {q \in papers : entityRows[q] # {}} |-> Cardinality({e[2] : e \in entityRows[p]})]

-----------------------------------------------------------------------------
(* The library changes.                                                    *)

RemoveFromShelf(p) ==
  /\ changes < MaxChanges
  /\ p \in shelved
  /\ shelved' = shelved \ {p}
  /\ entityRows' = [entityRows EXCEPT ![p] = {}]
  /\ changes' = changes + 1
  /\ UNCHANGED view

\* _mirror_entities commits what another build has found.
MirrorAgain(p, entities) ==
  /\ changes < MaxChanges
  /\ p \in shelved
  /\ entityRows' = [entityRows EXCEPT ![p] = entities]
  /\ changes' = changes + 1
  /\ UNCHANGED <<shelved, view>>

-----------------------------------------------------------------------------
(* The networks and the overview.                                          *)

Accessible0 == {p \in shelved : HeldBy[p] = "caller"}

\* accessible_paper_ids, the first statements of every request.
AskView(kind) ==
  /\ view.stage = "none"
  /\ view' = [stage |-> "scoped", kind |-> kind, ids |-> Accessible0, began |-> changes]
  /\ UNCHANGED <<shelved, entityRows, changes>>

\* What a statement that names the papers of the request finds of them now.
Found0 == view.ids \cap shelved

Show(nodes, weights, edges, papers) ==
  /\ view' = [stage |-> "shown", kind |-> view.kind, ids |-> view.ids, began |-> view.began,
              nodes |-> nodes, weights |-> weights, edges |-> edges, papers |-> papers]
  /\ UNCHANGED <<shelved, entityRows, changes>>

(* Mutant: an edge is kept when one of its authors is shown. *)
CoauthorEdges_OneEnd(nodes, weights) == {pair \in DOMAIN weights : pair \cap nodes # {}}

CoauthorEdges(nodes, weights) == {pair \in DOMAIN weights : pair \subseteq nodes}

\* coauthorship_network.
ShowAuthors ==
  /\ view.stage = "scoped" /\ view.kind = "authors"
  /\ LET counts == AuthorWeights(Found0)
         pairs == PairWeights(Found0)
     IN  \E nodes \in TopOf(DOMAIN counts, counts, MaxNodes) :
           LET edges == CoauthorEdges(nodes, pairs)
           IN  Show(nodes, counts, {[ends |-> e, weight |-> pairs[e]] : e \in edges}, Found0)

\* citation_network, its two statements: the titles, then the references.
ReadTitles ==
  /\ view.stage = "scoped" /\ view.kind = "citations"
  /\ view' = [stage |-> "titled", kind |-> view.kind, ids |-> view.ids, began |-> view.began,
              papers |-> Found0]
  /\ UNCHANGED <<shelved, entityRows, changes>>

ShowCitations ==
  /\ view.stage = "titled"
  /\ \E index \in TitleIndexes(view.papers) :
       LET weights == CitationWeights(view.papers, Found0, index)
       IN  \E nodes \in TopOf(view.papers, weights, MaxNodes) :
             Show(nodes, weights, Resolved(Found0, index), view.papers)

\* entity_network: the entities of enough papers, and the papers they are linked to.
ShowEntities(labels, minPapers) ==
  /\ view.stage = "scoped" /\ view.kind = "entities"
  /\ LET counts == EntityWeights(Found0, labels)
         shared == {e \in DOMAIN counts : counts[e] >= minPapers}
     IN  \E nodes \in TopOf(shared, counts, MaxNodes) :
           Show(nodes, counts, UNION {{<<p, e>> : p \in Carriers(Found0, e)} : e \in nodes}, Found0)

\* overview, its two statements: entity_cooccurrence, then most_connected_papers.
ReadHeadlines ==
  /\ view.stage = "scoped" /\ view.kind = "overview"
  /\ LET counts == HeadlineWeights(Found0)
     IN  \E top \in TopOf(DOMAIN counts, counts, MaxNodes) :
           view' = [stage |-> "headed", kind |-> view.kind, ids |-> view.ids, began |-> view.began,
                    nodes |-> top, weights |-> counts]
  /\ UNCHANGED <<shelved, entityRows, changes>>

ShowOverview ==
  /\ view.stage = "headed"
  /\ LET degrees == Degrees(Found0)
     IN  \E top \in TopOf(DOMAIN degrees, degrees, MaxNodes) :
           Show(view.nodes, view.weights, {<<p, degrees[p]>> : p \in top}, top)

-----------------------------------------------------------------------------
(* The expansion of a question.                                            *)

\* _accessible_paper_ids.
AskExpansion(question, excluded) ==
  /\ view.stage = "none"
  /\ view' = [stage |-> "asked", kind |-> "expansion", ids |-> Accessible0, began |-> changes,
              question |-> question, excluded |-> excluded, seeds |-> <<>>, next |-> 1,
              rows |-> {}, found |-> <<>>, related |-> <<>>]
  /\ UNCHANGED <<shelved, entityRows, changes>>

\* find_seed_entities: entities of the caller's papers that the question names, the
\* most confident first, each once.
ReadSeeds ==
  /\ view.stage = "asked"
  /\ LET named == {e \in UNION {entityRows[p] : p \in Found0} : e[2] \in view.question}
     IN  \E kept \in SomeOf(named, MaxSeeds) : \E seeds \in SetToSeqs(kept) :
           view' = [view EXCEPT !.stage = "seeded", !.seeds = seeds]
  /\ UNCHANGED <<shelved, entityRows, changes>>

(* Mutant: the papers of all callers that share the entity. *)
SiblingsOf_Everyone(seed) == Carriers(shelved, seed)

SiblingsOf(seed) == Carriers(Found0, seed)

\* One round of the loop: the rows of a seed as the statement cuts them, and of those
\* the papers that are not excluded, in the order the rows come in.
ReadSiblings ==
  /\ view.stage = "seeded" /\ view.next <= Len(view.seeds)
  /\ LET seed == view.seeds[view.next]
     IN  \E siblings \in SomeOf(SiblingsOf(seed), MaxRelated) :
           \E order \in SetToSeqs(siblings \ view.excluded) :
             view' = [view EXCEPT
               !.next = @ + 1,
               !.rows = @ \cup {<<p, seed>> : p \in siblings},
               !.found = @ \o [i \in DOMAIN order |-> <<order[i], seed>>]]
  /\ UNCHANGED <<shelved, entityRows, changes>>

\* _rank_paths: a path per paper, that found first, sorted by how often it was found;
\* the sort is stable.
Strength(found, p) == Cardinality({i \in DOMAIN found : found[i][1] = p})
FirstAt(found, p) == Min({i \in DOMAIN found : found[i][1] = p})

Precedes(found, p, q) ==
  \/ Strength(found, p) > Strength(found, q)
  \/ Strength(found, p) = Strength(found, q) /\ FirstAt(found, p) < FirstAt(found, q)

RankedPaths(found) ==
  LET papers == {path[1] : path \in ToSet(found)}
      Above(p) == {q \in papers : Precedes(found, q, p)}
  IN  [k \in 1 .. Cardinality(papers) |-> CHOOSE p \in papers : Cardinality(Above(p)) = k - 1]

(* Mutant: the paths are cut before they are ranked. *)
RankPaths_CutFirst(found) == RankedPaths(SubSeq(found, 1, Min({MaxRelated, Len(found)})))

RankPaths(found) ==
  LET ranked == RankedPaths(found)
  IN  SubSeq(ranked, 1, Min({MaxRelated, Len(ranked)}))

FinishExpansion ==
  /\ view.stage = "seeded" /\ view.next > Len(view.seeds)
  /\ view' = [view EXCEPT !.stage = "expanded", !.related = RankPaths(view.found)]
  /\ UNCHANGED <<shelved, entityRows, changes>>

-----------------------------------------------------------------------------

NetworksInit ==
  /\ shelved = Corpus
  /\ entityRows \in [Corpus -> UNION {Mirrored[p] : p \in Corpus}]
  /\ \A p \in Corpus : entityRows[p] \in Mirrored[p]
  /\ changes = 0
  /\ view = [stage |-> "none", kind |-> "none", ids |-> {}, began |-> 0]

NetworksNext ==
  \/ \E p \in Corpus : RemoveFromShelf(p)
  \/ \E p \in Corpus : \E entities \in Mirrored[p] : MirrorAgain(p, entities)
  \/ \E kind \in {"authors", "citations", "entities", "overview"} : AskView(kind)
  \/ ShowAuthors
  \/ ReadTitles
  \/ ShowCitations
  \/ \E labels \in LabelFilters, minPapers \in MinShared : ShowEntities(labels, minPapers)
  \/ ReadHeadlines
  \/ ShowOverview
  \/ \E question \in Questions, excluded \in Exclusions : AskExpansion(question, excluded)
  \/ ReadSeeds
  \/ ReadSiblings
  \/ FinishExpansion

NetworksSpec == NetworksInit /\ [][NetworksNext]_networkVars

-----------------------------------------------------------------------------
(* What should hold.                                                       *)

ShownAs(kind) == view.stage = "shown" /\ view.kind = kind

\* An author network joins authors it shows; an edge stands for the papers both
\* wrote, and no author is on fewer papers than one of its edges, as long as no
\* byline repeats a name (analytics.py:63-87).
AuthorsAreJoined ==
  ShownAs("authors") =>
    LET Wrote(name) == {p \in view.papers : name \in ToSet(Byline[p])}
    IN  \A e \in view.edges :
          /\ e.ends \subseteq view.nodes
          /\ (\A p \in view.papers : IsInjective(Byline[p])) =>
               /\ e.weight = Cardinality({p \in view.papers : \A name \in e.ends : p \in Wrote(name)})
               /\ \A name \in e.ends : e.weight <= view.weights[name]

\* A citation network shows each citation once, between two papers the first
\* statement read, whatever is deleted before the second; a node's weight counts the
\* edges into it; and unless the limit cut some, every end of an edge is a node
\* (analytics.py:102-142).
CitationsAreCounted ==
  ShownAs("citations") =>
    /\ \A e \in view.edges : e[1] # e[2] /\ {e[1], e[2]} \subseteq view.papers
    /\ \A q \in view.nodes : view.weights[q] = 1 + Cardinality({e \in view.edges : e[2] = q})
    /\ Cardinality(view.papers) <= MaxNodes =>
         \A e \in view.edges : {e[1], e[2]} \subseteq view.nodes

\* What the two halves of an overview count, by the rows as they are.
HeadlinesAreExact ==
  \A h \in view.nodes : view.weights[h] = Cardinality({p \in view.ids : h \in Headlines(p)})
DegreesAreExact ==
  \A x \in view.edges : x[2] = Cardinality({e[2] : e \in entityRows[x[1]]})

\* The weight of an entity in its network is the number of its edges.  The overview
\* names papers its request may see only, and counts an entity in no more papers than
\* those; and unless something changed since the request began, both of its halves are
\* exact: papers per label and name, keys per paper.  A build or a deletion between its
\* two statements can make the halves disagree (analytics.py:164-203, 239-261,
\* retrieval.py:192-217).
EntitiesAreCounted ==
  /\ ShownAs("entities") =>
       \A e \in view.nodes : view.weights[e] = Cardinality({x \in view.edges : x[2] = e})
  /\ ShownAs("overview") =>
       /\ {x[1] : x \in view.edges} \subseteq view.ids
       /\ \A h \in view.nodes : view.weights[h] <= Cardinality(view.ids)
       /\ changes = view.began => HeadlinesAreExact /\ DegreesAreExact

\* An expansion names papers of the caller that share an entity the question names,
\* none of them excluded and none twice, those with more shared entities first; and
\* when nothing changed meanwhile and no statement was cut, it misses none
\* (retrieval.py:120-189).
ExpansionIsFair ==
  view.stage = "expanded" =>
    LET related == view.related
        Shared(p) == {row[2] : row \in {r \in view.rows : r[1] = p}}
        reached == {row[1] : row \in view.rows} \ view.excluded
    IN  /\ IsInjective(related) /\ Len(related) <= MaxRelated
        /\ ToSet(related) \subseteq {p \in reached : HeldBy[p] = "caller"}
        /\ \A i, j \in DOMAIN related :
             i < j => Cardinality(Shared(related[i])) >= Cardinality(Shared(related[j]))
        /\ \A p \in reached \ ToSet(related), q \in ToSet(related) :
             Cardinality(Shared(p)) <= Cardinality(Shared(q))
        /\ (/\ changes = view.began
            /\ \A e \in UNION {entityRows[p] : p \in view.ids} :
                 Cardinality(Carriers(view.ids, e)) <= MaxRelated
            /\ Cardinality({e \in UNION {entityRows[p] : p \in view.ids} :
                              e[2] \in view.question}) <= MaxSeeds) =>
             reached = {p \in view.ids \ view.excluded :
                          \E e \in entityRows[p] : e[2] \in view.question}

\* Author networks join authors they show, citation and entity networks weigh a node by
\* its edges, an overview is exact unless something changed meanwhile, and expansions
\* are fair (graph/analytics.py, graph/retrieval.py:64-217).
NetworksAreSound ==
  /\ AuthorsAreJoined
  /\ CitationsAreCounted
  /\ EntitiesAreCounted
  /\ ExpansionIsFair

===============================================================================
