--------------------------- MODULE ContextBuilder ---------------------------
(***************************************************************************)
(* ContextBuilder::build (context.rs): membrane hits, best first, become a *)
(* bundle.  The first loop drops hits below the threshold and repeats of   *)
(* three kinds, crediting the origin of a repeat to the item that stays;   *)
(* then the items are ranked, and a second loop packs them under the token *)
(* and the record budget.                                                  *)
(*                                                                         *)
(* Data abstraction.  A payload is a sequence of sentences, each with its  *)
(* token cost, and two payloads have one BLAKE3 key when they are equal.   *)
(* An embedding is a point on a line; two are within the cosine threshold  *)
(* when they are at most Near apart, so nearness is not transitive.        *)
(***************************************************************************)
EXTENDS Sorting, SequencesExt

CONSTANTS
  Origin,         (* the local tenant and the peers                        *)
  Cost,           (* the sentences and how many tokens each takes          *)
  Record,         (* the records of the tenants: payload and embedding     *)
  Near,
  Absent,         (* no embedding, no budget                               *)
  Similarity,
  Ranker,         (* rankers: what each divides the similarity of an item  *)
                  (* by, in hundredths, for each number of tokens          *)
  Options,        (* the builders to run                                   *)
  MaxHits         (* bound: hits given to build                            *)

Sentence == DOMAIN Cost

Payload == {r.payload : r \in Record}

Embedding == {r.embedding : r \in Record} \ {Absent}

MembraneHit == {[origin |-> o, similarity |-> s, payload |-> r.payload,
                 embedding |-> r.embedding] :
                  o \in Origin, s \in Similarity, r \in Record}

(* What the builder methods set: the least similarity, each of the three   *)
(* dedups, both budgets and the ranker.                                    *)
Option == [minSimilarity : Int, dedup : BOOLEAN, sentenceDedup : BOOLEAN,
           semanticDedup : BOOLEAN, tokenBudget : Nat \cup {Absent},
           recordBudget : Nat \cup {Absent}, ranker : DOMAIN Ranker]

(* from_hits, before any method is called.                                 *)
FromHits == [minSimilarity |-> 0, dedup |-> TRUE, sentenceDedup |-> FALSE,
             semanticDedup |-> FALSE, tokenBudget |-> Absent, recordBudget |-> Absent,
             ranker |-> "similarity"]

ASSUME ContextAssumption ==
  /\ \A s \in Sentence : Cost[s] \in Nat
  /\ Record \subseteq [payload : Seq(Sentence), embedding : Int \cup {Absent}]
  /\ Absent \notin Int /\ Near \in Nat
  /\ Similarity \subseteq Nat
  /\ \A r \in DOMAIN Ranker : \A n \in DOMAIN Ranker[r] : Ranker[r][n] \in Nat \ {0}
  /\ FromHits \in Options /\ Options \subseteq Option
  /\ MaxHits \in Nat

VARIABLES
  option,         (* the builder                                           *)
  stage,          (* "filter", "budget" or "done"                          *)
  hits,           (* the hits the first loop has consumed                  *)
  seenRecord,     (* keys of the eligible items, and where these are       *)
  seenSentence,
  seenUnitVecs,   (* their embeddings, where they have one, likewise       *)
  eligible,
  next,           (* the eligible item the second loop looks at            *)
  bundle

seen == <<seenRecord, seenSentence, seenUnitVecs>>
buildVars == <<option, stage, hits, seen, eligible, next, bundle>>

Item == [origin : Origin, similarity : Similarity, payload : Payload,
         content : Seq(Sentence), tokens : Nat,
         embedding : Embedding \cup {Absent}, sources : Seq(Origin)]

Bundle == [items : Seq(Item), totalTokens : Nat, duplicates : Nat,
           belowThreshold : Nat, overBudget : Nat, redundantSentences : Nat,
           semanticDuplicates : Nat]

BuildTypeOK ==
  /\ option \in Options
  /\ stage \in {"filter", "budget", "done"}
  /\ hits \in Seq(MembraneHit)
  /\ seenRecord \in Seq([key : Payload, winner : 1..Len(eligible)])
  /\ seenSentence \subseteq Sentence
  /\ seenUnitVecs \in Seq([unit : Embedding, winner : 1..Len(eligible)])
  /\ eligible \in Seq(Item)
  /\ next \in 1..Len(eligible) + 1
  /\ bundle \in Bundle

EmptyBundle ==
  [items |-> <<>>, totalTokens |-> 0, duplicates |-> 0, belowThreshold |-> 0,
   overBudget |-> 0, redundantSentences |-> 0, semanticDuplicates |-> 0]

BuildInit ==
  /\ option \in Options
  /\ stage = "filter" /\ hits = <<>>
  /\ seenRecord = <<>> /\ seenSentence = {} /\ seenUnitVecs = <<>>
  /\ eligible = <<>> /\ next = 1
  /\ bundle = EmptyBundle

----------------------------------------------------------------------------
Tokens(content) == FoldLeft(LAMBDA n, s : n + Cost[s], 0, content)

(* A ranker scores whatever is left of a payload.                          *)
ASSUME RankerAssumption ==
  \A r \in DOMAIN Ranker : \A p \in Payload : 0..Tokens(p) \subseteq DOMAIN Ranker[r]

(* dedup_sentences: what is left of a payload.                             *)
Unseen(payload) ==
  FoldLeft(LAMBDA kept, s :
             IF s \in seenSentence \cup ToSet(kept) THEN kept ELSE Append(kept, s),
           <<>>, payload)

Content(hit) == IF option.sentenceDedup THEN Unseen(hit.payload) ELSE hit.payload

Redundant(hit) == Len(hit.payload) - Len(Content(hit))

Within(a, b) == a - b <= Near /\ b - a <= Near

(* The first earlier item with the same key, or with a near embedding.     *)
SameKey(hit) ==
  SelectInSeq(seenRecord, LAMBDA r : option.dedup /\ r.key = hit.payload)

NearDup(hit) ==
  SelectInSeq(seenUnitVecs, LAMBDA u : /\ option.semanticDedup
                                       /\ hit.embedding # Absent
                                       /\ Within(hit.embedding, u.unit))

(* attribute_source                                                        *)
Attributed(winner, origin) ==
  [eligible EXCEPT ![winner].sources =
     IF origin \in ToSet(@) THEN @ ELSE Append(@, origin)]

----------------------------------------------------------------------------
(* The first loop, by the way a hit leaves it.                             *)

Consume(hit) ==
  /\ stage = "filter" /\ Len(hits) < MaxHits
  /\ hits # <<>> => hits[Len(hits)].similarity >= hit.similarity
  /\ hits' = Append(hits, hit)

DropBelowThreshold(hit) ==
  /\ Consume(hit)
  /\ hit.similarity < option.minSimilarity
  /\ bundle' = [bundle EXCEPT !.belowThreshold = @ + 1]
  /\ UNCHANGED <<option, stage, seen, eligible, next>>

(* Mutant: the duplicate is credited but not counted.                      *)
DropDuplicateMutant(hit) ==
  /\ Consume(hit)
  /\ hit.similarity >= option.minSimilarity
  /\ SameKey(hit) # 0
  /\ eligible' = Attributed(seenRecord[SameKey(hit)].winner, hit.origin)
  /\ UNCHANGED <<option, stage, seen, next, bundle>>

DropDuplicate(hit) ==
  /\ Consume(hit)
  /\ hit.similarity >= option.minSimilarity
  /\ SameKey(hit) # 0
  /\ bundle' = [bundle EXCEPT !.duplicates = @ + 1]
  /\ eligible' = Attributed(seenRecord[SameKey(hit)].winner, hit.origin)
  /\ UNCHANGED <<option, stage, seen, next>>

(* Past the threshold and the byte-level dedup.                            *)
Fresh(hit) ==
  /\ Consume(hit)
  /\ hit.similarity >= option.minSimilarity
  /\ SameKey(hit) = 0
  /\ seenSentence' = IF option.sentenceDedup
                       THEN seenSentence \cup ToSet(hit.payload) ELSE seenSentence

(* Mutant: a hit goes as soon as one of its sentences was seen.            *)
NothingNewMutant(hit) == option.sentenceDedup /\ Redundant(hit) > 0

NothingNew(hit) == option.sentenceDedup /\ Content(hit) = <<>>

DropRedundant(hit) ==
  /\ Fresh(hit)
  /\ NothingNew(hit)
  /\ bundle' = [bundle EXCEPT !.redundantSentences = @ + Redundant(hit)]
  /\ UNCHANGED <<option, stage, seenRecord, seenUnitVecs, eligible, next>>

(* Mutant: the place in seen_unit_vecs is taken for the place in eligible. *)
DropSemanticMutant(hit) ==
  /\ Fresh(hit)
  /\ ~NothingNew(hit) /\ NearDup(hit) # 0
  /\ bundle' = [bundle EXCEPT !.semanticDuplicates = @ + 1]
  /\ eligible' = Attributed(NearDup(hit), hit.origin)
  /\ UNCHANGED <<option, stage, seenRecord, seenUnitVecs, next>>

DropSemantic(hit) ==
  /\ Fresh(hit)
  /\ ~NothingNew(hit) /\ NearDup(hit) # 0
  /\ bundle' = [bundle EXCEPT !.semanticDuplicates = @ + 1]
  /\ eligible' = Attributed(seenUnitVecs[NearDup(hit)].winner, hit.origin)
  /\ UNCHANGED <<option, stage, seenRecord, seenUnitVecs, next>>

ItemOf(hit) ==
  [origin |-> hit.origin, similarity |-> hit.similarity, payload |-> hit.payload,
   content |-> Content(hit), tokens |-> Tokens(Content(hit)),
   embedding |-> hit.embedding, sources |-> <<hit.origin>>]

(* Mutant: the embedding of a kept item is not remembered.                 *)
KeepForgetsMutant(hit) ==
  /\ Fresh(hit)
  /\ ~NothingNew(hit) /\ NearDup(hit) = 0
  /\ eligible' = Append(eligible, ItemOf(hit))
  /\ seenRecord' = Append(seenRecord, [key |-> hit.payload, winner |-> Len(eligible')])
  /\ bundle' = [bundle EXCEPT !.redundantSentences = @ + Redundant(hit)]
  /\ UNCHANGED <<option, stage, seenUnitVecs, next>>

Keep(hit) ==
  /\ Fresh(hit)
  /\ ~NothingNew(hit) /\ NearDup(hit) = 0
  /\ eligible' = Append(eligible, ItemOf(hit))
  /\ seenRecord' = Append(seenRecord, [key |-> hit.payload, winner |-> Len(eligible')])
  /\ seenUnitVecs' = IF option.semanticDedup /\ hit.embedding # Absent
                       THEN Append(seenUnitVecs, [unit |-> hit.embedding,
                                                  winner |-> Len(eligible')])
                       ELSE seenUnitVecs
  /\ bundle' = [bundle EXCEPT !.redundantSentences = @ + Redundant(hit)]
  /\ UNCHANGED <<option, stage, next>>

----------------------------------------------------------------------------
(* The ranking, and the second loop.                                       *)

RankScore(item) ==
  (100 * item.similarity) \div Ranker[option.ranker][item.tokens]

Rank ==
  /\ stage = "filter"
  /\ eligible' = Sorted(eligible, [i \in DOMAIN eligible |-> RankScore(eligible[i])])
  /\ stage' = "budget"
  /\ UNCHANGED <<option, hits, seen, next, bundle>>

(* Mutant: an item that uses up the token budget exactly is left out.      *)
FitsMutant(item) ==
  /\ option.tokenBudget # Absent => bundle.totalTokens + item.tokens < option.tokenBudget
  /\ option.recordBudget # Absent => Len(bundle.items) < option.recordBudget

Fits(item) ==
  /\ option.tokenBudget # Absent => bundle.totalTokens + item.tokens <= option.tokenBudget
  /\ option.recordBudget # Absent => Len(bundle.items) < option.recordBudget

LeaveOut ==
  /\ stage = "budget" /\ next <= Len(eligible)
  /\ ~Fits(eligible[next])
  /\ bundle' = [bundle EXCEPT !.overBudget = @ + 1]
  /\ next' = next + 1
  /\ UNCHANGED <<option, stage, hits, seen, eligible>>

Pack ==
  /\ stage = "budget" /\ next <= Len(eligible)
  /\ Fits(eligible[next])
  /\ bundle' = [bundle EXCEPT !.items = Append(@, eligible[next]),
                              !.totalTokens = @ + eligible[next].tokens]
  /\ next' = next + 1
  /\ UNCHANGED <<option, stage, hits, seen, eligible>>

Finish ==
  /\ stage = "budget" /\ next > Len(eligible)
  /\ stage' = "done"
  /\ UNCHANGED <<option, hits, seen, eligible, next, bundle>>

Filter ==
  \E hit \in MembraneHit :
    \/ DropBelowThreshold(hit) \/ DropDuplicate(hit) \/ DropRedundant(hit)
    \/ DropSemantic(hit) \/ Keep(hit)

BuildNext == Filter \/ Rank \/ LeaveOut \/ Pack \/ Finish

BuildSpec == BuildInit /\ [][BuildNext]_buildVars

----------------------------------------------------------------------------
(* Properties.                                                             *)

Passed == {hits[i] : i \in {j \in DOMAIN hits :
                              hits[j].similarity >= option.minSimilarity}}

(* What makes a hit a repeat of an item.                                   *)
Repeats(hit, item) ==
  \/ hit.payload = item.payload
  \/ /\ option.semanticDedup /\ Absent \notin {hit.embedding, item.embedding}
     /\ Within(hit.embedding, item.embedding)

(* What may make a hit a source: that it repeats the item, or, under       *)
(* sentence dedup, that it says a sentence of the item.                    *)
Supports(hit, item) ==
  \/ Repeats(hit, item)
  \/ option.sentenceDedup /\ ToSet(hit.payload) \cap ToSet(item.payload) # {}

(* The provenance an item shows is true and, where the code promises and   *)
(* keeps it, complete (attribute_source).  Each source did ship a hit that *)
(* supports the item, the item's own origin comes first and none is listed *)
(* twice; and without sentence dedup every hit past the threshold is listed*)
(* as a source of an item it repeats, whatever was dropped before and      *)
(* however the ranking moved the items afterwards.  A hit that sentence    *)
(* dedup drops is credited nowhere, against the doc of sources: whether it *)
(* should be is left open here, and either way the property would hold.    *)
SourcesTrue ==
  /\ \A i \in DOMAIN eligible :
       LET item == eligible[i]
       IN  /\ item.sources[1] = item.origin
           /\ IsInjective(item.sources)
           /\ \A o \in ToSet(item.sources) :
                \E h \in Passed : h.origin = o /\ Supports(h, item)
  /\ ~option.sentenceDedup =>
       \A h \in Passed : \E item \in ToSet(eligible) :
         h.origin \in ToSet(item.sources) /\ Repeats(h, item)

(* Nothing passes the filter twice: no two items of a bundle are copies,   *)
(* none are near each other under semantic dedup, and under sentence dedup *)
(* no sentence is in two of them.                                          *)
NoRepeats ==
  \A i, j \in DOMAIN eligible : i < j =>
    /\ option.dedup => eligible[i].payload # eligible[j].payload
    /\ option.semanticDedup =>
         \/ Absent \in {eligible[i].embedding, eligible[j].embedding}
         \/ ~Within(eligible[i].embedding, eligible[j].embedding)
    /\ option.sentenceDedup =>
         ToSet(eligible[i].content) \cap ToSet(eligible[j].content) = {}

Count(item, items) == Cardinality({i \in DOMAIN items : items[i] = item})

TotalTokens(items) == FoldLeft(LAMBDA n, item : n + item.tokens, 0, items)

Affordable(items) ==
  /\ option.tokenBudget # Absent => TotalTokens(items) <= option.tokenBudget
  /\ option.recordBudget # Absent => Len(items) <= option.recordBudget

(* A bundle keeps both budgets and says what it takes, its items come in   *)
(* the order of the ranking from what passed the filter, and it begins with*)
(* as much of the ranking as both budgets can pay for.  Whether the loop   *)
(* goes on behind the first item that overflows, as it does, or stops      *)
(* there, as token_budget has it, is not what this is about.               *)
PackedByRank ==
  stage = "done" =>
    /\ bundle.totalTokens = TotalTokens(bundle.items)
    /\ Affordable(bundle.items)
    /\ \A i, j \in DOMAIN bundle.items :
         i < j => RankScore(bundle.items[i]) >= RankScore(bundle.items[j])
    /\ \A item \in ToSet(bundle.items) :
         Count(item, bundle.items) <= Count(item, eligible)
    /\ \A n \in DOMAIN eligible :
         Affordable(SubSeq(eligible, 1, n)) =>
           IsPrefix(SubSeq(eligible, 1, n), bundle.items)

(* Every hit is accounted for: in the bundle, in one counter, made up of   *)
(* sentences of which each is counted as redundant, or blank               *)
(* (ContextBundle).                                                        *)
AllAccounted ==
  stage = "done" =>
    LET lost == Len(hits) - Len(bundle.items) - bundle.duplicates
                  - bundle.belowThreshold - bundle.overBudget
                  - bundle.semanticDuplicates
        blank == {i \in DOMAIN hits : hits[i].payload = <<>>}
    IN  /\ lost >= 0
        /\ lost > 0 => option.sentenceDedup
        /\ lost <= bundle.redundantSentences + Cardinality(blank)

(* "Lossless on information: every unique sentence still appears exactly   *)
(* once" (ContextBuilder::sentence_dedup), as long as semantic dedup drops *)
(* nothing and there is no budget: what a hit says is in the bundle.       *)
SentencesKept ==
  stage = "done" /\ option.sentenceDedup /\ bundle.semanticDuplicates = 0
              /\ option.tokenBudget = Absent /\ option.recordBudget = Absent =>
    \A h \in Passed : \A s \in ToSet(h.payload) :
      \E i \in DOMAIN bundle.items : s \in ToSet(bundle.items[i].content)
=============================================================================
