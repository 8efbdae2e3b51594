----------------------------- MODULE SectionContext -----------------------------
(***************************************************************************)
(* What the context builder puts in front of a prompt, as far as the       *)
(* audits of its answer read it: the slice of the project that a section's *)
(* prompts see, and the document the integration critic sees.              *)
(*   contracts  the section contracts of the committed plan (a set);       *)
(*   found      for each section with a passing draft or polish, the       *)
(*              latest of them; order, the sections by first appearance.   *)
(***************************************************************************)
EXTENDS AgentKernel

CONSTANTS
    ProfileOf,    \* of a section: its profile, from the title
    TitledAs,     \* the sections whose title says research content
    RulesOf,      \* of a profile: the rules a critic must check
    DigestSize,   \* sections in the digest of earlier ones (30)
    ItemSlice,    \* items shown when the contract names none (6)
    InternalSlice, PublicSlice   \* claims shown besides the named ones (6 and 6)

Trailing(seq, n) == SubSeq(seq, Max2(1, Len(seq) - n + 1), Len(seq))
Leading(seq, n)  == SubSeq(seq, 1, IF n < Len(seq) THEN n ELSE Len(seq))

-----------------------------------------------------------------------------
(* One section.                                                             *)

\* A contract names its section by id or by title; both are the section here.
ContractOf(contracts, s) ==
    IF s \in Known(contracts) THEN CHOOSE c \in contracts : c.section = s ELSE NoContract
Relevant(contract) == contract.claims \cup contract.evidence

\* The relations of an item are looked up by source_id and target_id, which they do not
\* have (they have source_item_id and target_item_id): neighbours are never added.  If none is
\* named, the first items of the list, whose order the set of them does not have.
ScopedItems(pd, contract) ==
    LET named == {i \in pd.items : i.id \in Relevant(contract)} IN
    IF contract = NoContract THEN {}
    ELSE IF named # {} THEN {i.id : i \in named}
    ELSE IF Cardinality(ItemIds(pd)) <= ItemSlice THEN ItemIds(pd)
    ELSE CHOOSE some \in SUBSET ItemIds(pd) : Cardinality(some) = ItemSlice

PublicProfiles == {"BACKGROUND_AND_SIGNIFICANCE", "LITERATURE_REVIEW", "INNOVATION",
                   "REFERENCES", "EVALUATION"}
\* Named claims, some of the project's own, and some public ones: one, if the profile
\* does not argue from literature.
ScopedFacts(facts, contract, profile) ==
    LET Exact(f) == f.id \in Relevant(contract)
        Public(f) == f.type = "PUBLIC_CLAIM"
        exact == SelectSeq(facts, Exact)
        internal == SelectSeq(facts, LAMBDA f : ~Exact(f) /\ ~Public(f))
        public == SelectSeq(facts, LAMBDA f : ~Exact(f) /\ Public(f))
    IN  ClaimIds(exact \o Leading(internal, InternalSlice)
                 \o Leading(public, IF profile \in PublicProfiles THEN PublicSlice ELSE 1))

\* The information keys the other sections have claimed so far.
PriorKeys(found, order, s) ==
    UNION {found[t].keys : t \in Elements(Trailing(SelectSeq(order, LAMBDA x : x # s), DigestSize))}

\* The payload of a section's prompts.
SectionPayload(made, s, found, order) ==
    LET contract == ContractOf(made.plan.contracts, s) IN
    [contract  |-> contract,
     section   |-> s,
     profile   |-> ProfileOf[s],
     titled    |-> s \in TitledAs,
     rules     |-> RulesOf[ProfileOf[s]],
     priorKeys |-> PriorKeys(found, order, s),
     items     |-> ScopedItems(made.definition, contract),
     facts     |-> ScopedFacts(made.facts, contract, ProfileOf[s]),
     graph     |-> made.architecture.graph]

-----------------------------------------------------------------------------
(* The document.                                                            *)

\* The planned sections of the proposal; all of them if the plan names none.
Planned(contracts, sections) ==
    LET named == {c.section : c \in {d \in contracts : d.placement # "OMIT"}} \cap sections
    IN  IF named = {} THEN sections ELSE named
DocumentMap(contracts, sections, found) ==
    {[section |-> s, candidate |-> IF s \in DOMAIN found THEN found[s].id ELSE Absent] :
        s \in Planned(contracts, sections)}

\* The payload of the integration critic.
DocumentPayload(made, sections, found) ==
    LET contracts == made.plan.contracts IN
    [sections  |-> found,
     map       |-> DocumentMap(contracts, sections, found),
     placement |-> [s \in Known(contracts) |-> ContractOf(contracts, s).placement],
     contracts |-> contracts,
     items     |-> ItemIds(made.definition),
     graph     |-> made.architecture.graph]

=============================================================================
