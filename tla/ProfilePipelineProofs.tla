------------------------ MODULE ProfilePipelineProofs ------------------------
(* What holds of the way from a saved profile to the jobs offered for it,  *)
(* whatever the texts, filters and listings and however many saves and     *)
(* faults: its types, that a parse never replaces what the user chose, and *)
(* that a batch offers nothing his filters exclude.                        *)
EXTENDS ProfilePipeline, TLAPS

EmbedShape ==
    [pc : {"idle", "read", "parse", "fill", "save", "rematch", "ack"},
     text : Texts \cup {NoText}, parse : Parse]

RematchShape ==
    [pc : {"idle", "find", "filter", "publish", "ack"},
     text : Texts \cup {NoText}, jobs : SUBSET Listings, edited : BOOLEAN]

Typing ==
    /\ profile \in Texts \cup {NoText}
    /\ embedding \in Texts \cup {NoText}
    /\ matched \in Texts \cup {NoText}
    /\ prefs \in Preferences /\ chosen \in Preferences
    /\ stage \in {"none", "free", "leased", "lapsed"}
    /\ disp \in {"idle", "claimed", "sent", "refused"}
    /\ ec \in EmbedShape /\ rc \in RematchShape
    /\ embedQ \in Nat /\ rematchQ \in Nat

(* Whoever asks for an embedding, from the outbox row to the consumer at   *)
(* work, has a profile to ask it for.                                      *)
Asked ==
    /\ stage # "none" => profile \in Texts
    /\ disp # "idle" => stage # "none"
    /\ embedQ > 0 \/ ec.pc # "idle" => profile \in Texts
    /\ ec.pc \in {"parse", "fill", "save"} => ec.text \in Texts

(* Whoever asks for a rematch has an embedding to match by.                *)
Embedded ==
    ec.pc \in {"rematch", "ack"} \/ rematchQ > 0 \/ rc.pc # "idle" => embedding \in Texts

TypeInv == Typing /\ Asked /\ Embedded

---------------------------------------------------------------------------
(* Values the actions write.                                               *)

LEMMA IdleTypes == IdleEmbed \in EmbedShape /\ IdleRematch \in RematchShape
  BY DEF IdleEmbed, IdleRematch, NoParse, Nil, Parse, EmbedShape, RematchShape

LEMMA LocalParseType == \A text \in Texts : LocalParse(text) \in Parse
  BY ProfileAssumption DEF LocalParse, TextShape, Parse

(* What the language model answers is a parse once it is normalised.       *)
LEMMA ModelParseType ==
    ASSUME NEW text \in Texts, NEW g \in ModelParses(text)
    PROVE  g \in Parse
  <1>1. PICK a \in Guesses[text] :
            g = [stack |-> a.stack, min |-> IF a.min > 0 THEN a.min ELSE Nil]
    BY DEF ModelParses
  <1>2. a \in Parse
    BY ProfileAssumption
  <1> QED BY <1>1, <1>2 DEF Parse, Nil

LEMMA FilledType ==
    ASSUME NEW p \in Preferences, NEW parse \in Parse
    PROVE  Filled(p, parse) \in Preferences
  BY DEF Filled, Preferences, Parse

(* A fill writes the two fields it may write, and those only when empty.   *)
LEMMA FilledKeeps ==
    ASSUME NEW p \in Preferences, NEW parse \in Parse
    PROVE  /\ p.include # {} => Filled(p, parse).include = p.include
           /\ p.min # Nil => Filled(p, parse).min = p.min
           /\ Filled(p, parse).exclude = p.exclude
           /\ Filled(p, parse).max = p.max
           /\ Filled(p, parse).sources = p.sources
  BY DEF Filled, Preferences

---------------------------------------------------------------------------
LEMMA TypeInvInit == Init => TypeInv
  BY IdleTypes DEF Init, TypeInv, Typing, Asked, Embedded, NoFilter, Preferences, Nil,
                   IdleEmbed, IdleRematch

LEMMA TypeInvImplies == TypeInv => TypeOK
  BY DEF TypeInv, Typing, Asked, Embedded, TypeOK, EmbedShape, RematchShape

LEMMA SaveStepType ==
    ASSUME TypeInv
    PROVE  /\ \A text \in Texts : SaveProfile(text) => TypeInv'
           /\ \A p \in Choices : SaveFilters(p) => TypeInv'
  <1>1. ASSUME NEW text \in Texts, SaveProfile(text) PROVE TypeInv'
    BY <1>1 DEF SaveProfile, TypeInv, Typing, Asked, Embedded
  <1>2. ASSUME NEW p \in Choices, SaveFilters(p) PROVE TypeInv'
    <2>1. p \in Preferences
      BY ProfileAssumption
    <2>2. rc' \in RematchShape /\ rc'.pc = rc.pc
      BY <1>2 DEF SaveFilters, TypeInv, Typing, RematchShape
    <2> QED BY <1>2, <2>1, <2>2 DEF SaveFilters, TypeInv, Typing, Asked, Embedded, outboxVars
  <1> QED BY <1>1, <1>2

LEMMA DispatchStepType ==
    ASSUME TypeInv, DispatchStep \/ EnqueueRefused \/ FlushFails \/ LeaseEnds
    PROVE  TypeInv'
  <1> USE DEF TypeInv, Typing, Asked, Embedded, userVars, outboxVars, ghosts
  <1>1. CASE Claim
    BY <1>1 DEF Claim
  <1>2. CASE Enqueue
    BY <1>2 DEF Enqueue
  <1>3. CASE Delete
    BY <1>3 DEF Delete
  <1>4. CASE Release
    BY <1>4 DEF Release
  <1>5. CASE EnqueueRefused
    BY <1>5 DEF EnqueueRefused
  <1>6. CASE FlushFails
    BY <1>6 DEF FlushFails
  <1>7. CASE LeaseEnds
    BY <1>7 DEF LeaseEnds
  <1> QED BY <1>1, <1>2, <1>3, <1>4, <1>5, <1>6, <1>7 DEF DispatchStep

LEMMA EmbedStepType ==
    ASSUME TypeInv, EmbedStep \/ EmbedFails
    PROVE  TypeInv'
  <1> USE DEF TypeInv, Typing, Asked, Embedded, userVars, outboxVars, ghosts
  <1>1. CASE EmbedPop
    BY <1>1, IdleTypes DEF EmbedPop, IdleEmbed, EmbedShape
  <1>2. CASE EmbedRead
    BY <1>2 DEF EmbedRead, EmbedShape
  <1>3. CASE EmbedParse
    <2>1. ec.pc = "parse" /\ ec.text \in Texts
      BY <1>3 DEF EmbedParse
    <2>2. /\ ec' \in EmbedShape
          /\ ec'.text = ec.text /\ ec'.pc \in {"fill", "save"}
      BY <1>3, <2>1, LocalParseType, ModelParseType DEF EmbedParse, EmbedShape
    <2> QED BY <1>3, <2>1, <2>2 DEF EmbedParse
  <1>4. CASE EmbedFill
    <2>1. prefs' \in Preferences
      BY <1>4, FilledType DEF EmbedFill, EmbedShape
    <2>2. /\ ec' \in EmbedShape /\ ec'.pc = "save"
          /\ ec'.text = ec.text
      BY <1>4, IdleTypes DEF EmbedFill, EmbedShape, IdleEmbed
    <2> QED BY <1>4, <2>1, <2>2 DEF EmbedFill
  <1>5. CASE EmbedSave
    BY <1>5 DEF EmbedSave, EmbedShape
  <1>6. CASE EmbedRematch
    BY <1>6, IdleTypes DEF EmbedRematch, IdleEmbed, EmbedShape
  <1>7. CASE EmbedAck
    BY <1>7, IdleTypes DEF EmbedAck, IdleEmbed
  <1>8. CASE EmbedFails
    BY <1>8, IdleTypes DEF EmbedFails, IdleEmbed
  <1> QED BY <1>1, <1>2, <1>3, <1>4, <1>5, <1>6, <1>7, <1>8 DEF EmbedStep

LEMMA RematchStepType ==
    ASSUME TypeInv, RematchStep \/ RematchFails
    PROVE  TypeInv'
  <1> USE DEF TypeInv, Typing, Asked, Embedded, userVars, outboxVars, ghosts
  <1>1. CASE RematchPop
    <2>1. rc' = [IdleRematch EXCEPT !.pc = "find"] /\ rc' \in RematchShape
      BY <1>1, IdleTypes DEF RematchPop, RematchShape
    <2>2. rematchQ > 0 /\ rematchQ' \in Nat
      BY <1>1 DEF RematchPop
    <2> QED BY <1>1, <2>1, <2>2 DEF RematchPop
  <1>2. CASE RematchFind
    <2>1. PICK found \in SUBSET {job \in Listings : <<embedding, job>> \in Similar} :
              rc' = [rc EXCEPT !.pc = "filter", !.text = embedding, !.jobs = found]
      BY <1>2 DEF RematchFind
    <2>2. rc' \in RematchShape /\ rc.pc # "idle"
      BY <1>2, <2>1 DEF RematchFind, RematchShape
    <2> QED BY <1>2, <2>2 DEF RematchFind
  <1>3. CASE RematchFilter
    <2>1. PICK sent \in SUBSET {job \in rc.jobs : Allows(job, prefs, profile)} :
              rc' = [rc EXCEPT !.pc = "publish", !.jobs = sent]
      BY <1>3 DEF RematchFilter
    <2>2. rc' \in RematchShape /\ rc.pc # "idle"
      BY <1>3, <2>1 DEF RematchFilter, RematchShape
    <2> QED BY <1>3, <2>2 DEF RematchFilter
  <1>4. CASE RematchPublish
    BY <1>4, IdleTypes DEF RematchPublish, IdleRematch, RematchShape
  <1>5. CASE RematchAck
    BY <1>5, IdleTypes DEF RematchAck, IdleRematch
  <1>6. CASE RematchFails
    BY <1>6, IdleTypes DEF RematchFails, IdleRematch
  <1> QED BY <1>1, <1>2, <1>3, <1>4, <1>5, <1>6 DEF RematchStep

LEMMA TypeInvStep == TypeInv /\ [Next]_vars => TypeInv'
  <1> SUFFICES ASSUME TypeInv, [Next]_vars PROVE TypeInv'
    OBVIOUS
  <1>1. CASE UNCHANGED vars
    BY <1>1 DEF vars, userVars, outboxVars, ghosts, TypeInv, Typing, Asked, Embedded
  <1> QED BY <1>1, SaveStepType, DispatchStepType, EmbedStepType, RematchStepType DEF Next

(* The values of all variables, and the links that make each consumer find *)
(* what it reads: a row is leased only while it is there, the embed        *)
(* consumer works for a user with a profile, the rematch consumer for one  *)
(* with an embedding.                                                      *)
THEOREM TypeCorrect == Spec => []TypeOK
  BY TypeInvInit, TypeInvStep, TypeInvImplies, PTL DEF Spec

---------------------------------------------------------------------------
(* The filters.                                                            *)

LEMMA ChoiceStep ==
    ASSUME TypeInv, ChoiceSurvivesParse, [Next]_vars
    PROVE  ChoiceSurvivesParse'
  <1>1. CASE \E p \in Choices : SaveFilters(p)
    BY <1>1 DEF SaveFilters, ChoiceSurvivesParse
  <1>2. CASE EmbedFill
    <2>1. prefs \in Preferences /\ ec.parse \in Parse
      BY DEF TypeInv, Typing, EmbedShape
    <2>2. prefs' = Filled(prefs, ec.parse) /\ chosen' = chosen
      BY <1>2 DEF EmbedFill, ghosts
    <2>3. /\ prefs.include # {} => prefs'.include = prefs.include
          /\ prefs.min # Nil => prefs'.min = prefs.min
          /\ prefs'.exclude = prefs.exclude
          /\ prefs'.max = prefs.max
          /\ prefs'.sources = prefs.sources
      BY <2>1, <2>2, FilledKeeps
    <2> QED BY <2>2, <2>3 DEF ChoiceSurvivesParse
  <1>3. CASE UNCHANGED <<prefs, chosen>>
    BY <1>3 DEF ChoiceSurvivesParse
  <1>4. \/ \E p \in Choices : SaveFilters(p)
        \/ EmbedFill
        \/ UNCHANGED <<prefs, chosen>>
    BY DEF Next, vars, userVars, outboxVars, ghosts, SaveProfile,
           DispatchStep, Claim, Enqueue, Delete, Release, EnqueueRefused, FlushFails, LeaseEnds,
           EmbedStep, EmbedPop, EmbedRead, EmbedParse, EmbedSave, EmbedRematch, EmbedAck, EmbedFails,
           RematchStep, RematchPop, RematchFind, RematchFilter, RematchPublish, RematchAck,
           RematchFails
  <1> QED BY <1>1, <1>2, <1>3, <1>4

(* The filter lets no job through that the choice excludes, even though it *)
(* reads the filters after the parse has filled some of them.              *)
LEMMA AllowedIsWanted ==
    ASSUME TypeInv, ChoiceSurvivesParse, NEW job \in Listings, Allows(job, prefs, profile)
    PROVE  ~Excluded(job, chosen)
  <1>1. job.budget \in Nat
    BY ProfileAssumption DEF ListingShape
  <1>2. prefs \in Preferences /\ chosen \in Preferences
    BY DEF TypeInv, Typing
  <1>3. ~(chosen.sources # {} /\ job.source \notin chosen.sources)
    BY DEF Allows, ChoiceSurvivesParse
  <1>4. chosen.exclude \cap job.words = {}
    BY DEF Allows, WordsFit, ChoiceSurvivesParse
  <1>5. ~(chosen.include # {} /\ chosen.include \cap job.words = {})
    BY DEF Allows, WordsFit, ChoiceSurvivesParse
  <1>6. ASSUME job.budget # Nil
        PROVE  ~(job.budget < chosen.min) /\ ~(chosen.max # Nil /\ job.budget > chosen.max)
    <2>1. job.budget >= Minimum(prefs, profile)
      BY <1>6 DEF Allows, BudgetFits
    <2>2. prefs.max = Nil \/ job.budget <= prefs.max
      BY <1>6 DEF Allows, BudgetFits
    <2>3. chosen.min # Nil => Minimum(prefs, profile) = chosen.min
      BY DEF ChoiceSurvivesParse, Minimum
    <2>4. chosen.min \in Nat /\ chosen.max \in Nat /\ chosen.max = prefs.max
      BY <1>2 DEF ChoiceSurvivesParse, Preferences
    <2> QED BY <1>1, <2>1, <2>2, <2>3, <2>4 DEF Nil
  <1> QED BY <1>3, <1>4, <1>5, <1>6 DEF Excluded

LEMMA OffersStep ==
    ASSUME TypeInv, ChoiceSurvivesParse, OffersAreWanted, [Next]_vars
    PROVE  OffersAreWanted'
  <1> USE DEF TypeInv, Typing
  <1>1. CASE \E p \in Choices : SaveFilters(p)
    <2>1. rc' = [rc EXCEPT !.edited = (rc.pc = "publish")]
      BY <1>1 DEF SaveFilters
    <2>2. rc'.pc = rc.pc /\ rc'.edited = (rc.pc = "publish")
      BY <2>1 DEF RematchShape
    <2> QED BY <2>2 DEF OffersAreWanted
  <1>2. CASE RematchFilter
    <2>1. PICK sent \in SUBSET {job \in rc.jobs : Allows(job, prefs, profile)} :
              rc' = [rc EXCEPT !.pc = "publish", !.jobs = sent]
      BY <1>2 DEF RematchFilter
    <2>2. rc'.jobs = sent /\ rc.jobs \subseteq Listings
      BY <2>1 DEF RematchShape
    <2>3. \A job \in sent : ~Excluded(job, chosen)
      BY <2>2, AllowedIsWanted
    <2>4. chosen' = chosen
      BY <1>2 DEF RematchFilter, ghosts
    <2> QED BY <2>2, <2>3, <2>4 DEF OffersAreWanted, Excluded
  <1>3. CASE RematchPop
    BY <1>3 DEF RematchPop, IdleRematch, OffersAreWanted
  <1>4. CASE RematchFind
    <2>1. rc'.pc = "filter"
      BY <1>4 DEF RematchFind, RematchShape
    <2> QED BY <2>1 DEF OffersAreWanted
  <1>5. CASE RematchPublish \/ RematchAck \/ RematchFails
    BY <1>5 DEF RematchPublish, RematchAck, RematchFails, IdleRematch, OffersAreWanted
  <1>6. CASE UNCHANGED <<rc, chosen>>
    BY <1>6 DEF OffersAreWanted, Excluded
  <1>7. \/ \E p \in Choices : SaveFilters(p)
        \/ RematchStep \/ RematchFails
        \/ UNCHANGED <<rc, chosen>>
    BY DEF Next, vars, userVars, outboxVars, ghosts, SaveProfile,
           DispatchStep, Claim, Enqueue, Delete, Release, EnqueueRefused, FlushFails, LeaseEnds,
           EmbedStep, EmbedPop, EmbedRead, EmbedParse, EmbedFill, EmbedSave, EmbedRematch,
           EmbedAck, EmbedFails
  <1> QED BY <1>1, <1>2, <1>3, <1>4, <1>5, <1>6, <1>7 DEF RematchStep

FilterInv == TypeInv /\ ChoiceSurvivesParse /\ OffersAreWanted

LEMMA FilterInvInit == Init => FilterInv
  BY TypeInvInit DEF Init, FilterInv, ChoiceSurvivesParse, OffersAreWanted, IdleRematch

LEMMA FilterInvStep == FilterInv /\ [Next]_vars => FilterInv'
  BY TypeInvStep, ChoiceStep, OffersStep DEF FilterInv

(* backfill_preferences_from_profile_parse: whatever parse arrives late or  *)
(* twice, the filters the user saved last are the ones in force.            *)
THEOREM ParseFillsOnlyTheEmpty == Spec => []ChoiceSurvivesParse
  <1>1. FilterInv => ChoiceSurvivesParse
    BY DEF FilterInv
  <1> QED BY <1>1, FilterInvInit, FilterInvStep, PTL DEF Spec

(* _apply_preference_filter reads the filters after the parse may have      *)
(* changed them, and still offers nothing the user's own filters exclude.   *)
THEOREM OnlyWantedOffered == Spec => []OffersAreWanted
  <1>1. FilterInv => OffersAreWanted
    BY DEF FilterInv
  <1> QED BY <1>1, FilterInvInit, FilterInvStep, PTL DEF Spec
=============================================================================
