--------------------------- MODULE BotDialogProofs ---------------------------
(***************************************************************************)
(* Theorems about BotDialog, for any number of cards and of faults.        *)
(***************************************************************************)
EXTENDS BotDialog, SequenceTheorems, TLAPS

-----------------------------------------------------------------------------
(* The plan of a handler.                                                  *)

\* The job is a record, and only its plan changes when an effect is done.
IsJob == job = [u |-> job.u, todo |-> job.todo, phase |-> job.phase,
                blind |-> job.blind]

LEMMA ThenFields ==
    ASSUME IsJob, NEW t, Then(t)
    PROVE  /\ IsJob' /\ job'.todo = t
           /\ job'.u = job.u /\ job'.phase = job.phase /\ job'.blind = job.blind
BY DEF IsJob, Then

LEMMA Short ==
    ASSUME NEW a, NEW b, NEW c
    PROVE  /\ <<a>> # <<>> /\ Head(<<a>>) = a /\ Tail(<<a>>) = <<>>
           /\ <<a, b>> # <<>> /\ Head(<<a, b>>) = a /\ Tail(<<a, b>>) = <<b>>
           /\ <<a, b, c>> # <<>> /\ Head(<<a, b, c>>) = a
           /\ Tail(<<a, b, c>>) = <<b, c>>
OBVIOUS

\* The effects that the cards are about.
Moves == {"show", "finish", "vote"}

\* The filters of a user, and their names.
Filters == [src : BOOLEAN, include : BOOLEAN, exclude : BOOLEAN, budget : BOOLEAN]
FilterNames == {"src", "include", "exclude", "budget"}

\* An effect that leaves the cards and the questionnaire alone, and so does what
\* it may put in place of the rest of the plan.
Tame(e) ==
    /\ e[1] \notin Moves \cup {"try_prefs"}
    /\ e[1] = "ask_pro" => e[2] = <<>> \/ e[2] = <<Clear>>
    /\ e[1] = "set" => e[2] \in ConvState /\ e[2].cat = "none"
    /\ e[1] = "profile" => e[2].by = "typed"
    /\ e[1] = "prefs" => e[2] \in Filters
    /\ e[1] = "merge" => e[2][1] \in FilterNames /\ e[2][2] \in BOOLEAN

Quiet(s) == \E S : s \in Seq(S) /\ \A e \in S : Tame(e)

LEMMA QuietNil == Quiet(<<>>)
<1> DEFINE S == {}
<1>1. <<>> \in Seq(S) /\ \A e \in S : Tame(e)
  OBVIOUS
<1> HIDE DEF S
<1> QED
  BY <1>1 DEF Quiet

LEMMA QuietOne ==
    ASSUME NEW a, Tame(a)
    PROVE  Quiet(<<a>>)
<1> DEFINE S == {a}
<1>1. <<a>> \in Seq(S) /\ \A e \in S : Tame(e)
  OBVIOUS
<1> HIDE DEF S
<1> QED
  BY <1>1 DEF Quiet

LEMMA QuietConcat ==
    ASSUME NEW s, NEW t, Quiet(s), Quiet(t)
    PROVE  Quiet(s \o t)
<1> PICK S : s \in Seq(S) /\ \A e \in S : Tame(e)
  BY DEF Quiet
<1> PICK T : t \in Seq(T) /\ \A e \in T : Tame(e)
  BY DEF Quiet
<1>1. s \in Seq(S \cup T) /\ t \in Seq(S \cup T)
  OBVIOUS
<1>2. s \o t \in Seq(S \cup T)
  BY <1>1
<1> QED
  BY <1>2 DEF Quiet

LEMMA QuietTwo ==
    ASSUME NEW a, NEW b, Tame(a), Tame(b)
    PROVE  Quiet(<<a, b>>)
<1> DEFINE S == {a, b}
<1>1. <<a, b>> \in Seq(S) /\ \A e \in S : Tame(e)
  OBVIOUS
<1> HIDE DEF S
<1> QED
  BY <1>1 DEF Quiet

LEMMA QuietThree ==
    ASSUME NEW a, NEW b, NEW c, Tame(a), Tame(b), Tame(c)
    PROVE  Quiet(<<a, b, c>>)
<1> DEFINE S == {a, b, c}
<1>1. <<a, b, c>> \in Seq(S) /\ \A e \in S : Tame(e)
  OBVIOUS
<1> HIDE DEF S
<1> QED
  BY <1>1 DEF Quiet

LEMMA QuietFour ==
    ASSUME NEW a, NEW b, NEW c, NEW d, Tame(a), Tame(b), Tame(c), Tame(d)
    PROVE  Quiet(<<a, b, c, d>>)
<1> DEFINE S == {a, b, c, d}
<1>1. <<a, b, c, d>> \in Seq(S) /\ \A e \in S : Tame(e)
  OBVIOUS
<1> HIDE DEF S
<1> QED
  BY <1>1 DEF Quiet

LEMMA QuietTail ==
    ASSUME NEW s, Quiet(s), s # <<>>
    PROVE  Tame(Head(s)) /\ Quiet(Tail(s))
<1> PICK S : s \in Seq(S) /\ \A e \in S : Tame(e)
  BY DEF Quiet
<1>1. Head(s) \in S /\ Tail(s) \in Seq(S)
  OBVIOUS
<1> QED
  BY <1>1 DEF Quiet

\* What an update can be, with its argument.
Kind(u) ==
    \/ u[1] = "text" /\ u[2] \in {"good", "bad", "reset"}
    \/ u[1] \in {"start", "menu", "prompt", "upgrade"}
    \/ u = <<"command", "help">> \/ u = <<"command", "show">>
    \/ u = <<"profile", "good">>
    \/ u[1] = "ob" /\ u[2] \in Questionnaire
    \/ u[1] = "flt" /\ u[2] \in {"toggle", "budget", "include", "exclude", "reset", "show"}
    \/ u[1] = "hour" /\ u[2] \in {"menu", "prompt", "9"}
    \/ u[1] \in {"pause", "admin_pro"}
    \/ u[1] = "prf" /\ u[2] \in {"edit", "tips", "back"}
    \/ u[1] \in {"nav", "fb", "old_fb"} /\ u[2] \in 1 .. Cards

LEMMA UpdateKinds ==
    ASSUME part \in Parts, NEW u \in Updates.common \union Updates[part]
    PROVE  Kind(u)
<1>k. /\ Kind(<<"start", "">>) /\ Kind(<<"command", "help">>)
      /\ Kind(<<"command", "show">>) /\ Kind(<<"prompt", "profile">>)
      /\ Kind(<<"profile", "good">>) /\ Kind(<<"menu", "show">>)
      /\ Kind(<<"upgrade", "">>)
  BY DEF Kind
<1>1. CASE u \in Updates.common
  <2>1. \/ u \in {"text"} \X {"good", "bad", "reset"}
        \/ u = <<"start", "">> \/ u = <<"command", "help">>
        \/ u = <<"command", "show">> \/ u = <<"prompt", "profile">>
    BY <1>1, Zenon DEF Updates
  <2>2. CASE u \in {"text"} \X {"good", "bad", "reset"}
    BY <2>2 DEF Kind
  <2> QED
    BY <1>k, <2>1, <2>2, Zenon
<1>2. CASE part = "onboarding" /\ u \in Updates.onboarding
  BY <1>2 DEF Updates, Kind
<1>3. CASE part = "filters" /\ u \in Updates.filters
  BY <1>3 DEF Updates, Kind
<1>4. CASE part = "settings" /\ u \in Updates.settings
  <2>1. \/ u \in {"hour"} \X {"menu", "prompt", "9"}
        \/ u \in {"pause"} \X {"3d", "resume"}
        \/ u \in {"admin_pro"} \X {"on", "off"}
        \/ u = <<"profile", "good">> \/ u = <<"menu", "show">>
        \/ u = <<"upgrade", "">>
        \/ u \in {"prf"} \X {"edit", "tips", "back"}
    BY <1>4, Zenon DEF Updates
  <2>2. CASE u \in {"hour"} \X {"menu", "prompt", "9"}
    BY <2>2 DEF Kind
  <2>3. CASE \/ u \in {"pause"} \X {"3d", "resume"}
             \/ u \in {"admin_pro"} \X {"on", "off"}
    BY <2>3 DEF Kind
  <2>4. CASE u \in {"prf"} \X {"edit", "tips", "back"}
    BY <2>4 DEF Kind
  <2> QED
    BY <1>k, <2>1, <2>2, <2>3, <2>4, Zenon
<1>5. CASE part = "cards" /\ u \in Updates.cards
  BY <1>5 DEF Updates, Kind
<1> QED
  BY <1>1, <1>2, <1>3, <1>4, <1>5 DEF Parts

\* The effects of an update that is about neither.
LEMMA CalmEffects ==
    /\ Tame(Users) /\ Tame(Look) /\ Tame(Clear) /\ Tame(<<"read">>)
    /\ Tame(<<"first_seen">>) /\ Tame(<<"hour">>) /\ Tame(<<"old_vote">>)
    /\ Tame(<<"intent">>)
    /\ Tame(<<"ask_pro", <<>>>>) /\ Tame(<<"ask_pro", <<Clear>>>>)
    /\ \A x : Tame(<<"pause", x>>) /\ Tame(<<"pro", x>>)
    /\ Tame(<<"profile", [by |-> "typed", cat |-> "none"]>>)
    /\ \A x \in Filters : Tame(<<"prefs", x>>)
    /\ \A field \in FilterNames, x \in BOOLEAN : Tame(<<"merge", <<field, x>>>>)
    /\ \A step \in Words \cup {"category"} : Tame(Set(At(step)))
<1>1. \A step \in Words \cup {"category"} : At(step) \in ConvState /\ At(step).cat = "none"
  BY DEF At, Nothing, ConvState, OnboardingSteps
<1>2. \A step \in Words \cup {"category"} : Tame(Set(At(step)))
  BY <1>1 DEF Tame, Moves, Set
<1>3. \A field \in FilterNames, x \in BOOLEAN : Tame(<<"merge", <<field, x>>>>)
  BY DEF Tame, Moves
<1>4. \A x \in Filters : Tame(<<"prefs", x>>)
  BY DEF Tame, Moves
<1>5. /\ Tame(<<"ask_pro", <<>>>>) /\ Tame(<<"ask_pro", <<Clear>>>>)
      /\ \A x : Tame(<<"pause", x>>) /\ Tame(<<"pro", x>>)
      /\ Tame(<<"profile", [by |-> "typed", cat |-> "none"]>>)
  BY DEF Tame, Moves
<1>6. /\ Tame(Users) /\ Tame(Look) /\ Tame(Clear) /\ Tame(<<"read">>)
      /\ Tame(<<"first_seen">>) /\ Tame(<<"hour">>) /\ Tame(<<"old_vote">>)
      /\ Tame(<<"intent">>)
  BY DEF Tame, Moves, Users, Look, Clear
<1> QED
  BY <1>2, <1>3, <1>4, <1>5, <1>6

LEMMA TextQuiet ==
    ASSUME NEW v, NEW c
    PROVE  Quiet(TextPlan(v, c))
<1>1. Quiet(ProfilePlan(v))
  BY QuietNil, QuietThree, CalmEffects DEF ProfilePlan
<1>2. Quiet(HourPlan(v))
  BY QuietNil, QuietThree, CalmEffects DEF HourPlan
<1>3. ASSUME NEW field \in FilterNames PROVE Quiet(FilterPlan(field, v))
  <2> DEFINE x == v = "good"
  <2>1. x \in BOOLEAN
    OBVIOUS
  <2>2. FilterPlan(field, v) = <<Users>>
        \/ FilterPlan(field, v) = <<Users, <<"merge", <<field, x>>>>, Clear>>
    BY DEF FilterPlan
  <2> HIDE DEF x
  <2> QED
    BY <2>1, <2>2, QuietOne, QuietThree, CalmEffects
<1> QED
  BY <1>1, <1>2, <1>3, QuietNil DEF TextPlan, FilterNames

\* What can be left of a step of the questionnaire, and of its end.
Built(p) == <<"profile", p>>
Try(x) == <<"try_prefs", x>>
Confirming(p, x) == {<<Users, Built(p), Try(x), Clear>>,
                     <<Built(p), Try(x), Clear>>, <<Try(x), Clear>>}
ObRest(s) ==
    \/ s \in {<<>>, <<Clear>>, <<Clear, Set(At("category"))>>}
    \/ \E n \in ConvState : n.step \in OnboardingSteps /\ s = <<Set(n)>>
    \/ \E p, x : x \in Filters /\ s \in Confirming(p, x)

\* A state the questionnaire sets is one of its steps.
LEMMA AtStep ==
    ASSUME NEW step \in OnboardingSteps \cup Words \cup {"none"}
    PROVE  At(step) \in ConvState /\ At(step).step = step /\ At(step).cat = "none"
BY DEF At, Nothing, ConvState

LEMMA OnboardingSets ==
    ASSUME NEW choice, NEW ob \in ConvState, NEW n \in Onboarding(choice, ob)
    PROVE  n \in ConvState /\ n.step \in OnboardingSteps
<1>1. CASE choice \in {"cat:backend", "cat:other", "manual"}
  <2>1. \/ n = [At("skills") EXCEPT !.cat = "backend"]
        \/ n = [At("experience") EXCEPT !.cat = "other"]
        \/ n = At("edit")
    BY <1>1 DEF Onboarding
  <2> QED
    BY <2>1 DEF At, Nothing, ConvState, OnboardingSteps
<1>2. CASE choice \notin {"cat:backend", "cat:other", "manual"}
  <2>1. \/ n = ob /\ ob.step \in {"skills", "sources"}
        \/ n = [ob EXCEPT !.step = "rate", !.exp = TRUE]
        \/ n = [ob EXCEPT !.step = "experience"]
        \/ \E b \in BOOLEAN : n = [ob EXCEPT !.step = "sources", !.rate = b]
        \/ n = [ob EXCEPT !.step = "budget"]
        \/ n = [ob EXCEPT !.step = "confirm"]
        \/ n = [ob EXCEPT !.step = "edit"]
    BY <1>2 DEF Onboarding
  <2> QED
    BY <2>1 DEF ConvState, OnboardingSteps
<1> QED
  BY <1>1, <1>2

\* The state a step of the questionnaire starts from.
Ob(c) == IF c.step \in OnboardingSteps THEN c ELSE Nothing

LEMMA OnboardingFits ==
    ASSUME NEW choice, NEW c \in ConvState, NEW p \in OnboardingPlans(choice, c)
    PROVE  ObRest(p)
<1>o. Ob(c) \in ConvState
  BY DEF Ob, Nothing, ConvState
<1>2. CASE choice = "confirm"
  <2>1. PICK ok \in LongEnough(Ob(c)), s \in BOOLEAN, b \in BOOLEAN :
          p = IF ok THEN ConfirmPlan(Ob(c), s, b) ELSE <<>>
    <3>1. OnboardingPlans(choice, c) =
            {IF ok THEN ConfirmPlan(Ob(c), s, b) ELSE <<>> :
                ok \in LongEnough(Ob(c)), s \in BOOLEAN, b \in BOOLEAN}
      BY <1>2 DEF OnboardingPlans, Ob
    <3> QED
      BY <3>1
  <2> DEFINE x == [NoPrefs EXCEPT !.src = s, !.budget = b]
  <2>2. x \in Filters
    BY DEF NoPrefs, Filters
  <2>3. ConfirmPlan(Ob(c), s, b) \in Confirming(BuiltProfile(Ob(c)), x)
    BY DEF ConfirmPlan, Confirming, Built, Try
  <2> HIDE DEF x
  <2> QED
    BY <2>1, <2>2, <2>3 DEF ObRest
<1>3. CASE choice \in {"restart", "keep"}
  BY <1>3 DEF OnboardingPlans, ObRest
<1>5. CASE choice \notin {"confirm", "restart", "keep"}
  <2>1. p = <<>> \/ \E n \in Onboarding(choice, Ob(c)) : p = <<Set(n)>>
    BY <1>5 DEF OnboardingPlans, Ob
  <2> QED
    BY <1>o, <2>1, OnboardingSets DEF ObRest
<1> QED
  BY <1>2, <1>3, <1>5

\* The head and the tail of what can be left of the questionnaire.
LEMMA ObHeads ==
    ASSUME NEW s, ObRest(s), s # <<>>
    PROVE  /\ Head(s)[1] \in {"clear", "set", "users", "profile", "try_prefs"}
           /\ ObRest(Tail(s))
           /\ Head(s)[1] = "set" =>
                 /\ Head(s)[2] \in ConvState /\ Head(s)[2].step \in OnboardingSteps
                 /\ s = <<Set(Head(s)[2])>> /\ Tail(s) = <<>>
           /\ Head(s)[1] = "profile" =>
                 \E x : s = <<Built(Head(s)[2]), Try(x), Clear>>
           /\ Head(s)[1] = "try_prefs" => Head(s)[2] \in Filters
<1>1. CASE s = <<Clear>> \/ s = <<Clear, Set(At("category"))>>
  <2>1. Head(s) = Clear /\ (Tail(s) = <<>> \/ Tail(s) = <<Set(At("category"))>>)
    <3> DEFINE r == Set(At("category"))
    <3>1. /\ Head(<<Clear>>) = Clear /\ Tail(<<Clear>>) = <<>>
          /\ Head(<<Clear, r>>) = Clear /\ Tail(<<Clear, r>>) = <<r>>
      BY Short
    <3> QED
      BY <1>1, <3>1
  <2>2. ObRest(<<Set(At("category"))>>)
    BY AtStep DEF ObRest, OnboardingSteps
  <2>3. ObRest(Tail(s))
    BY <2>1, <2>2 DEF ObRest
  <2> QED
    BY <2>1, <2>3 DEF Clear
<1>2. ASSUME NEW n \in ConvState, n.step \in OnboardingSteps, s = <<Set(n)>>
      PROVE  /\ Head(s)[1] = "set" /\ Head(s)[2] = n /\ Tail(s) = <<>>
             /\ ObRest(Tail(s))
  BY <1>2, Short DEF Set, ObRest
<1>3. ASSUME NEW p, NEW x \in Filters, s \in Confirming(p, x)
      PROVE  /\ Head(s)[1] \in {"users", "profile", "try_prefs"}
             /\ ObRest(Tail(s))
             /\ Head(s)[1] = "profile" => Head(s)[2] = p /\ s = <<Built(p), Try(x), Clear>>
             /\ Head(s)[1] = "try_prefs" => Head(s)[2] = x
  <2>1. CASE s = <<Users, Built(p), Try(x), Clear>>
    <3>1. Head(s) = Users /\ Tail(s) = <<Built(p), Try(x), Clear>>
      BY <2>1
    <3> QED
      BY <3>1 DEF ObRest, Confirming, Users
  <2>2. CASE s = <<Built(p), Try(x), Clear>>
    <3>1. Head(s) = Built(p) /\ Tail(s) = <<Try(x), Clear>>
      BY <2>2, Short
    <3>2. ObRest(Tail(s))
      BY <3>1 DEF ObRest, Confirming
    <3> QED
      BY <2>2, <3>1, <3>2 DEF Built
  <2>3. CASE s = <<Try(x), Clear>>
    <3>1. Head(s) = Try(x) /\ Tail(s) = <<Clear>>
      BY <2>3, Short
    <3>2. ObRest(Tail(s))
      BY <3>1 DEF ObRest
    <3> QED
      BY <2>3, <3>1, <3>2 DEF Try
  <2> QED
    BY <1>3, <2>1, <2>2, <2>3 DEF Confirming
<1>4. CASE \E n \in ConvState : n.step \in OnboardingSteps /\ s = <<Set(n)>>
  BY <1>2, <1>4
<1>5. CASE \E p, x : x \in Filters /\ s \in Confirming(p, x)
  BY <1>3, <1>5
<1> QED
  BY <1>1, <1>4, <1>5 DEF ObRest

\* The backend holds a record of which nothing but a value changes.
ApiOK == /\ api = [prefs |-> api.prefs, profile |-> api.profile, hour |-> api.hour,
                   paused |-> api.paused, pro |-> api.pro]
         /\ api.prefs \in Filters

LEMMA FiltersQuiet ==
    ASSUME NEW choice, api.prefs \in Filters
    PROVE  choice \in {"toggle", "budget", "include", "exclude", "reset", "show"}
               => Quiet(FiltersPlan(choice))
<1> SUFFICES ASSUME choice \in {"toggle", "budget", "include", "exclude", "reset", "show"}
             PROVE  Quiet(FiltersPlan(choice))
  OBVIOUS
<1>1. Quiet(<<Users, Look>>)
  BY QuietTwo, CalmEffects
<1>2. [api.prefs EXCEPT !.src = ~@] \in Filters /\ NoPrefs \in Filters
  BY DEF Filters, NoPrefs
<1>3. \E t : Quiet(t) /\ FiltersPlan(choice) = <<Users, Look>> \o t
  <2>1. ASSUME NEW x \in Filters PROVE Quiet(<< <<"prefs", x>> >>)
    BY QuietOne, CalmEffects
  <2>2. ASSUME NEW step \in Words PROVE Quiet(<<Set(At(step))>>)
    BY QuietOne, CalmEffects
  <2> QED
    BY <1>2, <2>1, <2>2, QuietNil DEF FiltersPlan, Words
<1> QED
  BY <1>1, <1>3, QuietConcat

LEMMA CommandQuiet ==
    ASSUME NEW u, Kind(u), u[1] \notin {"text", "ob", "flt", "nav", "fb", "old_fb", "prf"}
    PROVE  Quiet(CommandPlan(u))
<1>o. Quiet(OverviewPlan)
  BY QuietTwo, CalmEffects DEF OverviewPlan
<1>1. CASE u[1] = "start"
  <2>1. CommandPlan(u) = <<Clear, Users, <<"first_seen">>, Set(At("category"))>>
    BY <1>1 DEF CommandPlan
  <2> QED
    BY <2>1, QuietFour, CalmEffects
<1>2. CASE u = <<"command", "help">>
  <2>1. CommandPlan(u) = <<Clear>>
    BY <1>2 DEF CommandPlan
  <2> QED
    BY <2>1, QuietOne, CalmEffects
<1>3. CASE u = <<"command", "show">>
  <2>1. CommandPlan(u) = <<Clear>> \o OverviewPlan
    BY <1>3 DEF CommandPlan
  <2>2. Quiet(<<Clear>>)
    BY QuietOne, CalmEffects
  <2> QED
    BY <1>o, <2>1, <2>2, QuietConcat
<1>4. CASE u[1] = "menu"
  <2>1. u # <<"command", "help">> /\ u # <<"command", "show">>
    BY <1>4
  <2> QED
    BY <1>4, <1>o, <2>1 DEF CommandPlan
<1>5. CASE u[1] = "upgrade"
  <2>1. u # <<"command", "help">> /\ u # <<"command", "show">>
    BY <1>5
  <2>2. CommandPlan(u) = <<Users, <<"intent">>>>
    BY <1>5, <2>1 DEF CommandPlan
  <2> QED
    BY <2>2, QuietTwo, CalmEffects
<1>6. CASE u[1] = "prompt"
  <2>1. u # <<"command", "help">> /\ u # <<"command", "show">>
    BY <1>6
  <2>2. CommandPlan(u) = <<Set(At("await_profile"))>>
    BY <1>6, <2>1 DEF CommandPlan, PromptPlan
  <2> QED
    BY <2>2, QuietOne, CalmEffects DEF Words
<1>7. CASE u[1] = "profile"
  <2>1. u # <<"command", "help">> /\ u # <<"command", "show">>
    BY <1>7
  <2>2. CommandPlan(u) = ProfilePlan(u[2])
    BY <1>7, <2>1 DEF CommandPlan
  <2> QED
    BY <2>2, QuietNil, QuietThree, CalmEffects DEF ProfilePlan
<1>8. CASE u[1] = "hour" /\ u[2] \in {"menu", "prompt", "9"}
  <2>1. u # <<"command", "help">> /\ u # <<"command", "show">>
    BY <1>8
  <2>2. CommandPlan(u) = HourCommandPlan(u[2])
    BY <1>8, <2>1 DEF CommandPlan
  <2> QED
    BY <1>8, <2>2, QuietNil, QuietThree, CalmEffects
       DEF HourCommandPlan, HourPlan, Words
<1>9. CASE u[1] = "pause"
  <2>1. u # <<"command", "help">> /\ u # <<"command", "show">>
    BY <1>9
  <2>2. CommandPlan(u) = <<Users, <<"pause", u[2] # "resume">>>>
    BY <1>9, <2>1 DEF CommandPlan
  <2> QED
    BY <2>2, QuietTwo, CalmEffects
<1>10. CASE u[1] = "admin_pro"
  <2>1. u # <<"command", "help">> /\ u # <<"command", "show">>
    BY <1>10
  <2> DEFINE b == u[2] = "on"
  <2>2. CommandPlan(u) = <<Clear, <<"pro", b>>>>
    BY <1>10, <2>1 DEF CommandPlan
  <2> HIDE DEF b
  <2> QED
    BY <2>2, QuietTwo, CalmEffects
<1> QED
  BY <1>1, <1>2, <1>3, <1>4, <1>5, <1>6, <1>7, <1>8, <1>9, <1>10 DEF Kind

LEMMA PlansQuiet ==
    ASSUME NEW u, Kind(u), u[1] \notin {"nav", "fb", "ob"}, api.prefs \in Filters,
           NEW c, NEW p \in Plans(u, c)
    PROVE  Quiet(p)
<1>2. CASE u[1] = "text"
  BY <1>2, TextQuiet DEF Plans
<1>3. CASE u[1] = "flt"
  <2>1. u[2] \in {"toggle", "budget", "include", "exclude", "reset", "show"}
    BY <1>3 DEF Kind
  <2>2. p = FiltersPlan(u[2])
    BY <1>3 DEF Plans
  <2> QED
    BY <2>1, <2>2, FiltersQuiet
<1>4. CASE u[1] = "old_fb"
  <2>1. p = <<Users, <<"old_vote">> >>
    BY <1>4 DEF Plans, CardPlan
  <2> QED
    BY <2>1, QuietTwo, CalmEffects
<1>5. CASE u[1] = "prf"
  <2>1. u[2] \in {"edit", "tips", "back"}
    BY <1>5 DEF Kind
  <2>2. p = ProfileButtonPlan(u[2])
    BY <1>5 DEF Plans
  <2>3. /\ ProfileButtonPlan("edit") = <<Set(At("await_profile"))>>
        /\ ProfileButtonPlan("tips") = <<>>
        /\ ProfileButtonPlan("back") = <<Users, <<"read">>>>
    BY DEF ProfileButtonPlan, PromptPlan, OverviewPlan
  <2> QED
    BY <2>1, <2>2, <2>3, QuietNil, QuietOne, QuietTwo, CalmEffects DEF Words
<1>6. CASE u[1] \notin {"text", "ob", "flt", "nav", "fb", "old_fb", "prf"}
  <2>1. p = CommandPlan(u)
    BY <1>6 DEF Plans
  <2> QED
    BY <1>6, <2>1, CommandQuiet
<1> QED
  BY <1>2, <1>3, <1>4, <1>5, <1>6

\* What can be left of a vote on card i.
Move(i) == IF i < Cards THEN <<"show", i + 1>> ELSE <<"finish">>
Voting(i, k) == <<"vote", i, k>>
Owing(i) == {<<Users, Vote(i)>>} \union {<<Voting(i, k)>> : k \in 1 .. Attempts}
VoteRest(i) == {<<>>, <<Move(i), Users, Vote(i)>>} \union Owing(i)

\* What is left of a plan fits the update it was made for.
Rest(u, s) ==
    /\ u[1] = "fb" => s \in VoteRest(u[2])
    /\ u[1] = "nav" => s \in {<<>>, << <<"show", u[2]>> >>}
    /\ u[1] = "ob" => ObRest(s)
    /\ u[1] \notin {"fb", "nav", "ob"} => Quiet(s)

PlanInv ==
    /\ IsJob
    /\ part \in Parts
    /\ conv \in ConvState /\ cache \in ConvState
    /\ ApiOK
    /\ job.phase \in {"idle", "arrived", "running"}
    /\ job.phase # "running" => job.todo = <<>>
    /\ job.phase # "idle" => Kind(job.u)
    /\ job.phase = "running" => Rest(job.u, job.todo)

\* The plan that is made for an update fits it.
LEMMA PlanFits ==
    ASSUME NEW u, Kind(u), api.prefs \in Filters,
           NEW c \in ConvState, NEW p \in Plans(u, c)
    PROVE  Rest(u, p)
<1>1. CASE u[1] = "fb"
  <2>1. p = VotePlan(u[2])
    BY <1>1 DEF Plans, CardPlan
  <2>2. p \in VoteRest(u[2])
    BY <2>1 DEF VotePlan, VoteRest, Move
  <2> QED
    BY <1>1, <2>2 DEF Rest
<1>2. CASE u[1] = "nav"
  <2>1. p \in {<<>>, << <<"show", u[2]>> >>}
    BY <1>2 DEF Plans, CardPlan
  <2> QED
    BY <1>2, <2>1 DEF Rest
<1>3. CASE u[1] = "ob"
  <2>1. p \in OnboardingPlans(u[2], c)
    BY <1>3 DEF Plans
  <2> QED
    BY <1>3, <2>1, OnboardingFits DEF Rest
<1>4. CASE u[1] \notin {"fb", "nav", "ob"}
  BY <1>4, PlansQuiet DEF Rest
<1> QED
  BY <1>1, <1>2, <1>3, <1>4

\* The effects of an update that is not about the cards leave a quiet rest.
Calls == \/ CallUsers \/ LookUp \/ Read \/ PutProfile \/ PutPrefs \/ PutPause
         \/ PutPro \/ TryPrefs \/ PutHour \/ PostOldVote \/ PostIntent
Talks == AskPro \/ MergePrefs \/ FirstSeen \/ SetConv \/ ClearConv

\* A call goes on with the plan, or fails and ends it or goes on.  A request
\* that is only collected always ends it.
LEMMA CallEnds ==
    ASSUME PlanInv, Calls
    PROVE  /\ job.phase = "running" /\ job.todo # <<>>
           /\ Head(job.todo)[1] \notin Moves
           /\ \/ Done /\ UNCHANGED faults
              \/ (Done \/ GiveUp) /\ Fault
              \/ /\ GiveUp /\ UNCHANGED faults
                 /\ Head(job.todo)[1] \in {"old_vote", "intent"}
           /\ UNCHANGED <<part, dialog, cards, seen>>
<1> USE DEF Doing, Request, Put, OtherThanApi, Moves
<1>1. CASE CallUsers \/ LookUp \/ Read \/ PutProfile \/ PutPrefs \/ PutPause
  BY <1>1 DEF CallUsers, LookUp, Read, PutProfile, PutPrefs, PutPause
<1>2. CASE PutPro \/ TryPrefs \/ PutHour \/ PostOldVote \/ PostIntent
  BY <1>2 DEF PutPro, TryPrefs, PutHour, PostOldVote, PostIntent, Collected
<1> QED
  BY <1>1, <1>2 DEF Calls

LEMMA TalkQuiet ==
    ASSUME PlanInv, Talks
    PROVE  /\ job.phase = "running" /\ job.todo # <<>>
           /\ Head(job.todo)[1] \notin Moves \cup {"users"}
           /\ IsJob' /\ job'.phase = "running" /\ job'.u = job.u
           /\ Quiet(job.todo) => Quiet(job'.todo)
           /\ UNCHANGED <<part, cards>>
           /\ UNCHANGED faults \/ Fault
           /\ slip => slip'
<1>j. IsJob
  BY DEF PlanInv
<1>h. /\ job.phase = "running" /\ job.todo # <<>>
      /\ Head(job.todo)[1] \in {"ask_pro", "merge", "first_seen", "set", "clear"}
  BY DEF Talks, AskPro, MergePrefs, FirstSeen, SetConv, ClearConv, Doing
<1>f. /\ UNCHANGED <<part, cards>>
      /\ UNCHANGED faults \/ Fault
      /\ slip => slip'
  BY DEF Talks, AskPro, MergePrefs, FirstSeen, SetConv, ClearConv, dialog
<1>q. Quiet(job.todo) => Tame(Head(job.todo)) /\ Quiet(Tail(job.todo))
  BY <1>h, QuietTail
<1>d. ASSUME NEW t, Then(t), Quiet(job.todo) => Quiet(t)
      PROVE  /\ IsJob' /\ job'.phase = "running" /\ job'.u = job.u
             /\ Quiet(job.todo) => Quiet(job'.todo)
  BY <1>d, <1>h, <1>j, ThenFields
<1>e. ASSUME Done
      PROVE  /\ IsJob' /\ job'.phase = "running" /\ job'.u = job.u
             /\ Quiet(job.todo) => Quiet(job'.todo)
  BY <1>d, <1>e, <1>q DEF Done
<1>1. CASE AskPro
  <2>1. Done \/ (Then(Arg) /\ Head(job.todo)[1] = "ask_pro")
    BY <1>1 DEF AskPro, Doing
  <2>2. CASE Then(Arg) /\ Head(job.todo)[1] = "ask_pro"
    <3>1. Quiet(job.todo) => Arg = <<>> \/ Arg = <<Clear>>
      BY <2>2, <1>q DEF Tame, Arg
    <3>2. Quiet(job.todo) => Quiet(Arg)
      BY <3>1, QuietNil, QuietOne, CalmEffects
    <3> QED
      BY <2>2, <3>2, <1>d, <1>h, <1>f DEF Moves
  <2> QED
    BY <2>1, <2>2, <1>e, <1>h, <1>f DEF Moves
<1>2. CASE MergePrefs
  <2>0. ASSUME Quiet(job.todo), NEW prefs \in Filters
        PROVE  Merge(prefs, Arg[1], Arg[2]) \in Filters
    <3>1. Arg[1] \in FilterNames /\ Arg[2] \in BOOLEAN
      BY <1>1, <1>2, <1>q, <2>0 DEF MergePrefs, Doing, Arg, Tame
    <3> QED
      BY <3>1 DEF Merge, Filters, FilterNames
  <2>1. PICK x, b : /\ job' = [job EXCEPT !.blind = b,
                           !.todo = << <<"prefs", x>> >> \o Tail(job.todo)]
                    /\ Quiet(job.todo) => x \in Filters
    <3>1. CASE Then(<< <<"prefs", Merge(api.prefs, Arg[1], Arg[2])>> >> \o Tail(job.todo))
      <4>1. job' = [job EXCEPT !.blind = job.blind,
              !.todo = << <<"prefs", Merge(api.prefs, Arg[1], Arg[2])>> >> \o Tail(job.todo)]
        BY <3>1, <1>j DEF Then, IsJob
      <4> QED
        BY <2>0, <4>1 DEF PlanInv, ApiOK
    <3>2. CASE job' = [job EXCEPT !.blind = TRUE,
             !.todo = << <<"prefs", Merge(NoPrefs, Arg[1], Arg[2])>> >> \o Tail(@)]
      <4>1. job' = [job EXCEPT !.blind = TRUE,
              !.todo = << <<"prefs", Merge(NoPrefs, Arg[1], Arg[2])>> >> \o Tail(job.todo)]
        BY <3>2, <1>j DEF IsJob
      <4>2. NoPrefs \in Filters
        BY DEF NoPrefs, Filters
      <4> QED
        BY <2>0, <4>1, <4>2
    <3> QED
      BY <1>2, <3>1, <3>2 DEF MergePrefs
  <2> DEFINE t == << <<"prefs", x>> >> \o Tail(job.todo)
  <2>2. Quiet(job.todo) => Quiet(t)
    BY <1>q, <2>1, QuietOne, QuietConcat, CalmEffects
  <2>3. job' = [job EXCEPT !.blind = b, !.todo = t]
    BY <2>1
  <2> HIDE DEF t
  <2>4. /\ IsJob' /\ job'.phase = "running" /\ job'.u = job.u
        /\ job'.todo = t
    BY <2>3, <1>j, <1>h DEF IsJob
  <2> QED
    BY <2>2, <2>4, <1>h, <1>f DEF Moves
<1>3. CASE FirstSeen
  <2>1. Done \/ Then(Home)
    BY <1>3 DEF FirstSeen
  <2>2. Quiet(Home)
    BY QuietOne, CalmEffects DEF Home
  <2> QED
    BY <2>1, <2>2, <1>d, <1>e, <1>h, <1>f DEF Moves
<1>4. CASE SetConv \/ ClearConv
  BY <1>4, <1>e, <1>h, <1>f DEF SetConv, ClearConv, Moves
<1> QED
  BY <1>1, <1>2, <1>3, <1>4 DEF Talks

\* The heads of what can be left of a vote.
LEMMA VoteHeads ==
    ASSUME NEW i, NEW s \in VoteRest(i), s # <<>>
    PROVE  \/ /\ s = <<Move(i), Users, Vote(i)>> /\ Head(s) = Move(i)
              /\ Tail(s) = <<Users, Vote(i)>>
           \/ s = <<Users, Vote(i)>> /\ Head(s) = Users /\ Tail(s) = <<Vote(i)>>
           \/ \E k \in 1 .. Attempts :
                 s = <<Voting(i, k)>> /\ Head(s) = Voting(i, k) /\ Tail(s) = <<>>
<1>1. \/ s = <<Move(i), Users, Vote(i)>>
      \/ s = <<Users, Vote(i)>>
      \/ \E k \in 1 .. Attempts : s = <<Voting(i, k)>>
  BY Zenon DEF VoteRest, Owing
<1>2. /\ Head(<<Move(i), Users, Vote(i)>>) = Move(i)
      /\ Tail(<<Move(i), Users, Vote(i)>>) = <<Users, Vote(i)>>
      /\ Head(<<Users, Vote(i)>>) = Users
      /\ Tail(<<Users, Vote(i)>>) = <<Vote(i)>>
  BY Short
<1>3. ASSUME NEW k
      PROVE  Head(<<Voting(i, k)>>) = Voting(i, k) /\ Tail(<<Voting(i, k)>>) = <<>>
  BY Short
<1> QED
  BY <1>1, <1>2, <1>3, Zenon

LEMMA MoveNames ==
    ASSUME NEW i
    PROVE  /\ Move(i)[1] \in {"show", "finish"}
           /\ Vote(i) = Voting(i, Attempts) /\ Users[1] = "users"
           /\ \A k : /\ Voting(i, k)[1] = "vote" /\ Voting(i, k)[2] = i
                     /\ Voting(i, k)[3] = k
           /\ Move(i)[1] = "show" => i < Cards /\ Move(i)[2] = i + 1
BY DEF Move, Vote, Voting, Users

LEMMA VoteNames ==
    ASSUME NEW i, NEW s \in VoteRest(i), s # <<>>
    PROVE  Head(s)[1] \in {"show", "finish", "users", "vote"}
<1>1. CASE Head(s) = Move(i)
  BY <1>1, MoveNames
<1>2. CASE Head(s) = Users
  BY <1>2, MoveNames
<1>3. ASSUME NEW k \in 1 .. Attempts, Head(s) = Voting(i, k)
      PROVE  Head(s)[1] = "vote"
  <2>1. Voting(i, k)[1] = "vote"
    BY DEF Voting
  <2> QED
    BY <1>3, <2>1
<1>4. \/ Head(s) = Move(i) \/ Head(s) = Users
      \/ \E k \in 1 .. Attempts : Head(s) = Voting(i, k)
  BY VoteHeads
<1> QED
  BY <1>1, <1>2, <1>3, <1>4

\* The first attempt comes with the others left.
LEMMA VoteIsOwing ==
    ASSUME NEW i
    PROVE  <<Vote(i)>> \in Owing(i)
BY MoveNames DEF Owing, Attempts

\* A call in a vote comes before the vote is posted; showing a card needs none.
LEMMA CallRest ==
    ASSUME PlanInv, Calls
    PROVE  /\ IsJob' /\ job'.phase = "running" /\ job'.u = job.u
           /\ Rest(job.u, job'.todo)
           /\ job.u[1] # "nav"
           /\ job.u[1] = "fb" =>
                 /\ job.todo = <<Users, Vote(job.u[2])>>
                 /\ \/ job'.todo = <<Vote(job.u[2])>>
                    \/ job'.todo = <<>> /\ Fault
<1>c. /\ IsJob /\ job.phase = "running" /\ job.todo # <<>>
      /\ Head(job.todo)[1] \notin Moves
      /\ Done \/ (GiveUp /\ (Fault \/ Head(job.todo)[1] # "users"))
  <2>1. Done \/ (GiveUp /\ (Fault \/ Head(job.todo)[1] # "users"))
    BY CallEnds
  <2> QED
    BY <2>1, CallEnds DEF PlanInv
<1>r. Rest(job.u, job.todo)
  BY <1>c DEF PlanInv
<1>t. /\ IsJob' /\ job'.phase = "running" /\ job'.u = job.u
      /\ \/ job'.todo = Tail(job.todo)
         \/ job'.todo = <<>> /\ (Fault \/ Head(job.todo)[1] # "users")
  BY <1>c, ThenFields DEF Done, GiveUp
<1>1. CASE job.u[1] = "fb"
  <2>0. job.todo \in VoteRest(job.u[2])
    BY <1>1, <1>r DEF Rest
  <2>1. /\ job.todo = <<Users, Vote(job.u[2])>> /\ Tail(job.todo) = <<Vote(job.u[2])>>
        /\ Head(job.todo)[1] = "users"
    BY <1>c, <2>0, VoteHeads, MoveNames DEF Moves
  <2>2. job'.todo \in VoteRest(job.u[2])
    BY <1>t, <2>1, VoteIsOwing DEF VoteRest
  <2> QED
    BY <1>1, <1>t, <2>1, <2>2 DEF Rest
<1>2. CASE job.u[1] = "nav"
  <2>1. job.todo = << <<"show", job.u[2]>> >>
    BY <1>2, <1>c, <1>r DEF Rest
  <2>2. Head(job.todo) = <<"show", job.u[2]>>
    BY <2>1, Short
  <2> QED
    BY <1>c, <2>2 DEF Moves
<1>3. CASE job.u[1] = "ob"
  <2>1. ObRest(job'.todo)
    <3>1. ObRest(<<>>)
      BY DEF ObRest
    <3>2. ObRest(Tail(job.todo))
      BY <1>3, <1>c, <1>r, ObHeads DEF Rest
    <3> QED
      BY <1>t, <3>1, <3>2
  <2> QED
    BY <1>3, <1>t, <2>1 DEF Rest
<1>4. CASE job.u[1] \notin {"fb", "nav", "ob"}
  <2>1. Quiet(job'.todo)
    BY <1>4, <1>c, <1>r, <1>t, QuietTail, QuietNil DEF Rest
  <2> QED
    BY <1>4, <1>t, <2>1 DEF Rest
<1> QED
  BY <1>1, <1>2, <1>3, <1>4

\* Saving a profile changes only the profile, and saving filters only these.
LEMMA CallApi ==
    ASSUME PlanInv, Calls
    PROVE  /\ ApiOK'
           /\ \/ UNCHANGED <<api.prefs, api.profile>>
              \/ /\ PutProfile /\ UNCHANGED api.prefs
                 /\ api'.profile \in {api.profile, Arg}
              \/ /\ PutPrefs \/ TryPrefs
                 /\ UNCHANGED api.profile
                 /\ api'.prefs \in {api.prefs, Arg}
<1>a. /\ api = [prefs |-> api.prefs, profile |-> api.profile, hour |-> api.hour,
                paused |-> api.paused, pro |-> api.pro]
      /\ api.prefs \in Filters
  BY DEF PlanInv, ApiOK
<1>1. CASE CallUsers \/ LookUp \/ Read \/ PostOldVote \/ PostIntent
  <2>1. api' = api
    BY <1>1 DEF CallUsers, LookUp, Read, PostOldVote, PostIntent, Request, Collected
  <2> QED
    BY <1>a, <2>1 DEF ApiOK
<1>2. CASE PutProfile
  <2>1. api' = api \/ api' = [api EXCEPT !.profile = Arg]
    BY <1>2 DEF PutProfile, Put, Request
  <2> QED
    BY <1>2, <1>a, <2>1 DEF ApiOK
<1>3. CASE PutPrefs \/ TryPrefs
  <2>1. api' = api \/ api' = [api EXCEPT !.prefs = Arg]
    BY <1>3 DEF PutPrefs, TryPrefs, Put, Request
  <2>2. Arg \in Filters
    <3>1. /\ job.phase = "running" /\ job.todo # <<>>
          /\ Head(job.todo)[1] \in {"prefs", "try_prefs"} /\ Arg = Head(job.todo)[2]
      BY <1>3 DEF PutPrefs, TryPrefs, Doing, Arg
    <3>2. Rest(job.u, job.todo)
      BY <3>1 DEF PlanInv
    <3>3. job.u[1] \notin {"fb", "nav"}
      <4>1. CASE job.u[1] = "fb"
        BY <3>1, <3>2, <4>1, VoteNames DEF Rest
      <4>2. CASE job.u[1] = "nav"
        <5>1. job.todo = << <<"show", job.u[2]>> >>
          BY <3>1, <3>2, <4>2 DEF Rest
        <5>2. Head(job.todo) = <<"show", job.u[2]>>
          BY <5>1, Short
        <5> QED
          BY <3>1, <5>2
      <4> QED
        BY <4>1, <4>2
    <3>4. CASE job.u[1] = "ob"
      BY <3>1, <3>2, <3>4, ObHeads DEF Rest
    <3>5. CASE job.u[1] \notin {"fb", "nav", "ob"}
      BY <3>1, <3>2, <3>5, QuietTail DEF Rest, Tame
    <3> QED
      BY <3>3, <3>4, <3>5
  <2> QED
    BY <1>3, <1>a, <2>1, <2>2 DEF ApiOK
<1>4. CASE PutPause \/ PutPro
  <2>1. \/ api' = api
        \/ api' = [api EXCEPT !.paused = Arg]
        \/ api' = [api EXCEPT !.pro = Arg]
    BY <1>4 DEF PutPause, PutPro, Put, Request
  <2> QED
    BY <1>a, <2>1 DEF ApiOK
<1>5. CASE PutHour
  <2>1. api' = api \/ api' = [api EXCEPT !.hour = TRUE]
    BY <1>5 DEF PutHour, Put, Request
  <2> QED
    BY <1>a, <2>1 DEF ApiOK
<1> QED
  BY <1>1, <1>2, <1>3, <1>4, <1>5 DEF Calls

LEMMA TalkRest ==
    ASSUME PlanInv, Talks
    PROVE  /\ job.u[1] \notin {"fb", "nav"}
           /\ Rest(job.u, job'.todo)
           /\ SetConv => Arg \in ConvState
           /\ UNCHANGED api
<1>a. UNCHANGED api
  BY DEF Talks, AskPro, MergePrefs, FirstSeen, SetConv, ClearConv
<1>s. SetConv => Head(job.todo)[1] = "set" /\ Arg = Head(job.todo)[2]
  BY DEF SetConv, Doing, Arg
<1>c. /\ job.phase = "running" /\ job.todo # <<>>
      /\ Head(job.todo)[1] \notin Moves \cup {"users"}
      /\ Quiet(job.todo) => Quiet(job'.todo)
  BY TalkQuiet
<1>r. Rest(job.u, job.todo)
  BY <1>c DEF PlanInv
<1>1. job.u[1] # "fb"
  <2> SUFFICES ASSUME job.u[1] = "fb"
               PROVE  FALSE
    OBVIOUS
  <2>1. job.todo \in VoteRest(job.u[2])
    BY <1>r DEF Rest
  <2> QED
    BY <1>c, <2>1, VoteNames DEF Moves
<1>2. job.u[1] # "nav"
  <2> SUFFICES ASSUME job.u[1] = "nav"
               PROVE  FALSE
    OBVIOUS
  <2>1. job.todo = << <<"show", job.u[2]>> >>
    BY <1>c, <1>r DEF Rest
  <2>2. Head(job.todo) = <<"show", job.u[2]>>
    BY <2>1, Short
  <2> QED
    BY <1>c, <2>2 DEF Moves
<1>3. CASE job.u[1] = "ob"
  <2>1. /\ Head(job.todo)[1] \in {"clear", "set", "users", "profile", "try_prefs"}
        /\ ObRest(Tail(job.todo))
        /\ SetConv => Arg \in ConvState
    BY <1>3, <1>c, <1>r, <1>s, ObHeads DEF Rest
  <2>2. Done
    BY <2>1 DEF Talks, AskPro, MergePrefs, FirstSeen, SetConv, ClearConv, Doing
  <2>3. job'.todo = Tail(job.todo)
    BY <2>2, ThenFields DEF Done, PlanInv
  <2> QED
    BY <1>3, <1>a, <2>1, <2>3 DEF Rest
<1>4. CASE job.u[1] \notin {"fb", "nav", "ob"}
  <2>1. SetConv => Arg \in ConvState
    BY <1>4, <1>c, <1>r, <1>s, QuietTail DEF Rest, Tame
  <2> QED
    BY <1>4, <1>a, <1>c, <1>r, <2>1 DEF Rest
<1> QED
  BY <1>1, <1>2, <1>3, <1>4

\* Only a button below a card shows one, and only a vote closes or posts.
LEMMA MoveRest ==
    ASSUME PlanInv, ShowCard \/ FinishCards \/ PostVote
    PROVE  /\ IsJob' /\ job.phase = "running" /\ job'.phase = "running"
           /\ job'.u = job.u /\ Kind(job.u)
           /\ Rest(job.u, job'.todo)
           /\ \/ /\ ShowCard /\ job.u[1] = "nav" /\ Arg = job.u[2]
                 /\ job'.todo = <<>>
              \/ /\ ShowCard /\ job.u[1] = "fb"
                 /\ job.u[2] < Cards /\ Arg = job.u[2] + 1
                 /\ job.todo = <<Move(job.u[2]), Users, Vote(job.u[2])>>
                 /\ job'.todo = <<Users, Vote(job.u[2])>>
              \/ /\ FinishCards /\ job.u[1] = "fb"
                 /\ job.todo = <<Move(job.u[2]), Users, Vote(job.u[2])>>
                 /\ job'.todo = <<Users, Vote(job.u[2])>>
              \/ \E k \in 1 .. Attempts :
                 /\ PostVote /\ job.u[1] = "fb" /\ Arg = job.u[2]
                 /\ job.todo = <<Voting(job.u[2], k)>>
                 /\ \/ job'.todo = <<>>
                    \/ k > 1 /\ job'.todo = <<Voting(job.u[2], k - 1)>>
<1>h. /\ job.phase = "running" /\ job.todo # <<>>
      /\ Head(job.todo)[1] \in Moves
      /\ ShowCard => Done /\ Head(job.todo)[1] = "show"
      /\ FinishCards => Done /\ Head(job.todo)[1] = "finish"
      /\ PostVote => (Done \/ Again) /\ Head(job.todo)[1] = "vote"
  BY DEF ShowCard, FinishCards, PostVote, Doing, Moves
<1>r. IsJob /\ Kind(job.u) /\ Rest(job.u, job.todo)
  BY <1>h DEF PlanInv
<1>t. Done => /\ IsJob' /\ job'.phase = "running" /\ job'.u = job.u
              /\ job'.todo = Tail(job.todo)
  BY <1>h, <1>r, ThenFields DEF Done
<1>1. CASE job.u[1] = "fb"
  <2>1. job.todo \in VoteRest(job.u[2])
    BY <1>1, <1>r DEF Rest
  <2>2. CASE /\ job.todo = <<Move(job.u[2]), Users, Vote(job.u[2])>>
             /\ Head(job.todo) = Move(job.u[2])
             /\ Tail(job.todo) = <<Users, Vote(job.u[2])>>
    <3>2. ~PostVote
      BY <1>h, <2>2, MoveNames
    <3>0. Done
      BY <1>h, <3>2
    <3>1. Rest(job.u, job'.todo)
      BY <1>1, <1>t, <2>2, <3>0 DEF Rest, VoteRest, Owing
    <3>3. ShowCard => job.u[2] < Cards /\ Arg = job.u[2] + 1
      BY <1>h, <2>2, MoveNames DEF Arg
    <3> QED
      BY <1>1, <1>h, <1>r, <1>t, <2>2, <3>0, <3>1, <3>2, <3>3
  <2>3. ASSUME NEW k \in 1 .. Attempts,
               job.todo = <<Voting(job.u[2], k)>>,
               Head(job.todo) = Voting(job.u[2], k), Tail(job.todo) = <<>>
        PROVE  /\ PostVote /\ Arg = job.u[2]
               /\ IsJob' /\ job'.phase = "running" /\ job'.u = job.u
               /\ Rest(job.u, job'.todo)
               /\ \/ job'.todo = <<>>
                  \/ k > 1 /\ job'.todo = <<Voting(job.u[2], k - 1)>>
    <3>1. PostVote /\ Arg = job.u[2] /\ Tries = k
      BY <1>h, <2>3, MoveNames DEF Arg, Tries
    <3>2. CASE Done
      BY <1>1, <1>t, <2>3, <3>1, <3>2 DEF Rest, VoteRest
    <3>3. CASE ~Done
      <4>1. /\ Tries # 1
            /\ Then([job.todo EXCEPT ![1] = <<"vote", Arg, Tries - 1>>])
        BY <1>h, <3>1, <3>3 DEF Again
      <4>2. /\ k > 1 /\ k - 1 \in 1 .. Attempts
            /\ <<"vote", Arg, Tries - 1>> = Voting(job.u[2], k - 1)
        BY <3>1, <4>1 DEF Voting, Attempts
      <4> DEFINE v == Voting(job.u[2], k) w == Voting(job.u[2], k - 1)
      <4>3. [<<v>> EXCEPT ![1] = w] = <<w>>
        OBVIOUS
      <4>4. Then(<<w>>)
        BY <2>3, <4>1, <4>2, <4>3
      <4>5. /\ IsJob' /\ job'.phase = "running" /\ job'.u = job.u
            /\ job'.todo = <<w>>
        BY <1>h, <1>r, <4>4, ThenFields
      <4>6. <<w>> \in VoteRest(job.u[2])
        BY <4>2 DEF VoteRest, Owing
      <4> QED
        BY <1>1, <3>1, <4>2, <4>5, <4>6 DEF Rest
    <3> QED
      BY <3>2, <3>3
  <2>4. CASE \E k \in 1 .. Attempts : /\ job.todo = <<Voting(job.u[2], k)>>
                                      /\ Head(job.todo) = Voting(job.u[2], k)
                                      /\ Tail(job.todo) = <<>>
    BY <1>1, <1>h, <1>r, <2>3, <2>4
  <2>5. Head(job.todo) # Users
    BY <1>h, MoveNames DEF Moves
  <2> QED
    BY <1>h, <2>1, <2>2, <2>4, <2>5, VoteHeads
<1>2. CASE job.u[1] = "nav"
  <2>1. job.todo = << <<"show", job.u[2]>> >>
    BY <1>2, <1>h, <1>r DEF Rest
  <2>2. Head(job.todo) = <<"show", job.u[2]>> /\ Tail(job.todo) = <<>>
    BY <2>1, Short
  <2>3. ShowCard /\ Arg = job.u[2]
    BY <1>h, <2>2 DEF Arg
  <2>4. Done
    BY <1>h, <2>3, <2>2
  <2>5. Rest(job.u, job'.todo)
    BY <1>2, <1>t, <2>2, <2>4 DEF Rest
  <2> QED
    BY <1>2, <1>h, <1>r, <1>t, <2>2, <2>3, <2>4, <2>5
<1>3. CASE job.u[1] = "ob"
  <2>1. Head(job.todo)[1] \in {"clear", "set", "users", "profile", "try_prefs"}
    BY <1>3, <1>h, <1>r, ObHeads DEF Rest
  <2> QED
    BY <1>h, <2>1 DEF Moves
<1>4. CASE job.u[1] \notin {"fb", "nav", "ob"}
  <2>1. Tame(Head(job.todo))
    BY <1>4, <1>h, <1>r, QuietTail DEF Rest
  <2> QED
    BY <1>h, <2>1 DEF Tame
<1> QED
  BY <1>1, <1>2, <1>3, <1>4

\* A plan that begins.
LEMMA StartFields ==
    ASSUME PlanInv, NEW c, Start(c)
    PROVE  /\ Kind(job.u) /\ job.phase = "arrived"
           /\ IsJob' /\ job'.phase = "running" /\ job'.u = job.u
           /\ job'.todo \in Plans(job.u, c)
           /\ c \in {cache, conv, Nothing} /\ cache' \in {cache, conv}
           /\ UNCHANGED <<conv, api>>
<1>0. /\ c \in {cache, conv, Nothing} /\ cache' \in {cache, conv}
      /\ UNCHANGED <<conv, api>>
  BY DEF Start, ReadConv
<1> PICK p \in Plans(job.u, c) :
      job' = [job EXCEPT !.phase = "running", !.todo = p]
  BY DEF Start
<1>1. job.phase = "arrived"
  BY DEF Start
<1>2. IsJob /\ Kind(job.u)
  BY <1>1 DEF PlanInv
<1>3. IsJob' /\ job'.phase = "running" /\ job'.u = job.u /\ job'.todo = p
  BY <1>2 DEF IsJob
<1> QED
  BY <1>0, <1>1, <1>2, <1>3

LEMMA NothingIsState == Nothing \in ConvState /\ Miss = Nothing
BY DEF Nothing, ConvState, Miss, At

\* What is left of a plan always fits its update.
LEMMA PlanStep ==
    ASSUME PlanInv, [Next]_vars
    PROVE  PlanInv'
<1>1. ASSUME NEW u \in Updates.common \union Updates[part], Arrive(u)
      PROVE  PlanInv'
  <2>1. /\ job' = [u |-> u, todo |-> <<>>, phase |-> "arrived", blind |-> FALSE]
        /\ UNCHANGED <<part, conv, cache, api>>
    BY <1>1 DEF Arrive, Idle, dialog
  <2>2. Kind(u)
    BY UpdateKinds DEF PlanInv
  <2>3. IsJob' /\ job'.u = u /\ job'.todo = <<>> /\ job'.phase = "arrived"
    BY <2>1 DEF IsJob
  <2> QED
    BY <2>1, <2>2, <2>3 DEF PlanInv, ApiOK
<1>2. ASSUME NEW c, Start(c)
      PROVE  PlanInv'
  <2>1. UNCHANGED part
    BY <1>2 DEF Start
  <2>2. conv' \in ConvState /\ cache' \in ConvState /\ c \in ConvState /\ ApiOK'
    BY <1>2, StartFields, NothingIsState DEF PlanInv, ApiOK
  <2>3. Rest(job.u, job'.todo)
    BY <1>2, <2>2, StartFields, PlanFits DEF PlanInv, ApiOK
  <2> QED
    BY <1>2, <2>1, <2>2, <2>3, StartFields DEF PlanInv
<1>3. CASE Calls
  <2>1. UNCHANGED <<part, conv, cache>> /\ job.phase = "running"
    BY <1>3, CallEnds DEF dialog
  <2> QED
    BY <1>3, <2>1, CallRest, CallApi DEF PlanInv
<1>4. CASE Talks
  <2>1. conv' \in ConvState /\ cache' \in ConvState
    <3>1. CASE SetConv
      BY <1>4, <3>1, TalkRest DEF SetConv, PlanInv
    <3>2. CASE ClearConv
      BY <3>2, NothingIsState DEF ClearConv, PlanInv
    <3>3. CASE AskPro \/ MergePrefs \/ FirstSeen
      BY <3>3 DEF AskPro, MergePrefs, FirstSeen, dialog, PlanInv
    <3> QED
      BY <1>4, <3>1, <3>2, <3>3 DEF Talks
  <2>2. ApiOK'
    BY <1>4, TalkRest DEF PlanInv, ApiOK
  <2> QED
    BY <1>4, <2>1, <2>2, TalkQuiet, TalkRest DEF PlanInv
<1>5. CASE ShowCard \/ FinishCards \/ PostVote
  <2>1. UNCHANGED <<part, conv, cache, api>>
    BY <1>5 DEF ShowCard, FinishCards, PostVote, dialog
  <2> QED
    BY <1>5, <2>1, MoveRest DEF PlanInv, ApiOK
<1>6. CASE Finish \/ Crash
  <2>1. /\ UNCHANGED <<part, conv, api>> /\ cache' \in {cache, Miss}
        /\ \/ job' = Idle
           \/ job' = [Idle EXCEPT !.u = job.u, !.phase = "arrived"] /\ job.phase # "idle"
    BY <1>6 DEF Finish, Crash, dialog
  <2>2. /\ IsJob' /\ job'.todo = <<>>
        /\ \/ job'.phase = "idle"
           \/ job'.phase = "arrived" /\ job'.u = job.u /\ job.phase # "idle"
    <3>1. CASE job' = Idle
      BY <3>1 DEF IsJob, Idle
    <3>2. CASE /\ job' = [Idle EXCEPT !.u = job.u, !.phase = "arrived"]
               /\ job.phase # "idle"
      <4>1. job' = [u |-> job.u, todo |-> <<>>, phase |-> "arrived", blind |-> FALSE]
        BY <3>2 DEF Idle
      <4>2. /\ IsJob' /\ job'.u = job.u /\ job'.todo = <<>>
            /\ job'.phase = "arrived"
        BY <4>1 DEF IsJob
      <4> QED
        BY <3>2, <4>2
    <3> QED
      BY <2>1, <3>1, <3>2
  <2> QED
    BY <2>1, <2>2, NothingIsState DEF PlanInv, ApiOK
<1>7. CASE Expire \/ UNCHANGED vars
  <2>1. /\ UNCHANGED <<part, job, api>>
        /\ conv' \in {conv, Nothing} /\ cache' \in {cache, Miss}
    BY <1>7 DEF Expire, vars, dialog
  <2> QED
    BY <2>1, NothingIsState DEF PlanInv, IsJob, ApiOK
<1> QED
  BY <1>1, <1>2, <1>3, <1>4, <1>5, <1>6, <1>7 DEF Next, Effect, Calls, Talks

LEMMA PlanInit ==
    ASSUME Init
    PROVE  PlanInv
<1>1. job = [u |-> <<>>, todo |-> <<>>, phase |-> "idle", blind |-> FALSE]
  BY DEF Init, Idle
<1>2. IsJob /\ job.todo = <<>> /\ job.phase = "idle"
  BY <1>1 DEF IsJob
<1>3. conv \in ConvState /\ cache \in ConvState
  BY NothingIsState DEF Init
<1>4. ApiOK
  <2>1. [NoPrefs EXCEPT !.include = TRUE, !.budget = TRUE] \in Filters
    BY DEF NoPrefs, Filters
  <2>2. api = [prefs |-> [NoPrefs EXCEPT !.include = TRUE, !.budget = TRUE],
               profile |-> NoProfile, hour |-> FALSE, paused |-> FALSE, pro |-> FALSE]
    BY DEF Init
  <2> QED
    BY <2>1, <2>2 DEF ApiOK
<1> QED
  BY <1>2, <1>3, <1>4 DEF Init, PlanInv

-----------------------------------------------------------------------------
(* The cards and their votes.                                              *)

\* The values the cards and the counters can have.
CardTypes ==
    /\ session \in 0 .. Cards
    /\ shown \in [1 .. Cards -> Nat]
    /\ posted \in [1 .. Cards -> Nat]
    /\ faults \in Nat
    /\ slip \in BOOLEAN

\* While nothing has failed, a card that a vote has moved on from is the one
\* whose vote is about to be posted.
OwedInv ==
    faults = 0 /\ owed # 0 => /\ job.phase = "running" /\ job.u[1] = "fb"
                              /\ job.todo \in Owing(job.u[2])

\* A card has no more votes than the attempts of a handler allow for each time
\* it was shown.  The current card has a handler's attempts to spare; so has
\* the card whose vote is about to be posted, as far as they are left, and it
\* is not the current one any more.
Spare(i, k) == posted[i] + k <= Attempts * shown[i]
Spared(i, k) == posted'[i] + k <= Attempts * shown'[i]    \* after the step

VoteInv ==
    slip \/ /\ \A i \in 1 .. Cards : /\ Spare(i, 0)
                                     /\ session = i => Spare(i, Attempts)
            /\ job.phase = "running" /\ job.u[1] = "fb" =>
                  /\ job.todo \in Owing(job.u[2]) => session # job.u[2]
                  /\ job.todo = <<Users, Vote(job.u[2])>> => Spare(job.u[2], Attempts)
                  /\ \A k \in 1 .. Attempts :
                        job.todo = <<Voting(job.u[2], k)>> => Spare(job.u[2], k)
                  /\ job.todo = <<Move(job.u[2]), Users, Vote(job.u[2])>> =>
                        session = job.u[2]

CardsInv == PlanInv /\ CardTypes /\ OwedInv /\ VoteInv

LEMMA OwingIs ==
    ASSUME NEW i
    PROVE  /\ <<>> \notin Owing(i)
           /\ <<Vote(i)>> \in Owing(i) /\ <<Users, Vote(i)>> \in Owing(i)
           /\ <<Move(i), Users, Vote(i)>> \notin Owing(i)
           /\ <<Move(i), Users, Vote(i)>> # <<>>
           /\ <<Move(i), Users, Vote(i)>> # <<Users, Vote(i)>>
           /\ \A k \in 1 .. Attempts :
                 /\ <<Voting(i, k)>> \in Owing(i)
                 /\ <<Voting(i, k)>> # <<Users, Vote(i)>>
                 /\ <<Voting(i, k)>> # <<Move(i), Users, Vote(i)>>
                 /\ <<Voting(i, k)>> # <<>>
BY VoteIsOwing DEF Owing

\* A sequence of one attempt tells which attempt it is.
LEMMA VotingIs ==
    ASSUME NEW i, NEW k, NEW l, <<Voting(i, k)>> = <<Voting(i, l)>>
    PROVE  k = l
<1>1. Voting(i, k) = Voting(i, l)
  <2>1. Head(<<Voting(i, k)>>) = Voting(i, k) /\ Head(<<Voting(i, l)>>) = Voting(i, l)
    BY Short
  <2> QED
    BY <2>1
<1> QED
  BY <1>1, MoveNames

\* Cards, counters and plans that stay as they are.
LEMMA CardsFrame ==
    ASSUME CardsInv, PlanInv', UNCHANGED cards, slip => slip', slip' \in BOOLEAN,
           UNCHANGED faults \/ Fault,
           \/ UNCHANGED job
           \/ job'.phase # "running" /\ (job.phase # "running" \/ job.todo = <<>> \/ Fault)
           \/ job'.phase = "running" /\ job'.u[1] # "fb" /\ job.u[1] # "fb"
           \/ /\ job.phase = "running" /\ job'.phase = "running" /\ job'.u = job.u
              /\ job.u[1] = "fb" /\ job.todo = <<Users, Vote(job.u[2])>>
              /\ job'.todo = <<Vote(job.u[2])>> \/ (job'.todo = <<>> /\ Fault)
    PROVE  CardsInv'
<1>0. faults \in Nat /\ faults' \in Nat /\ (faults' = 0 => faults = 0 /\ ~Fault)
  BY DEF CardsInv, CardTypes, Fault
<1>1. CardTypes'
  BY <1>0 DEF CardsInv, CardTypes, cards
<1>2. OwedInv'
  BY <1>0, OwingIs DEF CardsInv, OwedInv, cards
<1>3. VoteInv'
  <2>0. UNCHANGED <<session, shown, posted>>
    BY DEF cards
  <2>1. CASE \/ UNCHANGED job
             \/ job'.phase # "running"
             \/ job'.u[1] # "fb"
    BY <2>0, <2>1 DEF CardsInv, VoteInv, Spare
  <2>2. CASE /\ job.phase = "running" /\ job'.phase = "running" /\ job'.u = job.u
             /\ job.u[1] = "fb" /\ job.todo = <<Users, Vote(job.u[2])>>
             /\ job'.todo = <<Vote(job.u[2])>> \/ job'.todo = <<>>
    <3> SUFFICES ASSUME ~slip'
                 PROVE  VoteInv'
      BY DEF VoteInv
    <3> DEFINE n == job.u[2]
    <3>1. /\ \A i \in 1 .. Cards : /\ Spare(i, 0)
                                   /\ session = i => Spare(i, Attempts)
          /\ session # n /\ Spare(n, Attempts)
      BY <2>2, OwingIs DEF CardsInv, VoteInv
    <3>2. ASSUME NEW k \in 1 .. Attempts, job'.todo = <<Voting(n, k)>>
          PROVE  k = Attempts
      <4>0. job'.todo # <<>>
        BY <3>2, OwingIs
      <4>1. <<Voting(n, k)>> = <<Voting(n, Attempts)>>
        BY <2>2, <3>2, <4>0, MoveNames
      <4> QED
        BY <4>1, VotingIs
    <3>3. /\ job'.todo # <<Users, Vote(n)>>
          /\ job'.todo # <<Move(n), Users, Vote(n)>>
      <4>1. Attempts \in 1 .. Attempts
        BY DEF Attempts
      <4>2. CASE job'.todo = <<>>
        BY <4>2, OwingIs
      <4>3. CASE job'.todo = <<Vote(n)>>
        <5>1. job'.todo = <<Voting(n, Attempts)>>
          BY <4>3, MoveNames
        <5> QED
          BY <4>1, <5>1, OwingIs
      <4> QED
        BY <2>2, <4>2, <4>3
    <3> HIDE DEF n
    <3>4. job'.u[2] = n
      BY <2>2 DEF n
    <3> QED
      BY <2>0, <3>1, <3>2, <3>3, <3>4 DEF VoteInv, Spare
  <2> QED
    BY <2>1, <2>2
<1> QED
  BY <1>1, <1>2, <1>3 DEF CardsInv

\* A card is shown, closed or voted on.
LEMMA CardsMove ==
    ASSUME CardsInv, PlanInv', ShowCard \/ FinishCards \/ PostVote
    PROVE  CardsInv'
<1> DEFINE n == job.u[2]
<1>m. /\ job.phase = "running" /\ job'.phase = "running" /\ job'.u = job.u
      /\ \/ /\ ShowCard /\ job.u[1] = "nav" /\ Arg = n /\ job'.todo = <<>>
         \/ /\ ShowCard /\ job.u[1] = "fb" /\ n < Cards /\ Arg = n + 1
            /\ job.todo = <<Move(n), Users, Vote(n)>>
            /\ job'.todo = <<Users, Vote(n)>>
         \/ /\ FinishCards /\ job.u[1] = "fb"
            /\ job.todo = <<Move(n), Users, Vote(n)>>
            /\ job'.todo = <<Users, Vote(n)>>
         \/ \E k \in 1 .. Attempts :
               /\ PostVote /\ job.u[1] = "fb" /\ Arg = n
               /\ job.todo = <<Voting(n, k)>>
               /\ job'.todo = <<>> \/ (k > 1 /\ job'.todo = <<Voting(n, k - 1)>>)
  BY MoveRest DEF CardsInv
<1>n. n \in 1 .. Cards
  <2>1. Kind(job.u) /\ job.u[1] \in {"nav", "fb"}
    BY <1>m, MoveRest DEF CardsInv
  <2>2. /\ job.u # <<"command", "help">> /\ job.u # <<"command", "show">>
        /\ job.u # <<"profile", "good">>
    BY <2>1
  <2> QED
    BY <2>1, <2>2 DEF Kind
<1>t. CardTypes /\ OwedInv /\ VoteInv /\ Cards \in Nat \ {0}
  BY DialogAssumption DEF CardsInv
<1>r. job'.u[2] = n
  BY <1>m
<1> HIDE DEF n
<1>1. CASE ShowCard
  <2> PICK k \in 1 .. Cards :
        /\ \/ session' = k /\ UNCHANGED <<slip, faults>>
           \/ faults' = faults + 1 /\ slip' = TRUE /\ UNCHANGED session
        /\ shown' = [shown EXCEPT ![k] = @ + 1]
        /\ owed' = IF job.u[1] = "fb" THEN n ELSE owed
        /\ UNCHANGED posted
        /\ \/ job.u[1] = "nav" /\ k = n /\ job'.todo = <<>>
           \/ /\ job.u[1] = "fb" /\ k = n + 1
              /\ job.todo = <<Move(n), Users, Vote(n)>>
              /\ job'.todo = <<Users, Vote(n)>>
    <3>1. Arg \in 1 .. Cards
      BY <1>1, <1>m, <1>n, <1>t DEF ShowCard, FinishCards, PostVote, Doing
    <3> QED
      BY <1>1, <1>m, <3>1 DEF ShowCard, FinishCards, PostVote, Doing, Fault, ByVote, n
  <2>1. CardTypes'
    <3>0. slip' \in BOOLEAN
      <4>1. slip' = slip \/ slip' = TRUE
        OBVIOUS
      <4> QED
        BY <1>t, <4>1, Zenon DEF CardTypes
    <3>1. session' \in 0 .. Cards /\ faults' \in Nat /\ slip' \in BOOLEAN
      BY <3>0, <1>t DEF CardTypes
    <3>2. shown' \in [1 .. Cards -> Nat] /\ posted' \in [1 .. Cards -> Nat]
      BY <1>t DEF CardTypes
    <3> QED
      BY <3>1, <3>2 DEF CardTypes
  <2>2. OwedInv'
    <3>1. CASE job.u[1] = "fb"
      BY <1>m, <1>r, <3>1, OwingIs DEF OwedInv
    <3>2. CASE job.u[1] # "fb"
      <4>1. owed' = owed /\ (faults' = 0 => faults = 0)
        BY <1>t, <3>2 DEF CardTypes
      <4>2. faults = 0 => owed = 0
        BY <1>t, <3>2 DEF OwedInv
      <4> QED
        BY <4>1, <4>2 DEF OwedInv
    <3> QED
      BY <3>1, <3>2
  <2>3. VoteInv'
    <3> SUFFICES ASSUME ~slip'
                 PROVE  VoteInv'
      BY DEF VoteInv
    <3>1. ~slip /\ session' = k
      BY <1>t DEF CardTypes
    <3>2. \A i \in 1 .. Cards : /\ Spare(i, 0)'
                                /\ session' = i => Spare(i, Attempts)'
      <4> SUFFICES ASSUME NEW i \in 1 .. Cards
                   PROVE  Spare(i, 0)' /\ (session' = i => Spare(i, Attempts)')
        OBVIOUS
      <4>1. posted[i] <= 4 * shown[i]
        BY <1>t, <3>1 DEF VoteInv, CardTypes, Spare, Attempts
      <4>2. /\ posted[i] \in Nat /\ shown[i] \in Nat /\ posted'[i] = posted[i]
            /\ shown'[i] = IF i = k THEN shown[i] + 1 ELSE shown[i]
        BY <1>t DEF CardTypes
      <4>3. CASE i = k
        <5>1. posted'[i] + 0 <= 4 * shown'[i] /\ posted'[i] + 4 <= 4 * shown'[i]
          BY <4>1, <4>2, <4>3
        <5> QED
          BY <5>1 DEF Spare, Attempts
      <4>4. CASE i # k
        <5>1. posted'[i] + 0 <= 4 * shown'[i] /\ session' # i
          BY <3>1, <4>1, <4>2, <4>4
        <5> QED
          BY <5>1 DEF Spare, Attempts
      <4> QED
        BY <4>3, <4>4
    <3>3. ASSUME job.u[1] = "fb"
          PROVE  /\ job'.todo = <<Users, Vote(n)>> /\ session' # n
                 /\ Spared(n, Attempts)
      <4>1. /\ k = n + 1 /\ job.todo = <<Move(n), Users, Vote(n)>>
            /\ job'.todo = <<Users, Vote(n)>>
        BY <3>3
      <4>2. session = n
        BY <1>m, <1>t, <3>1, <3>3, <4>1 DEF VoteInv, n
      <4>3. Spare(n, Attempts)
        BY <1>n, <1>t, <3>1, <4>2 DEF VoteInv
      <4>4. Spared(n, Attempts) /\ session' # n
        BY <1>n, <1>t, <3>1, <4>1, <4>3 DEF CardTypes, Spare, Spared
      <4> QED
        BY <4>1, <4>4
    <3> QED
      BY <1>m, <1>n, <1>r, <3>2, <3>3, OwingIs DEF VoteInv, Spare, Spared
  <2> QED
    BY <2>1, <2>2, <2>3 DEF CardsInv
<1>2. CASE FinishCards
  <2>1. /\ \/ session' = 0 /\ UNCHANGED <<slip, faults>>
           \/ faults' = faults + 1 /\ slip' = TRUE /\ UNCHANGED session
        /\ UNCHANGED <<shown, posted>>
        /\ job.u[1] = "fb"
        /\ job.todo = <<Move(n), Users, Vote(n)>>
        /\ job'.todo = <<Users, Vote(n)>>
    BY <1>2, <1>m DEF ShowCard, FinishCards, PostVote, Doing, Fault
  <2>2. CardTypes'
    <3>0. slip' \in BOOLEAN
      <4>1. slip' = slip \/ slip' = TRUE
        BY <2>1
      <4> QED
        BY <1>t, <4>1, Zenon DEF CardTypes
    <3>1. session' \in 0 .. Cards /\ faults' \in Nat /\ slip' \in BOOLEAN
      BY <3>0, <1>t, <2>1 DEF CardTypes
    <3> QED
      BY <1>t, <2>1, <3>1 DEF CardTypes
  <2>3. OwedInv'
    BY <1>m, <1>r, <2>1, OwingIs DEF OwedInv
  <2>4. VoteInv'
    <3> SUFFICES ASSUME ~slip'
                 PROVE  VoteInv'
      BY DEF VoteInv
    <3>1. ~slip /\ session' = 0
      BY <1>t, <2>1 DEF CardTypes
    <3>2. \A i \in 1 .. Cards : /\ Spare(i, 0)'
                                /\ session' = i => Spare(i, Attempts)'
      BY <1>t, <2>1, <3>1 DEF VoteInv, CardTypes, Spare
    <3>3. Spared(n, Attempts)
      <4>1. Spare(n, Attempts)
        BY <1>t, <1>m, <1>n, <2>1, <3>1 DEF VoteInv, n
      <4> QED
        BY <2>1, <4>1 DEF Spare, Spared
    <3> QED
      BY <1>m, <1>n, <1>r, <2>1, <3>1, <3>2, <3>3, OwingIs DEF VoteInv, Spare, Spared
  <2> QED
    BY <2>2, <2>3, <2>4 DEF CardsInv
<1>3. CASE PostVote
  <2> PICK k \in 1 .. Attempts :
        /\ \/ /\ posted' = [posted EXCEPT ![n] = @ + 1] /\ owed' = 0
              /\ UNCHANGED faults
           \/ /\ faults' = faults + 1 /\ UNCHANGED owed
              /\ posted' \in {posted, [posted EXCEPT ![n] = @ + 1]}
        /\ UNCHANGED <<shown, session, slip>>
        /\ job.u[1] = "fb" /\ job.todo = <<Voting(n, k)>>
        /\ job'.todo = <<>> \/ (k > 1 /\ job'.todo = <<Voting(n, k - 1)>>)
    BY <1>3, <1>m DEF ShowCard, FinishCards, PostVote, Doing, Fault, dialog
  <2>1. posted' = posted \/ posted' = [posted EXCEPT ![n] = @ + 1]
    OBVIOUS
  <2>2. CardTypes'
    <3>0. slip' \in BOOLEAN
      <4>1. slip' = slip
        OBVIOUS
      <4> QED
        BY <1>t, <4>1, Zenon DEF CardTypes
    <3>1. session' \in 0 .. Cards /\ faults' \in Nat /\ slip' \in BOOLEAN
      BY <3>0, <1>t DEF CardTypes
    <3>2. posted' \in [1 .. Cards -> Nat]
      <4>1. posted \in [1 .. Cards -> Nat]
        BY <1>t DEF CardTypes
      <4>2. posted[n] + 1 \in Nat
        BY <4>1, <1>n
      <4>3. [posted EXCEPT ![n] = @ + 1] \in [1 .. Cards -> Nat]
        BY <4>1, <4>2, <1>n
      <4> QED
        BY <2>1, <4>1, <4>3
    <3> QED
      BY <1>t, <3>1, <3>2 DEF CardTypes
  <2>3. OwedInv'
    BY <1>t DEF OwedInv, CardTypes
  <2>4. VoteInv'
    <3> SUFFICES ASSUME ~slip'
                 PROVE  VoteInv'
      BY DEF VoteInv
    <3>1. ~slip /\ session # n /\ Spare(n, k)
      BY <1>t, <1>m, OwingIs DEF VoteInv, n
    <3>2. Spared(n, k - 1) /\ Spared(n, 0)
      <4>0. posted[n] \in Nat /\ shown[n] \in Nat
        BY <1>t, <1>n DEF CardTypes
      <4>1. posted'[n] = posted[n] \/ posted'[n] = posted[n] + 1
        BY <1>t, <1>n, <2>1 DEF CardTypes
      <4> QED
        BY <3>1, <4>0, <4>1 DEF Spare, Spared, Attempts
    <3>3. \A i \in 1 .. Cards : /\ Spare(i, 0)'
                                /\ session' = i => Spare(i, Attempts)'
      <4> TAKE i \in 1 .. Cards
      <4>1. Spare(i, 0) /\ (session = i => Spare(i, Attempts))
        BY <1>t, <3>1 DEF VoteInv
      <4>2. CASE i = n
        BY <3>1, <3>2, <4>2 DEF Spare, Spared
      <4>3. CASE i # n
        <5>1. posted'[i] = posted[i]
          BY <1>t, <1>n, <2>1, <4>3 DEF CardTypes
        <5> QED
          BY <4>1, <5>1 DEF Spare
      <4> QED
        BY <4>2, <4>3
    <3>4. CASE job'.todo = <<>>
      BY <1>m, <1>r, <3>3, <3>4, OwingIs DEF VoteInv
    <3>5. CASE k > 1 /\ job'.todo = <<Voting(n, k - 1)>>
      <4>1. k - 1 \in 1 .. Attempts
        BY <3>5 DEF Attempts
      <4>2. \A l \in 1 .. Attempts : job'.todo = <<Voting(n, l)>> => Spared(n, l)
        BY <3>2, <3>5, VotingIs
      <4>3. /\ job'.todo # <<Users, Vote(n)>>
            /\ job'.todo # <<Move(n), Users, Vote(n)>>
        BY <3>5, <4>1, OwingIs
      <4> QED
        BY <1>m, <1>n, <1>r, <3>1, <3>3, <4>2, <4>3 DEF VoteInv, Spare, Spared
    <3> QED
      BY <3>4, <3>5
  <2> QED
    BY <2>2, <2>3, <2>4 DEF CardsInv
<1> QED
  BY <1>1, <1>2, <1>3

\* The current card and the votes fit each other in every reachable state.
LEMMA CardsStep ==
    ASSUME CardsInv, [Next]_vars
    PROVE  CardsInv'
<1>p. PlanInv /\ PlanInv'
  BY PlanStep DEF CardsInv
<1>b. slip \in BOOLEAN
  BY DEF CardsInv, CardTypes
<1>1. ASSUME NEW u \in Updates.common \union Updates[part], Arrive(u)
      PROVE  CardsInv'
  <2>1. job.phase = "idle" /\ job'.phase = "arrived"
    BY <1>1 DEF Arrive, Idle
  <2>2. UNCHANGED <<cards, slip, faults>>
    BY <1>1 DEF Arrive, dialog
  <2> QED
    BY <1>b, <1>p, <2>1, <2>2, CardsFrame
<1>2. ASSUME NEW c, Start(c)
      PROVE  CardsInv'
  <2>1. /\ job.phase = "arrived" /\ job'.phase = "running" /\ job'.u = job.u
        /\ job'.todo \in Plans(job.u, c)
    BY <1>2, <1>p, StartFields
  <2>2. UNCHANGED <<cards, slip>> /\ (UNCHANGED faults \/ Fault)
    BY <1>2 DEF Start, ReadConv
  <2>3. CASE job.u[1] = "fb"
    <3> DEFINE n == job.u[2]
    <3>1. job'.todo = VotePlan(n)
      BY <2>1, <2>3 DEF Plans, CardPlan
    <3>2. \/ job'.todo = <<>>
          \/ job'.todo = <<Move(n), Users, Vote(n)>> /\ session = n
      BY <3>1 DEF VotePlan, Move
    <3>3. job'.todo \notin Owing(n)
      BY <3>2, OwingIs
    <3>4. job'.todo = <<Move(n), Users, Vote(n)>> => session = n
      BY <3>2, OwingIs
    <3>5. CardTypes'
      BY <1>b, <2>2 DEF CardsInv, CardTypes, cards, Fault
    <3>6. OwedInv'
      BY <2>1, <2>2 DEF CardsInv, OwedInv, CardTypes, cards, Fault
    <3>7. VoteInv'
      <4>1. /\ job'.todo # <<Users, Vote(n)>>
            /\ \A k \in 1 .. Attempts : job'.todo # <<Voting(n, k)>>
        BY <3>3, OwingIs
      <4> QED
        BY <2>1, <2>2, <3>3, <3>4, <4>1 DEF CardsInv, VoteInv, Spare, cards
    <3> QED
      BY <1>p, <3>5, <3>6, <3>7 DEF CardsInv
  <2>4. CASE job.u[1] # "fb"
    BY <1>b, <1>p, <2>1, <2>2, <2>4, CardsFrame
  <2> QED
    BY <2>3, <2>4
<1>3. CASE Calls
  <2>1. /\ UNCHANGED <<cards, slip>> /\ (UNCHANGED faults \/ Fault)
        /\ job.phase = "running"
    BY <1>3, <1>p, CallEnds DEF dialog
  <2>2. /\ job'.phase = "running" /\ job'.u = job.u
        /\ job.u[1] = "fb" => /\ job.todo = <<Users, Vote(job.u[2])>>
                              /\ \/ job'.todo = <<Vote(job.u[2])>>
                                 \/ job'.todo = <<>> /\ Fault
    BY <1>3, <1>p, CallRest, OwingIs
  <2> QED
    BY <1>b, <1>p, <2>1, <2>2, CardsFrame
<1>4. CASE Talks
  <2>1. /\ UNCHANGED cards /\ (UNCHANGED faults \/ Fault) /\ (slip => slip')
        /\ job'.phase = "running" /\ job'.u = job.u
    BY <1>4, <1>p, TalkQuiet
  <2>2. job.u[1] # "fb"
    BY <1>4, <1>p, TalkRest
  <2>3. slip' \in BOOLEAN
    <3>1. slip' = slip \/ slip' = TRUE
      BY <1>4 DEF Talks, AskPro, MergePrefs, FirstSeen, SetConv, ClearConv, dialog
    <3> QED
      BY <1>b, <3>1
  <2> QED
    BY <1>p, <2>1, <2>2, <2>3, CardsFrame
<1>5. CASE ShowCard \/ FinishCards \/ PostVote
  BY <1>5, <1>p, CardsMove
<1>6. CASE Finish
  <2>1. job.todo = <<>> /\ job'.phase = "idle"
    BY <1>6 DEF Finish, Idle
  <2>2. UNCHANGED <<cards, slip, faults>>
    BY <1>6 DEF Finish, dialog
  <2> QED
    BY <1>b, <1>p, <2>1, <2>2, CardsFrame
<1>7. CASE Crash
  <2>1. job'.phase # "running" /\ Fault /\ UNCHANGED <<cards, slip>>
    BY <1>7 DEF Crash, Idle
  <2> QED
    BY <1>b, <1>p, <2>1, CardsFrame
<1>8. CASE Expire
  <2>1. /\ job.phase = "idle" /\ UNCHANGED <<slip, owed, shown, posted, job, faults>>
        /\ session' = session \/ session' = 0
    BY <1>8 DEF Expire
  <2>2. CASE session' = session
    BY <1>b, <1>p, <2>1, <2>2, CardsFrame DEF cards
  <2>3. CASE session' = 0
    <3>1. CardTypes'
      BY <1>b, <2>1, <2>3, DialogAssumption DEF CardsInv, CardTypes
    <3>2. OwedInv'
      BY <2>1 DEF CardsInv, OwedInv
    <3>3. VoteInv'
      BY <2>1, <2>3 DEF CardsInv, VoteInv, Spare
    <3> QED
      BY <1>p, <3>1, <3>2, <3>3 DEF CardsInv
  <2> QED
    BY <2>1, <2>2, <2>3
<1>9. CASE UNCHANGED vars
  <2>1. UNCHANGED <<cards, slip, faults, job>>
    BY <1>9 DEF vars, dialog
  <2> QED
    BY <1>b, <1>p, <2>1, CardsFrame
<1> QED
  BY <1>1, <1>2, <1>3, <1>4, <1>5, <1>6, <1>7, <1>8, <1>9
     DEF Next, Effect, Calls, Talks

LEMMA CardsInit ==
    ASSUME Init
    PROVE  CardsInv
<1>1. PlanInv
  BY PlanInit
<1>2. /\ session = 1 /\ owed = 0 /\ faults = 0 /\ slip = FALSE
      /\ shown = [i \in 1 .. Cards |-> IF i = 1 THEN 1 ELSE 0]
      /\ posted = [i \in 1 .. Cards |-> 0]
      /\ job.phase = "idle"
  BY DEF Init, Idle
<1>3. CardTypes
  <2>1. slip \in BOOLEAN
    BY <1>2
  <2>2. session \in 0 .. Cards /\ faults \in Nat
    BY <1>2, DialogAssumption
  <2>3. shown \in [1 .. Cards -> Nat] /\ posted \in [1 .. Cards -> Nat]
    BY <1>2
  <2> QED
    BY <2>1, <2>2, <2>3 DEF CardTypes
<1>4. OwedInv /\ VoteInv
  BY <1>2 DEF OwedInv, VoteInv, Spare, Attempts
<1> QED
  BY <1>1, <1>3, <1>4 DEF CardsInv

\* Whatever is pressed, twice or again after a crash, a card has no more votes
\* than the attempts of one handler for each time it was shown, unless Redis
\* did not take the session.
THEOREM VotesWithinShows == Spec => []VotesWithinAttempts
<1>1. Init => CardsInv
  BY CardsInit
<1>2. CardsInv /\ [Next]_vars => CardsInv'
  BY CardsStep
<1>3. CardsInv => VotesWithinAttempts
  <2> SUFFICES ASSUME CardsInv, ~slip, NEW i \in 1 .. Cards
               PROVE  posted[i] <= Attempts * shown[i]
    BY DEF VotesWithinAttempts
  <2>1. Spare(i, 0) /\ posted[i] \in Nat
    BY DEF CardsInv, VoteInv, CardTypes
  <2> QED
    BY <2>1 DEF Spare
<1> QED
  BY <1>1, <1>2, <1>3, PTL DEF Spec

\* Without a fault, the vote that moved the cards on has reached the backend
\* when the next update is taken.
THEOREM NoVoteLost == Spec => []MovedOnMeansPosted
<1>1. Init => CardsInv
  BY CardsInit
<1>2. CardsInv /\ [Next]_vars => CardsInv'
  BY CardsStep
<1>3. CardsInv => MovedOnMeansPosted
  BY DEF CardsInv, CardTypes, OwedInv, MovedOnMeansPosted
<1> QED
  BY <1>1, <1>2, <1>3, PTL DEF Spec

-----------------------------------------------------------------------------
(* The two copies of the conversation state.                               *)

\* Unless a write to Redis was lost, a copy holds what was last set or cleared,
\* or nothing.
CopyInv == slip \/ (conv \in {asked, Nothing} /\ cache \in {asked, Nothing})

\* Only setting, clearing, reading and expiry touch the copies.
LEMMA CopyFrame ==
    ASSUME CopyInv, UNCHANGED <<conv, asked>>, slip => slip',
           cache' \in {cache, conv, Nothing}
    PROVE  CopyInv'
BY DEF CopyInv

LEMMA ReadConvIs ==
    ASSUME NEW c, ReadConv(c)
    PROVE  c \in {cache, conv, Nothing} /\ cache' \in {cache, conv}
BY DEF ReadConv

LEMMA CopyStep ==
    ASSUME PlanInv, CopyInv, [Next]_vars
    PROVE  CopyInv'
<1>1. ASSUME NEW u \in Updates.common \union Updates[part], Arrive(u)
      PROVE  CopyInv'
  <2>1. UNCHANGED <<conv, asked, cache, slip>>
    BY <1>1 DEF Arrive, dialog
  <2> QED
    BY <2>1, CopyFrame
<1>2. ASSUME NEW c, Start(c)
      PROVE  CopyInv'
  <2>1. UNCHANGED <<conv, asked, slip>> /\ cache' \in {cache, conv}
    BY <1>2, ReadConvIs DEF Start
  <2> QED
    BY <2>1, CopyFrame
<1>3. CASE Calls
  <2>1. UNCHANGED <<conv, asked, cache, slip>>
    BY <1>3, CallEnds DEF dialog
  <2> QED
    BY <2>1, CopyFrame
<1>4. CASE AskPro \/ MergePrefs \/ FirstSeen
  <2>1. UNCHANGED <<conv, asked, cache, slip>>
    BY <1>4 DEF AskPro, MergePrefs, FirstSeen, dialog
  <2> QED
    BY <2>1, CopyFrame
<1>5. CASE SetConv
  BY <1>5 DEF SetConv, CopyInv
<1>6. CASE ClearConv
  BY <1>6, NothingIsState DEF ClearConv, CopyInv
<1>7. CASE ShowCard \/ FinishCards \/ PostVote
  <2>1. UNCHANGED <<conv, asked, cache>> /\ (slip => slip')
    BY <1>7 DEF ShowCard, FinishCards, PostVote, dialog
  <2> QED
    BY <2>1, CopyFrame
<1>8. CASE Finish \/ UNCHANGED vars
  <2>1. UNCHANGED <<conv, asked, cache, slip>>
    BY <1>8 DEF Finish, vars, dialog
  <2> QED
    BY <2>1, CopyFrame
<1>9. CASE Crash \/ Expire
  BY <1>9, NothingIsState DEF Crash, Expire, CopyInv
<1> QED
  BY <1>1, <1>2, <1>3, <1>4, <1>5, <1>6, <1>7, <1>8, <1>9
     DEF Next, Effect, Calls

\* Only a start makes a plan.
LEMMA HandlingStarts ==
    ASSUME NEW kind, Handling(kind), [Next]_vars
    PROVE  \E c \in {conv, cache, Nothing} : Start(c)
<1>1. job.phase = "arrived" /\ job'.phase = "running"
  BY DEF Handling
<1>2. ~Effect /\ ~Finish /\ ~Expire /\ ~UNCHANGED vars
  BY <1>1 DEF Effect, CallUsers, LookUp, Read, PutProfile, PutPrefs, PutPause,
     PutPro, TryPrefs, PutHour, AskPro, MergePrefs, FirstSeen, SetConv,
     ClearConv, ShowCard, FinishCards, PostVote, PostOldVote, PostIntent,
     Doing, Finish, Expire, vars
<1>3. ~Crash
  BY <1>1 DEF Crash, Idle
<1>4. ASSUME NEW u, Arrive(u)
      PROVE  FALSE
  BY <1>1, <1>4 DEF Arrive, Idle
<1> QED
  BY <1>2, <1>3, <1>4 DEF Next

\* A text is taken for the last question, or for nothing.
LEMMA TextFollowsCopy ==
    ASSUME PlanInv, CopyInv, [Next]_vars, Handling("text"), job'.todo # <<>>
    PROVE  slip \/ job'.todo = TextPlan(job.u[2], asked)
<1> PICK c \in {conv, cache, Nothing} : Start(c)
  BY HandlingStarts
<1>1. /\ job.u[1] = "text"
      /\ job'.todo \in Plans(job.u, c)
  BY StartFields DEF Handling
<1>2. job'.todo = TextPlan(job.u[2], c)
  BY <1>1 DEF Plans
<1>3. slip \/ c \in {asked, Nothing}
  BY DEF CopyInv
<1>4. TextPlan(job.u[2], Nothing) = <<>>
  BY DEF TextPlan, Nothing
<1> QED
  BY <1>2, <1>3, <1>4

LEMMA CopyInit ==
    ASSUME Init
    PROVE  CopyInv
BY NothingIsState DEF Init, CopyInv

\* A text answers what the bot last asked: no state that was cleared or replaced
\* comes back from the cache or from Redis, whatever expires or crashes.
THEOREM NoStaleQuestion == Spec => TextAnswersLastQuestion
<1>1. Init => PlanInv /\ CopyInv
  BY PlanInit, CopyInit
<1>2. PlanInv /\ CopyInv /\ [Next]_vars => PlanInv' /\ CopyInv'
  BY PlanStep, CopyStep
<1>3. PlanInv /\ CopyInv /\ [Next]_vars =>
         [Handling("text") /\ job'.todo # <<>> =>
             slip \/ job'.todo = TextPlan(job.u[2], asked)]_vars
  BY TextFollowsCopy
<1> QED
  BY <1>1, <1>2, <1>3, PTL DEF Spec, TextAnswersLastQuestion

-----------------------------------------------------------------------------
(* The questionnaire and the category picked in it.                        *)

\* What is left of a plan of the questionnaire carries the picked category.
Fresh == {"cat:backend", "cat:other", "manual", "restart"}
Chosen(s, choice, cat) ==
    \/ s \in {<<>>, <<Clear>>, <<Clear, Set(At("category"))>>}
    \/ \E n \in ConvState : s = <<Set(n)>> /\ (choice \notin Fresh => n.cat = cat)
    \/ \E p, x : p.cat = cat /\ s \in Confirming(p, x)

\* While a category is picked and no write was lost, Redis holds the state that
\* was set with it, the cache holds it too or nothing, and so does the plan.
WalkInv ==
    \/ slip \/ walk = "none"
    \/ /\ asked.cat = walk /\ asked.step \in OnboardingSteps
       /\ conv = asked /\ cache \in {asked, Nothing}
       /\ job.phase = "running" /\ job.u[1] = "ob" =>
              Chosen(job.todo, job.u[2], walk)

\* A step of the questionnaire keeps the category it found.
LEMMA OnboardingKeeps ==
    ASSUME NEW choice, NEW ob \in ConvState, ob.step \in OnboardingSteps,
           ob.cat # "none", NEW p \in OnboardingPlans(choice, ob)
    PROVE  Chosen(p, choice, ob.cat)
<1>o. Ob(ob) = ob
  BY DEF Ob
<1>1. CASE choice = "confirm"
  <2>1. PICK ok \in LongEnough(ob), s \in BOOLEAN, b \in BOOLEAN :
          p = IF ok THEN ConfirmPlan(ob, s, b) ELSE <<>>
    <3>1. OnboardingPlans(choice, ob) =
            {IF ok THEN ConfirmPlan(Ob(ob), s, b) ELSE <<>> :
                ok \in LongEnough(Ob(ob)), s \in BOOLEAN, b \in BOOLEAN}
      BY <1>1 DEF OnboardingPlans, Ob
    <3> QED
      BY <3>1, <1>o
  <2> DEFINE x == [NoPrefs EXCEPT !.src = s, !.budget = b]
  <2>2. ConfirmPlan(ob, s, b) \in Confirming(BuiltProfile(ob), x)
    BY DEF ConfirmPlan, Confirming, Built, Try
  <2>3. BuiltProfile(ob).cat = ob.cat
    BY DEF BuiltProfile
  <2> HIDE DEF x
  <2> QED
    BY <2>1, <2>2, <2>3 DEF Chosen
<1>2. CASE choice \in {"restart", "keep"}
  BY <1>2 DEF OnboardingPlans, Chosen
<1>3. CASE choice \notin {"confirm", "restart", "keep"}
  <2>1. p = <<>> \/ \E n \in Onboarding(choice, ob) : p = <<Set(n)>>
    <3>1. p = <<>> \/ \E n \in Onboarding(choice, Ob(ob)) : p = <<Set(n)>>
      BY <1>3 DEF OnboardingPlans, Ob
    <3> QED
      BY <3>1, <1>o
  <2>2. ASSUME NEW n \in Onboarding(choice, ob), choice \notin Fresh
        PROVE  n.cat = ob.cat
    <3>1. \/ n = ob
          \/ n = [ob EXCEPT !.step = "rate", !.exp = TRUE]
          \/ n = [ob EXCEPT !.step = "experience"]
          \/ n = [ob EXCEPT !.step = "sources", !.rate = choice = "rate"]
          \/ n = [ob EXCEPT !.step = "budget"]
          \/ n = [ob EXCEPT !.step = "confirm"]
          \/ n = [ob EXCEPT !.step = "edit"]
      BY <2>2 DEF Onboarding, Fresh
    <3> QED
      BY <3>1 DEF ConvState
  <2> QED
    BY <2>1, <2>2, OnboardingSets DEF Chosen
<1> QED
  BY <1>1, <1>2, <1>3

\* The head and the tail of what is left.
LEMMA ChosenHeads ==
    ASSUME NEW s, NEW choice, NEW cat, Chosen(s, choice, cat), s # <<>>
    PROVE  /\ Head(s)[1] \in {"users", "profile", "try_prefs"} =>
                 Chosen(Tail(s), choice, cat)
           /\ Head(s)[1] = "profile" => Head(s)[2].cat = cat
           /\ Head(s)[1] = "set" /\ choice \notin Fresh => Head(s)[2].cat = cat
<1>1. CASE s = <<Clear>> \/ s = <<Clear, Set(At("category"))>>
  <2>1. Head(s) = Clear
    <3> DEFINE r == Set(At("category"))
    <3>1. Head(<<Clear>>) = Clear /\ Head(<<Clear, r>>) = Clear
      BY Short
    <3> QED
      BY <1>1, <3>1
  <2> QED
    BY <2>1 DEF Clear
<1>2. ASSUME NEW n, s = <<Set(n)>>, choice \notin Fresh => n.cat = cat
      PROVE  /\ Head(s)[1] = "set"
             /\ choice \notin Fresh => Head(s)[2].cat = cat
  BY <1>2, Short DEF Set
<1>3. ASSUME NEW p, p.cat = cat, NEW x, s \in Confirming(p, x)
      PROVE  /\ Head(s)[1] # "set"
             /\ Chosen(Tail(s), choice, cat)
             /\ Head(s)[1] = "profile" => Head(s)[2].cat = cat
  <2>1. CASE s = <<Users, Built(p), Try(x), Clear>>
    <3>1. Head(s) = Users /\ Tail(s) = <<Built(p), Try(x), Clear>>
      BY <2>1
    <3>2. Chosen(Tail(s), choice, cat)
      BY <1>3, <3>1 DEF Chosen, Confirming
    <3> QED
      BY <3>1, <3>2 DEF Users
  <2>2. CASE s = <<Built(p), Try(x), Clear>>
    <3>1. Head(s) = Built(p) /\ Tail(s) = <<Try(x), Clear>>
      BY <2>2, Short
    <3>2. Chosen(Tail(s), choice, cat)
      BY <1>3, <3>1 DEF Chosen, Confirming
    <3> QED
      BY <1>3, <3>1, <3>2 DEF Built
  <2>3. CASE s = <<Try(x), Clear>>
    <3>1. Head(s) = Try(x) /\ Tail(s) = <<Clear>>
      BY <2>3, Short
    <3>2. Chosen(Tail(s), choice, cat)
      BY <3>1 DEF Chosen
    <3> QED
      BY <3>1, <3>2 DEF Try
  <2> QED
    BY <1>3, <2>1, <2>2, <2>3 DEF Confirming
<1>4. CASE \E n \in ConvState : s = <<Set(n)>> /\ (choice \notin Fresh => n.cat = cat)
  BY <1>2, <1>4
<1>5. CASE \E p, x : p.cat = cat /\ s \in Confirming(p, x)
  BY <1>3, <1>5
<1> QED
  BY <1>1, <1>4, <1>5 DEF Chosen

\* Plans of other updates, and states that stay or get lost.
LEMMA WalkFrame ==
    ASSUME WalkInv, UNCHANGED <<asked, conv, walk>>, slip => slip',
           cache' \in {cache, Nothing},
           \/ job'.phase # "running" \/ job'.u[1] # "ob"
           \/ UNCHANGED job
    PROVE  WalkInv'
BY DEF WalkInv

\* The questionnaire starts from the state it left.
LEMMA WalkStart ==
    ASSUME PlanInv, WalkInv, NEW c, Start(c)
    PROVE  WalkInv'
<1>1. /\ UNCHANGED <<asked, conv, slip>> /\ cache' \in {cache, conv}
      /\ walk' \in {walk, "none"} /\ job'.u = job.u
  <2>1. UNCHANGED <<asked, conv, slip>> /\ walk' \in {walk, "none"}
    BY DEF Start, ReadConv
  <2> QED
    BY <2>1, StartFields
<1> SUFFICES ASSUME ~slip, walk' # "none"
             PROVE  WalkInv'
  BY <1>1 DEF WalkInv
<1>2. /\ walk' = walk
      /\ asked.cat = walk /\ asked.step \in OnboardingSteps
      /\ conv = asked /\ cache \in {asked, Nothing}
  BY <1>1 DEF WalkInv
<1>3. ASSUME job.u[1] = "ob"
      PROVE  Chosen(job'.todo, job.u[2], walk)
  <2>1. c = asked
    BY <1>2, <1>3, NothingIsState DEF Start, ReadConv
  <2>2. job'.todo \in OnboardingPlans(job.u[2], c)
    BY <1>3, StartFields DEF Plans
  <2>3. asked \in ConvState
    BY <1>2 DEF PlanInv
  <2> QED
    BY <1>2, <2>1, <2>2, <2>3, OnboardingKeeps
<1> QED
  BY <1>1, <1>2, <1>3 DEF WalkInv

\* What the effects of a questionnaire are.
LEMMA ObEffects ==
    ASSUME PlanInv, job.phase = "running", job.todo # <<>>, job.u[1] = "ob"
    PROVE  /\ Head(job.todo)[1] \in {"clear", "set", "users", "profile", "try_prefs"}
           /\ Head(job.todo)[1] = "set" => /\ Arg \in ConvState
                                           /\ Arg.step \in OnboardingSteps
                                           /\ Tail(job.todo) = <<>>
<1>1. ObRest(job.todo)
  BY DEF PlanInv, Rest
<1> QED
  BY <1>1, ObHeads DEF Arg

\* A state is set.
LEMMA WalkSet ==
    ASSUME PlanInv, WalkInv, SetConv
    PROVE  WalkInv'
<1>1. /\ Head(job.todo)[1] = "set" /\ job.phase = "running" /\ job.todo # <<>>
      /\ asked' = Arg /\ cache' = Arg /\ Done
      /\ walk' = IF ContinuesWalk THEN walk ELSE Arg.cat
      /\ (conv' = Arg /\ UNCHANGED slip) \/ slip' = TRUE
  BY DEF SetConv, Doing
<1>2. job'.u = job.u /\ job'.todo = Tail(job.todo)
  BY <1>1, ThenFields DEF Done, PlanInv
<1> SUFFICES ASSUME ~slip', walk' # "none"
             PROVE  WalkInv'
  BY DEF WalkInv
<1>3. conv' = Arg /\ ~slip
  BY <1>1
<1>4. CASE job.u[1] = "ob"
  <2>1. Arg.step \in OnboardingSteps /\ Tail(job.todo) = <<>>
    BY <1>1, <1>4, ObEffects
  <2>2. ASSUME ContinuesWalk
        PROVE  Arg.cat = walk
    <3>1. walk # "none" /\ job.u[2] \notin Fresh
      BY <1>1, <2>2 DEF ContinuesWalk, Fresh
    <3>2. Chosen(job.todo, job.u[2], walk)
      BY <1>1, <1>3, <1>4, <3>1 DEF WalkInv
    <3> QED
      BY <1>1, <3>1, <3>2, ChosenHeads DEF Arg
  <2>3. Arg.cat = walk'
    BY <1>1, <2>2
  <2>4. Chosen(job'.todo, job'.u[2], walk')
    BY <1>2, <2>1 DEF Chosen
  <2> QED
    BY <1>1, <1>3, <2>1, <2>3, <2>4 DEF WalkInv
<1>5. CASE job.u[1] # "ob"
  <2>1. job.u[1] \notin {"fb", "nav"} /\ Rest(job.u, job.todo)
    BY <1>1, TalkRest DEF Talks, PlanInv
  <2>2. Arg.cat = "none"
    BY <1>1, <1>5, <2>1, QuietTail DEF Rest, Tame, Arg
  <2> QED
    BY <1>1, <1>5, <2>2 DEF ContinuesWalk
<1> QED
  BY <1>4, <1>5

\* A call of the backend goes on with the questionnaire or ends it.
LEMMA WalkCall ==
    ASSUME PlanInv, WalkInv, Calls
    PROVE  WalkInv'
<1>1. /\ UNCHANGED dialog /\ job.phase = "running" /\ job.todo # <<>>
      /\ Done \/ GiveUp
  BY CallEnds
<1>2. /\ job'.u = job.u
      /\ job'.todo = Tail(job.todo) \/ job'.todo = <<>>
  BY <1>1, ThenFields DEF Done, GiveUp, PlanInv
<1>3. CASE job.u[1] # "ob"
  BY <1>1, <1>2, <1>3, WalkFrame DEF dialog
<1>4. CASE job.u[1] = "ob"
  <2>1. Head(job.todo)[1] \in {"users", "profile", "try_prefs"}
    <3>1. Head(job.todo)[1] \notin {"set", "clear"}
      BY DEF Calls, CallUsers, LookUp, Read, PutProfile, PutPrefs, PutPause,
         PutPro, TryPrefs, PutHour, PostOldVote, PostIntent, Doing
    <3> QED
      BY <1>1, <1>4, <3>1, ObEffects
  <2>2. ASSUME Chosen(job.todo, job.u[2], walk)
        PROVE  Chosen(job'.todo, job'.u[2], walk)
    <3>1. Chosen(Tail(job.todo), job.u[2], walk)
      BY <1>1, <2>1, <2>2, ChosenHeads
    <3>2. Chosen(<<>>, job.u[2], walk)
      BY DEF Chosen
    <3> QED
      BY <1>2, <3>1, <3>2
  <2> QED
    BY <1>1, <1>4, <2>2 DEF WalkInv, dialog
<1> QED
  BY <1>3, <1>4

LEMMA WalkStep ==
    ASSUME PlanInv, WalkInv, [Next]_vars
    PROVE  WalkInv'
<1>1. ASSUME NEW u \in Updates.common \union Updates[part], Arrive(u)
      PROVE  WalkInv'
  <2>1. UNCHANGED dialog /\ job'.phase # "running"
    BY <1>1 DEF Arrive, Idle
  <2> QED
    BY <2>1, WalkFrame DEF dialog
<1>2. ASSUME NEW c, Start(c)
      PROVE  WalkInv'
  BY <1>2, WalkStart
<1>3. CASE Calls
  BY <1>3, WalkCall
<1>4. CASE AskPro \/ MergePrefs \/ FirstSeen
  <2>1. UNCHANGED dialog
    BY <1>4 DEF AskPro, MergePrefs, FirstSeen
  <2>2. /\ job.phase = "running" /\ job.todo # <<>>
        /\ Head(job.todo)[1] \in {"ask_pro", "merge", "first_seen"}
    BY <1>4 DEF AskPro, MergePrefs, FirstSeen, Doing
  <2>3. job.u[1] # "ob"
    BY <2>2, ObEffects
  <2>4. job'.u = job.u
    BY <1>4, TalkQuiet DEF Talks
  <2> QED
    BY <2>1, <2>3, <2>4, WalkFrame DEF dialog
<1>5. CASE SetConv
  BY <1>5, WalkSet
<1>6. CASE ClearConv
  BY <1>6 DEF ClearConv, WalkInv
<1>7. CASE ShowCard \/ FinishCards \/ PostVote
  <2>1. UNCHANGED <<asked, conv, walk, cache>> /\ (slip => slip')
    BY <1>7 DEF ShowCard, FinishCards, PostVote, dialog
  <2>2. job'.u[1] # "ob"
    BY <1>7, MoveRest
  <2> QED
    BY <2>1, <2>2, WalkFrame
<1>8. CASE Finish \/ Crash
  <2>1. UNCHANGED <<asked, conv, walk, slip>> /\ cache' \in {cache, Nothing}
    BY <1>8, NothingIsState DEF Finish, Crash, dialog
  <2>2. job'.phase # "running"
    <3>1. CASE Finish
      BY <3>1 DEF Finish, Idle
    <3>2. CASE Crash
      BY <3>2 DEF Crash, Idle
    <3> QED
      BY <1>8, <3>1, <3>2
  <2> QED
    BY <2>1, <2>2, WalkFrame
<1>9. CASE Expire
  <2>1. /\ UNCHANGED <<asked, slip, job>>
        /\ \/ UNCHANGED <<conv, walk>> /\ cache' \in {cache, Nothing}
           \/ walk' = "none"
    BY <1>9, NothingIsState DEF Expire
  <2>2. CASE UNCHANGED <<conv, walk>> /\ cache' \in {cache, Nothing}
    BY <2>1, <2>2, WalkFrame
  <2>3. CASE walk' = "none"
    BY <2>3 DEF WalkInv
  <2> QED
    BY <2>1, <2>2, <2>3
<1>10. CASE UNCHANGED vars
  BY <1>10, WalkFrame DEF vars, dialog
<1> QED
  BY <1>1, <1>2, <1>3, <1>4, <1>5, <1>6, <1>7, <1>8, <1>9, <1>10
     DEF Next, Effect, Calls

\* Only a call changes what the backend holds of the user.
LEMMA OnlyCallsWrite ==
    ASSUME PlanInv, [Next]_vars
    PROVE  Calls \/ UNCHANGED api
<1>1. ASSUME Effect
      PROVE  Calls \/ UNCHANGED api
  BY <1>1 DEF Effect, Calls, AskPro, MergePrefs, FirstSeen, SetConv, ClearConv,
     ShowCard, FinishCards, PostVote
<1>2. ASSUME NEW u, Arrive(u)
      PROVE  UNCHANGED api
  BY <1>2 DEF Arrive
<1>3. ASSUME NEW c, Start(c)
      PROVE  UNCHANGED api
  BY <1>3 DEF Start
<1>4. CASE Finish \/ Crash \/ Expire \/ UNCHANGED vars
  BY <1>4 DEF Finish, Crash, Expire, vars
<1> QED
  BY <1>1, <1>2, <1>3, <1>4 DEF Next

\* A built profile is saved by the questionnaire, from the state it is in.
LEMMA SavedFollowsWalk ==
    ASSUME PlanInv, WalkInv, [Next]_vars,
           api'.profile # api.profile, api'.profile.by = "built"
    PROVE  slip \/ walk \in {"none", api'.profile.cat}
<1>1. PutProfile /\ api'.profile = Arg
  <2>1. Calls
    BY OnlyCallsWrite
  <2> QED
    BY <2>1, CallApi
<1>2. /\ job.phase = "running" /\ job.todo # <<>>
      /\ Head(job.todo)[1] = "profile" /\ Arg = Head(job.todo)[2]
  BY <1>1 DEF PutProfile, Doing, Arg
<1>3. Rest(job.u, job.todo)
  BY <1>2 DEF PlanInv
<1>4. job.u[1] = "ob"
  <2>1. job.u[1] # "fb"
    BY <1>2, <1>3, VoteNames DEF Rest
  <2>2. job.u[1] # "nav"
    BY <1>1, CallRest DEF Calls
  <2>3. CASE job.u[1] \notin {"fb", "nav", "ob"}
    BY <1>1, <1>2, <1>3, <2>3, QuietTail DEF Rest, Tame
  <2> QED
    BY <2>1, <2>2, <2>3
<1> SUFFICES ASSUME ~slip, walk # "none"
             PROVE  Arg.cat = walk
  BY <1>1
<1>5. Chosen(job.todo, job.u[2], walk)
  BY <1>2, <1>4 DEF WalkInv
<1> QED
  BY <1>2, <1>5, ChosenHeads

LEMMA WalkInit ==
    ASSUME Init
    PROVE  WalkInv
BY DEF Init, WalkInv

\* The questionnaire saves the category that was picked in it, in whatever order
\* its buttons are pressed, and with or without the cache.
THEOREM PickedIsSaved == Spec => SavedProfileWasChosen
<1>1. Init => PlanInv /\ WalkInv
  BY PlanInit, WalkInit
<1>2. PlanInv /\ WalkInv /\ [Next]_vars => PlanInv' /\ WalkInv'
  BY PlanStep, WalkStep
<1>3. PlanInv /\ WalkInv /\ [Next]_vars =>
         [api'.profile # api.profile /\ api'.profile.by = "built" =>
             slip \/ walk \in {"none", api'.profile.cat}]_vars
  BY SavedFollowsWalk
<1> QED
  BY <1>1, <1>2, <1>3, PTL DEF Spec, SavedProfileWasChosen

-----------------------------------------------------------------------------
(* The filters and the submission that is about one of them.               *)

\* What can be left of a toggle while the filters are prefs.
Toggling(s, prefs) ==
    LET P == <<"prefs", [prefs EXCEPT !.src = ~@]>> IN
    s \in {<<>>, <<Users, Look, P>>, <<Look, P>>, <<P>>}

\* What can be left of a submission of a value for field.
Merging(field, b) == <<"merge", <<field, b>>>>
Saving(field, b, prefs) == <<"prefs", [prefs EXCEPT ![field] = b]>>
Submitting(s, field, prefs) ==
    \/ s \in {<<>>, <<Users>>, <<Clear>>}
    \/ \E b \in BOOLEAN : s \in {<<Users, Merging(field, b), Clear>>,
                                 <<Merging(field, b), Clear>>,
                                 <<Saving(field, b, prefs), Clear>>}

Asked == {"budget", "include", "exclude"}
Question == [budget |-> "await_filter_budget",
             include |-> "await_filter_include_keywords",
             exclude |-> "await_filter_exclude_keywords"]

\* What can be left of any text: no text asks a question.
TextRest(s) ==
    \/ s \in {<<>>, <<Users>>, <<Clear>>}
    \/ \E x : x[1] \in {"profile", "hour", "merge", "prefs"}
             /\ s \in {<<Users, x, Clear>>, <<x, Clear>>}

\* The plan of a toggle, or of a text that answers for a filter, is about the
\* filters as they are now.
FilterInv ==
    /\ job.phase = "running" /\ job.u[1] = "text" => TextRest(job.todo)
    /\ job.phase = "running" /\ job.u = <<"flt", "toggle">> =>
           Toggling(job.todo, api.prefs)
    /\ slip \/ job.blind
       \/ \A field \in Asked :
             job.phase = "running" /\ job.u[1] = "text" /\ asked.step = Question[field] =>
                 Submitting(job.todo, field, api.prefs)

LEMMA Joins ==
    ASSUME NEW a, NEW b, NEW c
    PROVE  <<a>> \o <<b>> = <<a, b>> /\ <<a, b>> \o <<c>> = <<a, b, c>>
<1> DEFINE S == {a, b, c}
<1>1. /\ <<a>> \in Seq(S) /\ <<b>> \in Seq(S) /\ <<c>> \in Seq(S)
      /\ <<a, b>> \in Seq(S) /\ <<a, b, c>> \in Seq(S)
  OBVIOUS
<1> HIDE DEF S
<1>2. <<a>> \o <<b>> = <<a, b>>
  <2>1. <<a>> \o <<b>> \in Seq(S) /\ Len(<<a>> \o <<b>>) = 2
    BY <1>1, ConcatProperties
  <2>2. \A i \in 1 .. 2 : (<<a>> \o <<b>>)[i] = <<a, b>>[i]
    BY <1>1, ConcatProperties
  <2> QED
    BY <1>1, <2>1, <2>2, SeqEqual
<1>3. <<a, b>> \o <<c>> = <<a, b, c>>
  <2>1. <<a, b>> \o <<c>> \in Seq(S) /\ Len(<<a, b>> \o <<c>>) = 3
    BY <1>1, ConcatProperties
  <2>2. \A i \in 1 .. 3 : (<<a, b>> \o <<c>>)[i] = <<a, b, c>>[i]
    BY <1>1, ConcatProperties
  <2> QED
    BY <1>1, <2>1, <2>2, SeqEqual
<1> QED
  BY <1>2, <1>3

LEMMA ToggleHeads ==
    ASSUME NEW s, NEW prefs, Toggling(s, prefs), s # <<>>
    PROVE  /\ Head(s)[1] \in {"users", "look", "prefs"}
           /\ Head(s)[1] # "prefs" => Toggling(Tail(s), prefs)
           /\ Head(s)[1] = "prefs" => /\ Tail(s) = <<>>
                                      /\ Head(s)[2] = [prefs EXCEPT !.src = ~@]
<1> DEFINE x == [prefs EXCEPT !.src = ~@]
           P == <<"prefs", x>>
<1>1. s = <<Users, Look, P>> \/ s = <<Look, P>> \/ s = <<P>>
  BY DEF Toggling
<1>2. Toggling(<<>>, prefs) /\ Toggling(<<P>>, prefs) /\ Toggling(<<Look, P>>, prefs)
  BY DEF Toggling
<1>3. P[1] = "prefs" /\ P[2] = x
  OBVIOUS
<1>n. Users[1] = "users" /\ Look[1] = "look"
  BY DEF Users, Look
<1> HIDE DEF P
<1>4. CASE s = <<Users, Look, P>>
  <2>1. Head(s) = Users /\ Tail(s) = <<Look, P>>
    BY <1>4, Short
  <2> QED
    BY <1>2, <1>n, <2>1
<1>5. CASE s = <<Look, P>>
  <2>1. Head(s) = Look /\ Tail(s) = <<P>>
    BY <1>5, Short
  <2> QED
    BY <1>2, <1>n, <2>1
<1>6. CASE s = <<P>>
  <2>1. Head(s) = P /\ Tail(s) = <<>>
    BY <1>6, Short
  <2> QED
    BY <1>3, <2>1
<1> QED
  BY <1>1, <1>4, <1>5, <1>6

LEMMA SubmitHeads ==
    ASSUME NEW s, NEW field, NEW prefs, Submitting(s, field, prefs), s # <<>>
    PROVE  /\ Head(s)[1] \in {"users", "clear", "merge", "prefs"}
           /\ Head(s)[1] \in {"users", "clear"} => Submitting(Tail(s), field, prefs)
           /\ Head(s)[1] = "merge" =>
                 \E b \in BOOLEAN : Head(s)[2] = <<field, b>> /\ Tail(s) = <<Clear>>
           /\ Head(s)[1] = "prefs" =>
                 \E b \in BOOLEAN : /\ Head(s)[2] = [prefs EXCEPT ![field] = b]
                                    /\ Tail(s) = <<Clear>>
<1>1. CASE s = <<Users>> \/ s = <<Clear>>
  <2>1. Head(s) \in {Users, Clear} /\ Tail(s) = <<>>
    BY <1>1, Short
  <2>2. Submitting(Tail(s), field, prefs)
    BY <2>1 DEF Submitting
  <2> QED
    BY <2>1, <2>2 DEF Users, Clear
<1>2. ASSUME NEW b \in BOOLEAN, s = <<Users, Merging(field, b), Clear>>
      PROVE  Head(s)[1] = "users" /\ Submitting(Tail(s), field, prefs)
  <2>1. Head(s) = Users /\ Tail(s) = <<Merging(field, b), Clear>>
    BY <1>2, Short
  <2> QED
    BY <2>1 DEF Users, Submitting
<1>3. ASSUME NEW b \in BOOLEAN, s = <<Merging(field, b), Clear>>
      PROVE  /\ Head(s)[1] = "merge" /\ Head(s)[2] = <<field, b>>
             /\ Tail(s) = <<Clear>>
  <2>1. Head(s) = Merging(field, b) /\ Tail(s) = <<Clear>>
    BY <1>3, Short
  <2> QED
    BY <2>1 DEF Merging
<1>4. ASSUME NEW b \in BOOLEAN, s = <<Saving(field, b, prefs), Clear>>
      PROVE  /\ Head(s)[1] = "prefs" /\ Head(s)[2] = [prefs EXCEPT ![field] = b]
             /\ Tail(s) = <<Clear>>
  <2>1. Head(s) = Saving(field, b, prefs) /\ Tail(s) = <<Clear>>
    BY <1>4, Short
  <2> QED
    BY <2>1 DEF Saving
<1> QED
  BY <1>1, <1>2, <1>3, <1>4 DEF Submitting

LEMMA TextHeads ==
    ASSUME NEW s, TextRest(s), s # <<>>
    PROVE  /\ Head(s)[1] \in {"users", "clear", "profile", "hour", "merge", "prefs"}
           /\ TextRest(Tail(s))
           /\ Head(s)[1] = "merge" => Tail(s) = <<Clear>>
<1>1. CASE s = <<Users>> \/ s = <<Clear>>
  <2>1. Head(s) \in {Users, Clear} /\ Tail(s) = <<>>
    BY <1>1, Short
  <2>2. TextRest(Tail(s))
    BY <2>1 DEF TextRest
  <2> QED
    BY <2>1, <2>2 DEF Users, Clear
<1>2. ASSUME NEW x, x[1] \in {"profile", "hour", "merge", "prefs"},
             s = <<Users, x, Clear>>
      PROVE  Head(s)[1] = "users" /\ TextRest(Tail(s))
  <2>1. Head(s) = Users /\ Tail(s) = <<x, Clear>>
    BY <1>2, Short
  <2> QED
    BY <1>2, <2>1 DEF Users, TextRest
<1>3. ASSUME NEW x, x[1] \in {"profile", "hour", "merge", "prefs"}, s = <<x, Clear>>
      PROVE  Head(s) = x /\ Tail(s) = <<Clear>> /\ TextRest(Tail(s))
  <2>1. Head(s) = x /\ Tail(s) = <<Clear>>
    BY <1>3, Short
  <2> QED
    BY <2>1 DEF TextRest
<1> QED
  BY <1>1, <1>2, <1>3 DEF TextRest

\* A toggle begins from the filters as they are; a text that answers for a
\* filter begins with that filter.
LEMMA FilterStart ==
    ASSUME PlanInv, CopyInv, NEW c \in {conv, cache, Nothing}, Start(c)
    PROVE  FilterInv'
<1>1. /\ UNCHANGED <<api, asked, slip>> /\ job'.phase = "running"
      /\ job'.u = job.u /\ job'.todo \in Plans(job.u, c)
  BY StartFields DEF Start
<1>2. ASSUME job.u = <<"flt", "toggle">>
      PROVE  Toggling(job'.todo, api.prefs)
  <2> DEFINE P == <<"prefs", [api.prefs EXCEPT !.src = ~@]>>
  <2>1. job.u[1] = "flt" /\ job.u[2] = "toggle"
    BY <1>2
  <2>2. job'.todo = FiltersPlan("toggle")
    BY <1>1, <2>1 DEF Plans
  <2>3. FiltersPlan("toggle") = <<Users, Look>> \o <<P>>
    BY Zenon DEF FiltersPlan
  <2>4. <<Users, Look>> \o <<P>> = <<Users, Look, P>>
    <3> HIDE DEF P
    <3> QED
      BY Joins, Zenon
  <2> QED
    BY <2>2, <2>3, <2>4 DEF Toggling
<1>3. ASSUME ~slip, NEW field \in Asked, job.u[1] = "text",
             asked.step = Question[field]
      PROVE  Submitting(job'.todo, field, api.prefs)
  <2>1. job'.todo = TextPlan(job.u[2], c)
    BY <1>1, <1>3 DEF Plans
  <2>2. CASE c = Nothing
    <3>1. TextPlan(job.u[2], Nothing) = <<>>
      BY DEF TextPlan, Nothing
    <3> QED
      BY <2>1, <2>2, <3>1 DEF Submitting
  <2>3. CASE c = asked
    <3> DEFINE b == job.u[2] = "good"
    <3>0. b \in BOOLEAN
      OBVIOUS
    <3>1. TextPlan(job.u[2], asked) = FilterPlan(field, job.u[2])
      BY <1>3 DEF TextPlan, Question, Asked
    <3>2. \/ FilterPlan(field, job.u[2]) = <<Users>>
          \/ FilterPlan(field, job.u[2]) = <<Users, Merging(field, b), Clear>>
      BY DEF FilterPlan, Merging
    <3> HIDE DEF b
    <3> QED
      BY <2>1, <2>3, <3>0, <3>1, <3>2 DEF Submitting
  <2> QED
    BY <1>3, <2>2, <2>3 DEF CopyInv
<1>4. ASSUME job.u[1] = "text"
      PROVE  TextRest(job'.todo)
  <2>1. job'.todo = TextPlan(job.u[2], c)
    BY <1>1, <1>4 DEF Plans
  <2>2. ASSUME NEW x, x[1] \in {"profile", "hour", "merge", "prefs"}
        PROVE  TextRest(<<Users, x, Clear>>)
    BY <2>2 DEF TextRest
  <2>3. TextRest(<<>>) /\ TextRest(<<Users>>)
    BY DEF TextRest
  <2>4. TextRest(ProfilePlan(job.u[2])) /\ TextRest(HourPlan(job.u[2]))
    BY <2>2, <2>3 DEF ProfilePlan, HourPlan
  <2>5. ASSUME NEW field PROVE TextRest(FilterPlan(field, job.u[2]))
    <3> DEFINE b == job.u[2] = "good"
               x == <<"merge", <<field, b>>>>
    <3>1. \/ FilterPlan(field, job.u[2]) = <<Users>>
          \/ FilterPlan(field, job.u[2]) = <<Users, x, Clear>>
      BY DEF FilterPlan
    <3>2. x[1] = "merge"
      OBVIOUS
    <3> HIDE DEF x
    <3> QED
      BY <2>2, <2>3, <3>1, <3>2
  <2> QED
    BY <2>1, <2>3, <2>4, <2>5 DEF TextPlan
<1> QED
  BY <1>1, <1>2, <1>3, <1>4 DEF FilterInv

\* Updates of another kind, and jobs that are not running.
LEMMA FilterFrame ==
    ASSUME FilterInv,
           \/ job'.phase # "running"
           \/ job'.u[1] \notin {"flt", "text"}
           \/ UNCHANGED <<job, api, asked, slip>>
    PROVE  FilterInv'
<1>1. CASE job'.phase # "running"
  BY <1>1 DEF FilterInv
<1>2. CASE job'.u[1] \notin {"flt", "text"}
  <2>1. job'.u # <<"flt", "toggle">> /\ job'.u[1] # "text"
    BY <1>2
  <2> QED
    BY <2>1 DEF FilterInv
<1>3. CASE UNCHANGED <<job, api, asked, slip>>
  BY <1>3 DEF FilterInv
<1> QED
  BY <1>1, <1>2, <1>3

LEMMA FilterCall ==
    ASSUME PlanInv, FilterInv, Calls
    PROVE  FilterInv'
<1>1. /\ UNCHANGED dialog /\ job.phase = "running" /\ job.todo # <<>>
      /\ Done \/ GiveUp
  BY CallEnds
<1>2. /\ job'.u = job.u /\ job'.blind = job.blind
      /\ job'.todo = Tail(job.todo) \/ job'.todo = <<>>
  BY <1>1, ThenFields DEF Done, GiveUp, PlanInv
<1>3. Head(job.todo)[1] \notin {"clear", "merge", "set"}
  BY DEF Calls, CallUsers, LookUp, Read, PutProfile, PutPrefs, PutPause,
     PutPro, TryPrefs, PutHour, PostOldVote, PostIntent, Doing
<1>4. \/ api'.prefs = api.prefs
      \/ Head(job.todo)[1] \in {"prefs", "try_prefs"}
  BY CallApi DEF PutPrefs, TryPrefs, Doing
<1>5. ASSUME job.u = <<"flt", "toggle">>
      PROVE  Toggling(job'.todo, api'.prefs)
  <2>1. Toggling(job.todo, api.prefs)
    BY <1>1, <1>5 DEF FilterInv
  <2>2. \A prefs : Toggling(<<>>, prefs)
    BY DEF Toggling
  <2>3. CASE Head(job.todo)[1] = "prefs"
    <3>1. Tail(job.todo) = <<>>
      BY <1>1, <2>1, <2>3, ToggleHeads
    <3> QED
      BY <1>2, <2>2, <3>1
  <2>4. CASE Head(job.todo)[1] # "prefs"
    <3>1. /\ Head(job.todo)[1] \in {"users", "look"}
          /\ Toggling(Tail(job.todo), api.prefs)
      BY <1>1, <2>1, <2>4, ToggleHeads
    <3>2. api'.prefs = api.prefs
      BY <1>4, <3>1
    <3> QED
      BY <1>2, <2>2, <3>1, <3>2
  <2> QED
    BY <2>3, <2>4
<1>6. ASSUME ~slip, ~job.blind, NEW field \in Asked, job.u[1] = "text",
             asked.step = Question[field]
      PROVE  Submitting(job'.todo, field, api'.prefs)
  <2>1. Submitting(job.todo, field, api.prefs)
    BY <1>1, <1>6 DEF FilterInv
  <2>2. \A prefs : Submitting(<<>>, field, prefs) /\ Submitting(<<Clear>>, field, prefs)
    BY DEF Submitting
  <2>3. CASE Head(job.todo)[1] = "prefs"
    <3>1. Tail(job.todo) = <<Clear>>
      BY <1>1, <2>1, <2>3, SubmitHeads
    <3> QED
      BY <1>2, <2>2, <3>1
  <2>4. CASE Head(job.todo)[1] # "prefs"
    <3>1. /\ Head(job.todo)[1] = "users"
          /\ Submitting(Tail(job.todo), field, api.prefs)
      BY <1>1, <1>3, <2>1, <2>4, SubmitHeads
    <3>2. api'.prefs = api.prefs
      BY <1>4, <3>1
    <3> QED
      BY <1>2, <2>2, <3>1, <3>2
  <2> QED
    BY <2>3, <2>4
<1>7. ASSUME job.u[1] = "text"
      PROVE  TextRest(job'.todo)
  <2>1. TextRest(job.todo)
    BY <1>1, <1>7 DEF FilterInv
  <2>2. TextRest(<<>>)
    BY DEF TextRest
  <2>3. TextRest(Tail(job.todo))
    BY <1>1, <2>1, TextHeads
  <2> QED
    BY <1>2, <2>2, <2>3
<1> QED
  BY <1>1, <1>2, <1>5, <1>6, <1>7 DEF FilterInv, dialog

\* A text is merged into the filters as they are read, or blindly.
LEMMA FilterMerge ==
    ASSUME PlanInv, FilterInv, MergePrefs, job.u[1] = "text"
    PROVE  FilterInv'
<1>1. /\ job.phase = "running" /\ job.todo # <<>>
      /\ Head(job.todo)[1] = "merge" /\ Arg = Head(job.todo)[2]
      /\ UNCHANGED <<api, asked, slip>>
  BY DEF MergePrefs, Doing, Arg, dialog
<1>2. Tail(job.todo) = <<Clear>>
  BY <1>1, TextHeads DEF FilterInv
<1>3. IsJob
  BY DEF PlanInv
<1>4. /\ job'.u = job.u
      /\ \/ /\ job'.blind = job.blind
            /\ job'.todo = << <<"prefs", Merge(api.prefs, Arg[1], Arg[2])>>, Clear>>
         \/ /\ job'.blind = TRUE
            /\ job'.todo = << <<"prefs", Merge(NoPrefs, Arg[1], Arg[2])>>, Clear>>
  <2>0. ASSUME NEW e PROVE <<e>> \o Tail(job.todo) = <<e, Clear>>
    BY <1>2, Joins
  <2>1. CASE Then(<< <<"prefs", Merge(api.prefs, Arg[1], Arg[2])>> >> \o Tail(job.todo))
    BY <1>3, <2>0, <2>1, ThenFields
  <2>2. CASE job' = [job EXCEPT !.blind = TRUE,
             !.todo = << <<"prefs", Merge(NoPrefs, Arg[1], Arg[2])>> >> \o Tail(@)]
    <3> DEFINE e == <<"prefs", Merge(NoPrefs, Arg[1], Arg[2])>>
    <3>1. job' = [job EXCEPT !.blind = TRUE, !.todo = <<e>> \o Tail(job.todo)]
      BY <1>3, <2>2 DEF IsJob
    <3>2. job' = [job EXCEPT !.blind = TRUE, !.todo = <<e, Clear>>]
      BY <2>0, <3>1
    <3> HIDE DEF e
    <3>3. job'.u = job.u /\ job'.blind = TRUE /\ job'.todo = <<e, Clear>>
      BY <1>3, <3>2 DEF IsJob
    <3> QED
      BY <3>3 DEF e
  <2> QED
    BY <2>1, <2>2 DEF MergePrefs
<1>5. TextRest(job'.todo)
  <2>1. ASSUME NEW x PROVE TextRest(<< <<"prefs", x>>, Clear>>)
    <3> DEFINE e == <<"prefs", x>>
    <3>1. e[1] = "prefs"
      OBVIOUS
    <3> HIDE DEF e
    <3>2. TextRest(<<e, Clear>>)
      BY <3>1 DEF TextRest
    <3> QED
      BY <3>2 DEF e
  <2> QED
    BY <1>4, <2>1
<1>6. ASSUME ~slip, ~job.blind, ~job'.blind, NEW field \in Asked,
             asked.step = Question[field]
      PROVE  Submitting(job'.todo, field, api.prefs)
  <2>1. Submitting(job.todo, field, api.prefs)
    BY <1>1, <1>6 DEF FilterInv
  <2>2. PICK b \in BOOLEAN : Arg = <<field, b>>
    <3>1. \E b \in BOOLEAN : /\ Head(job.todo)[2] = <<field, b>>
                             /\ Tail(job.todo) = <<Clear>>
      BY <1>1, <2>1, SubmitHeads, Zenon
    <3> QED
      BY <1>1, <3>1, Zenon
  <2>3. job'.todo = << <<"prefs", Merge(api.prefs, Arg[1], Arg[2])>>, Clear>>
    BY <1>4, <1>6
  <2>4. Arg[1] = field /\ Arg[2] = b
    BY <2>2
  <2>5. job'.todo = <<Saving(field, b, api.prefs), Clear>>
    BY <2>3, <2>4, Zenon DEF Merge, Saving
  <2> QED
    BY <2>5 DEF Submitting
<1>7. job'.u # <<"flt", "toggle">>
  BY <1>4
<1>8. job.blind => job'.blind
  BY <1>4
<1> QED
  BY <1>1, <1>4, <1>5, <1>6, <1>7, <1>8 DEF FilterInv

LEMMA FilterStep ==
    ASSUME PlanInv, CopyInv, FilterInv, [Next]_vars
    PROVE  FilterInv'
<1>t. ASSUME job.phase = "running", job.todo # <<>>,
             Head(job.todo)[1] \in {"ask_pro", "first_seen", "set", "clear"}
      PROVE  /\ job.u # <<"flt", "toggle">>
             /\ job.u[1] = "text" => Head(job.todo)[1] = "clear"
  <2>1. job.u # <<"flt", "toggle">>
    BY <1>t, ToggleHeads DEF FilterInv
  <2>2. job.u[1] = "text" => Head(job.todo)[1] = "clear"
    BY <1>t, TextHeads DEF FilterInv
  <2> QED
    BY <2>1, <2>2
<1>f. ASSUME job'.u[1] # "text", job'.u # <<"flt", "toggle">>
      PROVE  FilterInv'
  BY <1>f DEF FilterInv
<1>1. ASSUME NEW u \in Updates.common \union Updates[part], Arrive(u)
      PROVE  FilterInv'
  <2>1. job'.phase # "running"
    BY <1>1 DEF Arrive, Idle
  <2> QED
    BY <2>1, FilterFrame
<1>2. ASSUME NEW c \in {conv, cache, Nothing}, Start(c)
      PROVE  FilterInv'
  BY <1>2, FilterStart
<1>3. CASE Calls
  BY <1>3, FilterCall
<1>4. CASE AskPro \/ FirstSeen \/ SetConv
  <2>1. /\ job.phase = "running" /\ job.todo # <<>>
        /\ Head(job.todo)[1] \in {"ask_pro", "first_seen", "set"}
    BY <1>4 DEF AskPro, FirstSeen, SetConv, Doing
  <2>2. job'.u = job.u
    BY <1>4, TalkQuiet DEF Talks
  <2> QED
    BY <1>f, <1>t, <2>1, <2>2
<1>5. CASE ClearConv
  <2>1. /\ job.phase = "running" /\ job.todo # <<>>
        /\ Head(job.todo)[1] = "clear"
        /\ Done /\ asked' = Nothing
    BY <1>5 DEF ClearConv, Doing
  <2>2. job'.u = job.u /\ job'.todo = Tail(job.todo)
    BY <2>1, ThenFields DEF Done, PlanInv
  <2>3. job'.u # <<"flt", "toggle">>
    BY <1>t, <2>1, <2>2
  <2>4. job'.u[1] = "text" => TextRest(job'.todo)
    BY <2>1, <2>2, TextHeads DEF FilterInv
  <2>5. \A field \in Asked : asked'.step # Question[field]
    BY <2>1 DEF Nothing, Asked, Question
  <2> QED
    BY <2>3, <2>4, <2>5 DEF FilterInv
<1>6. CASE MergePrefs
  <2>1. /\ job.phase = "running" /\ job.todo # <<>>
        /\ Head(job.todo)[1] = "merge"
    BY <1>6 DEF MergePrefs, Doing
  <2>2. job'.u = job.u
    BY <1>6, TalkQuiet DEF Talks
  <2>3. job.u # <<"flt", "toggle">>
    BY <2>1, ToggleHeads DEF FilterInv
  <2> QED
    BY <1>6, <1>f, <2>2, <2>3, FilterMerge
<1>7. CASE ShowCard \/ FinishCards \/ PostVote
  <2>1. job'.u[1] \in {"fb", "nav"}
    BY <1>7, MoveRest
  <2> QED
    BY <2>1, FilterFrame
<1>8. CASE Finish
  <2>1. job'.phase # "running"
    BY <1>8 DEF Finish, Idle
  <2> QED
    BY <2>1, FilterFrame
<1>9. CASE Crash
  <2>1. job'.phase # "running"
    BY <1>9 DEF Crash, Idle
  <2> QED
    BY <2>1, FilterFrame
<1>10. CASE Expire \/ UNCHANGED vars
  <2>1. UNCHANGED <<job, api, asked, slip>>
    BY <1>10 DEF Expire, vars, dialog
  <2> QED
    BY <2>1, FilterFrame
<1> QED
  BY <1>1, <1>2, <1>3, <1>4, <1>5, <1>6, <1>7, <1>8, <1>9, <1>10
     DEF Next, Effect, Calls

LEMMA FilterInit ==
    ASSUME Init
    PROVE  FilterInv
<1>1. job.phase = "idle"
  BY DEF Init, Idle
<1> QED
  BY <1>1 DEF FilterInv

LEMMA PrefNames == DOMAIN NoPrefs = FilterNames
BY DEF NoPrefs, FilterNames

\* Saved filters differ from the old ones where the update is about them.
LEMMA ChangeHasPurpose ==
    ASSUME PlanInv, FilterInv, [Next]_vars, api'.prefs # api.prefs
    PROVE  \/ Changed(api.prefs, api'.prefs) \subseteq Purpose(job.u)
           \/ job.blind \/ slip
<1>1. (PutPrefs \/ TryPrefs) /\ api'.prefs = Arg
  <2>1. Calls
    BY OnlyCallsWrite
  <2> QED
    BY <2>1, CallApi
<1>2. /\ job.phase = "running" /\ job.todo # <<>>
      /\ Head(job.todo)[1] \in {"prefs", "try_prefs"} /\ Arg = Head(job.todo)[2]
  BY <1>1 DEF PutPrefs, TryPrefs, Doing, Arg
<1>3. api.prefs \in Filters
  BY DEF PlanInv, ApiOK
<1>4. CASE job.u = <<"flt", "toggle">>
  <2>1. Arg = [api.prefs EXCEPT !.src = ~@]
    BY <1>2, <1>4, ToggleHeads DEF FilterInv
  <2>2. \A f \in FilterNames : f # "src" => Arg[f] = api.prefs[f]
    BY <1>3, <2>1 DEF Filters, FilterNames
  <2>3. Purpose(job.u) = {"src"}
    BY <1>4 DEF Purpose
  <2> QED
    BY <1>1, <2>2, <2>3, PrefNames DEF Changed
<1>5. ASSUME NEW field \in Asked, job.u[1] = "text",
             asked.step = Question[field], ~job.blind, ~slip
      PROVE  Changed(api.prefs, api'.prefs) \subseteq Purpose(job.u)
  <2>1. Submitting(job.todo, field, api.prefs)
    BY <1>2, <1>5 DEF FilterInv
  <2>2. PICK b \in BOOLEAN : Arg = [api.prefs EXCEPT ![field] = b]
    <3>1. Head(job.todo)[1] = "prefs"
      BY <1>2, <2>1, SubmitHeads
    <3>2. \E b \in BOOLEAN : /\ Head(job.todo)[2] = [api.prefs EXCEPT ![field] = b]
                             /\ Tail(job.todo) = <<Clear>>
      BY <1>2, <2>1, <3>1, SubmitHeads, Zenon
    <3> QED
      BY <1>2, <3>2, Zenon
  <2>3. \A f \in FilterNames : f # field => Arg[f] = api.prefs[f]
    BY <1>3, <2>2 DEF Filters, FilterNames, Asked
  <2>4. Purpose(job.u) = {field}
    BY <1>5 DEF Purpose, Asked, Question
  <2> QED
    BY <1>1, <2>3, <2>4, PrefNames DEF Changed
<1>6. CASE /\ job.u # <<"flt", "toggle">>
           /\ job.u[1] # "text" \/ \A field \in Asked : asked.step # Question[field]
  <2>1. Purpose(job.u) = DOMAIN NoPrefs
    BY <1>6 DEF Purpose, Asked, Question
  <2> QED
    BY <2>1 DEF Changed
<1> QED
  BY <1>4, <1>5, <1>6

\* A toggle and a submission change only the filter they are about, against the
\* filters as they are, unless these could not be read.
THEOREM OtherFiltersStay == Spec => OnlyItsFilterChanges
<1>1. Init => PlanInv /\ CopyInv /\ FilterInv
  BY PlanInit, CopyInit, FilterInit
<1>2. PlanInv /\ CopyInv /\ FilterInv /\ [Next]_vars =>
         PlanInv' /\ CopyInv' /\ FilterInv'
  BY PlanStep, CopyStep, FilterStep
<1>3. PlanInv /\ CopyInv /\ FilterInv /\ [Next]_vars =>
         [api'.prefs # api.prefs =>
             Changed(api.prefs, api'.prefs) \subseteq Purpose(job.u) \/ job.blind \/ slip]_vars
  BY ChangeHasPurpose
<1> QED
  BY <1>1, <1>2, <1>3, PTL DEF Spec, OnlyItsFilterChanges
=============================================================================
