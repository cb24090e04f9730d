------------------------------ MODULE BotDialog ------------------------------
(* What the Telegram bot does with the updates of one user                   *)
(* (_handle_update and handle_callback, src/telegram-bot/main.py). A handler *)
(* is a plan: calls of the HTTP API and writes of bot state, one after the   *)
(* other. A call can fail, or take effect and be reported as failed; the     *)
(* process can die between two of them, and the intake (UpdateIntake) then   *)
(* delivers the update again. Old keyboards stay in the chat, so any button  *)
(* can be pressed at any time.                                               *)
EXTENDS Naturals, SequencesExt

CONSTANTS
    Cards,      \* cards of the batch session
    MaxShown,   \* bound: a card shown so often is not asked for again
    MaxFaults   \* bound: failed calls, failed Redis commands, crashes

ASSUME DialogAssumption ==
    Cards \in Nat \ {0} /\ MaxShown \in Nat \ {0} /\ MaxFaults \in Nat

VARIABLES
    part,     \* the part of the bot this user uses; the common updates come too
    conv,     \* the conversation state in Redis
    cache,    \* the conversation state in _CONVERSATION_STATE_CACHE
    api,      \* what the backend holds of the user
    seen,     \* the first-seen key exists
    session,  \* current_index of the batch session, 0 when there is none
    job,      \* the update being handled and what is left of its plan
    asked,    \* the conversation state last set or cleared, wherever it got to
    slip,     \* a write of bot state to Redis failed
    walk,     \* the category picked in the questionnaire that is under way
    owed,     \* the card a 👍/👎 has moved on from, its vote not yet posted
    shown,    \* shown[i]: how often card i became the current one
    posted,   \* posted[i]: votes on card i that reached the backend
    faults

dialog == <<conv, cache, asked, slip, walk>>
cards == <<session, owed, shown, posted>>
vars == <<part, dialog, cards, api, seen, job, faults>>
----------------------------------------------------------------------------
(* A conversation state is a word or the JSON of the questionnaire; "none"   *)
(* as cat stands for a missing key.                                          *)
OnboardingSteps == {"category", "skills", "experience", "rate", "sources",
                    "budget", "confirm", "edit"}
Words == {"await_profile", "await_notify_hour", "await_filter_budget",
          "await_filter_include_keywords", "await_filter_exclude_keywords"}
Nothing == [step |-> "none", cat |-> "none", exp |-> FALSE, rate |-> FALSE]
At(step) == [Nothing EXCEPT !.step = step]
ConvState == [step : OnboardingSteps \union Words \union {"none"},
              cat : {"none", "backend", "other"},
              exp : BOOLEAN, rate : BOOLEAN]   \* the answers that are words
Miss == At("none")

(* Filters, abstracted to whether each field is set.                         *)
NoPrefs == [src |-> FALSE, include |-> FALSE, exclude |-> FALSE, budget |-> FALSE]
NoProfile == [by |-> "nobody", cat |-> "none"]

Questionnaire == {"cat:backend", "cat:other", "skl", "skldone", "exp", "rate",
                  "rateskip", "src", "srcdone", "budget", "confirm", "edit", "manual", "restart",
                  "keep"}
Updates ==
    [common |-> {"text"} \X {"good", "bad", "reset"}
                \union {<<"start", "">>, <<"command", "help">>, <<"command", "show">>,
                        <<"prompt", "profile">>},
     onboarding |-> {"ob"} \X Questionnaire,
     filters |-> {"flt"} \X {"toggle", "budget", "include", "exclude", "reset", "show"},
     settings |-> ({"hour"} \X {"menu", "prompt", "9"}) \union ({"pause"} \X {"3d", "resume"})
                  \union ({"admin_pro"} \X {"on", "off"}) \union {<<"profile", "good">>,
                         <<"menu", "show">>, <<"upgrade", "">>}
                  \union ({"prf"} \X {"edit", "tips", "back"}),
     cards |-> {"nav", "fb", "old_fb"} \X (1 .. Cards)]
Parts == {"onboarding", "filters", "settings", "cards"}

Idle == [u |-> <<>>, todo |-> <<>>, phase |-> "idle", blind |-> FALSE]

Init ==
    /\ part \in Parts
    /\ conv = Nothing /\ cache = Miss /\ asked = Nothing /\ slip = FALSE /\ walk = "none"
    /\ api \in [prefs : {[NoPrefs EXCEPT !.include = TRUE, !.budget = TRUE]},
                profile : {NoProfile}, hour : {FALSE}, paused : {FALSE}, pro : {FALSE}]
    /\ seen = FALSE
    /\ session = 1 /\ owed = 0
    /\ shown = [i \in 1 .. Cards |-> IF i = 1 THEN 1 ELSE 0]
    /\ posted = [i \in 1 .. Cards |-> 0]
    /\ job = Idle /\ faults = 0

Fault == faults < MaxFaults /\ faults' = faults + 1
----------------------------------------------------------------------------
(* The plans. An effect is <<name>> or <<name, argument>>.                   *)

Set(c) == <<"set", c>>
Clear == <<"clear">>
Users == <<"users">>        \* _resolve_user_id
Look == <<"look">>          \* get_user_preferences, which must succeed

(* Filters, status, Pro, pause, profile: the user's id, and what there is to *)
(* show, or a message that it could not be loaded. The menu and the buttons  *)
(* of a message show it without ending the dialog.                           *)
OverviewPlan == <<Users, <<"read">>>>
Home == << <<"read">> >>    \* the statistics shown to a returning user

(* The questionnaire: where a button leads from state ob, {} where the code  *)
(* returns early. ob:exp and ob:rate do not look at the step.                *)
\* Mutant of Onboarding: the experience starts a new state.
MutOnboarding(choice, ob) ==
    CASE choice = "cat:backend" -> {[At("skills") EXCEPT !.cat = "backend"]}
      [] choice = "cat:other" -> {[At("experience") EXCEPT !.cat = "other"]}
      [] choice = "exp" -> {[At("rate") EXCEPT !.exp = TRUE]}
      [] OTHER -> {}

Onboarding(choice, ob) ==
    CASE choice = "cat:backend" -> {[At("skills") EXCEPT !.cat = "backend"]}
      [] choice = "cat:other" -> {[At("experience") EXCEPT !.cat = "other"]}
      [] choice = "skl" /\ ob.step = "skills" -> {ob}
      [] choice = "skldone" /\ ob.step = "skills" -> {[ob EXCEPT !.step = "experience"]}
      [] choice = "exp" -> {[ob EXCEPT !.step = "rate", !.exp = TRUE]}
      [] choice \in {"rate", "rateskip"} ->
             {[ob EXCEPT !.step = "sources", !.rate = choice = "rate"]}
      [] choice = "src" /\ ob.step = "sources" -> {ob}
      [] choice = "srcdone" /\ ob.step = "sources" -> {[ob EXCEPT !.step = "budget"]}
      [] choice = "budget" /\ ob.step = "budget" -> {[ob EXCEPT !.step = "confirm"]}
      [] choice = "edit" -> {[ob EXCEPT !.step = "edit"]}
      [] choice = "manual" -> {At("edit")}
      [] OTHER -> {}

(* The text built from the answers is long enough with an experience or a    *)
(* rate, or with enough skills; a missing category counts as "other".        *)
BuiltProfile(ob) == [by |-> "built", cat |-> IF ob.cat = "none" THEN "other" ELSE ob.cat]
LongEnough(ob) ==
    IF ob.exp \/ ob.rate THEN {TRUE} ELSE IF ob.cat = "backend" THEN BOOLEAN ELSE {FALSE}

(* The sources and the budget, kept in the state by the code, are choices    *)
(* made here. The other filters are replaced by nothing.                     *)
ConfirmPlan(ob, src, budget) ==
    <<Users, <<"profile", BuiltProfile(ob)>>,
      <<"try_prefs", [NoPrefs EXCEPT !.src = src, !.budget = budget]>>, Clear>>

OnboardingPlans(choice, c) ==
    LET ob == IF c.step \in OnboardingSteps THEN c ELSE Nothing IN
    CASE choice = "confirm" ->
             {IF ok THEN ConfirmPlan(ob, s, b) ELSE <<>> :
                  ok \in LongEnough(ob), s \in BOOLEAN, b \in BOOLEAN}
      [] choice = "restart" -> {<<Clear, Set(At("category"))>>}
      [] choice = "keep" -> {<<Clear>>}
      [] OTHER -> IF Onboarding(choice, ob) = {} THEN {<<>>}
                  ELSE {<<Set(n)>> : n \in Onboarding(choice, ob)}

(* A plain text goes where the conversation state says.                      *)
ProfilePlan(v) == IF v = "good" THEN <<Users, <<"profile", [by |-> "typed", cat |-> "none"]>>, Clear>>
                  ELSE <<>>
HourPlan(v) == IF v = "good" THEN <<Users, <<"hour">>, Clear>> ELSE <<>>
FilterPlan(field, v) ==
    IF v = "bad" THEN <<Users>> ELSE <<Users, <<"merge", <<field, v = "good">>>>, Clear>>

TextPlan(v, c) ==
    CASE c.step \in {"await_profile", "edit"} -> ProfilePlan(v)
      [] c.step = "await_notify_hour" -> HourPlan(v)
      [] c.step = "await_filter_budget" -> FilterPlan("budget", v)
      [] c.step = "await_filter_include_keywords" -> FilterPlan("include", v)
      [] c.step = "await_filter_exclude_keywords" -> FilterPlan("exclude", v)
      [] OTHER -> <<>>

FiltersPlan(choice) ==
    <<Users, Look>> \o
    CASE choice = "toggle" -> << <<"prefs", [api.prefs EXCEPT !.src = ~@]>> >>
      [] choice = "reset" -> << <<"prefs", NoPrefs>> >>
      [] choice = "budget" -> <<Set(At("await_filter_budget"))>>
      [] choice = "include" -> <<Set(At("await_filter_include_keywords"))>>
      [] choice = "exclude" -> <<Set(At("await_filter_exclude_keywords"))>>
      [] OTHER -> <<>>

(* The hour is for Pro users: the command ends the dialog when it refuses,   *)
(* the button of the menu does not.                                          *)
HourCommandPlan(v) ==
    CASE v = "9" -> HourPlan("good")
      [] v = "menu" -> <<Users, <<"ask_pro", <<>>>>, Set(At("await_notify_hour"))>>
      [] v = "prompt" -> <<Users, <<"ask_pro", <<Clear>>>>, Set(At("await_notify_hour"))>>

(* The reply keyboard asks for a new profile; its other keys show an         *)
(* overview or end the dialog, as commands do.                               *)
PromptPlan == <<Set(At("await_profile"))>>

\* The buttons below the profile.
ProfileButtonPlan(choice) ==
    CASE choice = "edit" -> PromptPlan
      [] choice = "tips" -> <<>>
      [] choice = "back" -> OverviewPlan

CommandPlan(u) ==
    CASE u[1] = "start" -> <<Clear, Users, <<"first_seen">>, Set(At("category"))>>
      [] u = <<"command", "help">> -> <<Clear>>
      [] u = <<"command", "show">> -> <<Clear>> \o OverviewPlan
      [] u[1] = "menu" -> OverviewPlan
      [] u[1] = "upgrade" -> <<Users, <<"intent">>>>
      [] u[1] = "prompt" -> PromptPlan
      [] u[1] = "profile" -> ProfilePlan(u[2])
      [] u[1] = "hour" -> HourCommandPlan(u[2])
      [] u[1] = "pause" -> <<Users, <<"pause", u[2] # "resume">>>>
      [] u[1] = "admin_pro" -> <<Clear, <<"pro", u[2] = "on">>>>

(* The cards. A vote counts for the current card only; the card moves on     *)
(* first, the vote is posted after it. A callback of the old format votes    *)
(* without a session.                                                        *)
Attempts == 4               \* API_RETRY_ATTEMPTS
Vote(i) == <<"vote", i, Attempts>>

\* Mutant of VotePlan: the vote is posted before the card moves on.
MutVotePlan(i) ==
    IF session # i THEN <<>>
    ELSE <<Users, Vote(i), IF i < Cards THEN <<"show", i + 1>> ELSE <<"finish">> >>

\* Mutant of VotePlan: the last card is closed without its vote.
MutVotePlanLast(i) ==
    IF session # i THEN <<>>
    ELSE IF i < Cards THEN << <<"show", i + 1>>, Users, Vote(i)>> ELSE << <<"finish">> >>

VotePlan(i) ==
    IF session # i THEN <<>>
    ELSE <<IF i < Cards THEN <<"show", i + 1>> ELSE <<"finish">>, Users, Vote(i)>>

CardPlan(u) ==
    CASE u[1] = "nav" -> IF session = 0 THEN <<>> ELSE << <<"show", u[2]>> >>
      [] u[1] = "fb" -> VotePlan(u[2])
      [] u[1] = "old_fb" -> <<Users, <<"old_vote">> >>

Plans(u, c) ==
    CASE u[1] = "ob" -> OnboardingPlans(u[2], c)
      [] u[1] = "text" -> {TextPlan(u[2], c)}
      [] u[1] = "flt" -> {FiltersPlan(u[2])}
      [] u[1] \in {"nav", "fb", "old_fb"} -> {CardPlan(u)}
      [] u[1] = "prf" -> {ProfileButtonPlan(u[2])}
      [] OTHER -> {CommandPlan(u)}
----------------------------------------------------------------------------
(* An update arrives, is planned and carried out.                            *)

Arrive(u) ==
    /\ job.phase = "idle"
    /\ u[1] = "nav" => shown[u[2]] < MaxShown
    /\ u[1] = "fb" /\ u[2] < Cards => shown[u[2] + 1] < MaxShown
    /\ job' = [Idle EXCEPT !.u = u, !.phase = "arrived"]
    /\ UNCHANGED <<part, dialog, cards, api, seen, faults>>

(* _get_conversation_state: the cache first, then Redis, which fills it.     *)
ReadConv(c) ==
    IF cache # Miss
    THEN c = cache /\ UNCHANGED <<cache, walk, faults>>
    ELSE \/ c = conv /\ cache' = conv /\ UNCHANGED <<walk, faults>>
         \/ c = Nothing /\ Fault /\ walk' = "none" /\ UNCHANGED cache

Start(c) ==
    /\ job.phase = "arrived"
    /\ IF job.u[1] \in {"ob", "text"} THEN ReadConv(c)
       ELSE c = Nothing /\ UNCHANGED <<cache, walk, faults>>
    /\ \E p \in Plans(job.u, c) : job' = [job EXCEPT !.phase = "running", !.todo = p]
    /\ UNCHANGED <<part, conv, asked, slip, cards, api, seen>>

Doing(name) == job.phase = "running" /\ job.todo # <<>> /\ Head(job.todo)[1] = name
Arg == Head(job.todo)[2]
Then(todo) == job' = [job EXCEPT !.todo = todo]
Done == Then(Tail(job.todo))
GiveUp == Then(<<>>)

(* A request whose answer the bot can read: it works, or it is reported as   *)
(* failed, after four attempts of which one may have taken effect.           *)
Request(newApi, onFailure) ==
    \/ api' = newApi /\ Done /\ UNCHANGED faults
    \/ api' \in {api, newApi} /\ Fault /\ onFailure
\* A PUT, which is repeated alike: saving twice is saving once.
Put(newApi, onFailure) == Request(newApi, onFailure)
OtherThanApi == UNCHANGED <<part, dialog, cards, seen>>

CallUsers == Doing("users") /\ Request(api, GiveUp) /\ OtherThanApi
LookUp == Doing("look") /\ Request(api, GiveUp) /\ OtherThanApi
Read == Doing("read") /\ Request(api, Done) /\ OtherThanApi
PutProfile == Doing("profile") /\ Put([api EXCEPT !.profile = Arg], GiveUp) /\ OtherThanApi
PutPrefs == Doing("prefs") /\ Put([api EXCEPT !.prefs = Arg], GiveUp) /\ OtherThanApi
PutPause == Doing("pause") /\ Put([api EXCEPT !.paused = Arg], GiveUp) /\ OtherThanApi
PutPro == Doing("pro") /\ Put([api EXCEPT !.pro = Arg], GiveUp) /\ OtherThanApi
(* The questionnaire goes on when its preferences could not be saved.        *)
TryPrefs == Doing("try_prefs") /\ Put([api EXCEPT !.prefs = Arg], Done) /\ OtherThanApi
(* Without Pro the answer is 403, and the dialog ends all the same.          *)
PutHour ==
    /\ Doing("hour")
    /\ Put(IF api.pro THEN [api EXCEPT !.hour = TRUE] ELSE api, GiveUp)
    /\ OtherThanApi

(* get_user_is_pro: refused when it says no, prompted when it says nothing.  *)
AskPro ==
    /\ Doing("ask_pro")
    /\ \/ (IF api.pro THEN Done ELSE Then(Arg)) /\ UNCHANGED faults
       \/ Fault /\ Done
    /\ UNCHANGED <<part, dialog, cards, api, seen>>

(* _merge_preferences_payload: the API replaces all the filters, so what is  *)
(* not read is not kept. A failed read is not noticed here.                  *)
\* Mutant of Merge: the field is set on empty filters.
MutMerge(prefs, field, value) == [NoPrefs EXCEPT ![field] = value]
Merge(prefs, field, value) == [prefs EXCEPT ![field] = value]

MergePrefs ==
    /\ Doing("merge")
    /\ \/ /\ Then(<< <<"prefs", Merge(api.prefs, Arg[1], Arg[2])>> >> \o Tail(job.todo))
          /\ UNCHANGED faults
       \/ /\ Fault
          /\ job' = [job EXCEPT !.blind = TRUE,
                         !.todo = << <<"prefs", Merge(NoPrefs, Arg[1], Arg[2])>> >> \o Tail(@)]
    /\ UNCHANGED <<part, dialog, cards, api, seen>>

(* SET NX of the first-seen key; an error counts as a new user. A user who   *)
(* has been seen gets the home screen instead of the questionnaire.          *)
FirstSeen ==
    /\ Doing("first_seen")
    /\ \/ (IF seen THEN Then(Home) ELSE Done) /\ seen' = TRUE /\ UNCHANGED faults
       \/ Fault /\ Done /\ UNCHANGED seen
    /\ UNCHANGED <<part, dialog, cards, api>>

(* Redis first, then the cache; an error of Redis is logged and ignored.     *)
ContinuesWalk == job.u[1] = "ob" /\ job.u[2] \notin {"cat:backend", "cat:other", "manual", "restart"}

SetConv ==
    /\ Doing("set")
    /\ asked' = Arg /\ cache' = Arg
    /\ \/ conv' = Arg /\ UNCHANGED <<faults, slip>>
       \/ Fault /\ slip' = TRUE /\ UNCHANGED conv
    /\ walk' = IF ContinuesWalk THEN walk ELSE Arg.cat
    /\ Done
    /\ UNCHANGED <<part, cards, api, seen>>

\* Mutant of ClearConv: the cached copy stays.
MutClearConv ==
    /\ Doing("clear")
    /\ asked' = Nothing /\ walk' = "none" /\ UNCHANGED cache
    /\ \/ conv' = Nothing /\ UNCHANGED <<faults, slip>>
       \/ Fault /\ slip' = TRUE /\ UNCHANGED conv
    /\ Done
    /\ UNCHANGED <<part, cards, api, seen>>

ClearConv ==
    /\ Doing("clear")
    /\ asked' = Nothing /\ cache' = Miss /\ walk' = "none"
    /\ \/ conv' = Nothing /\ UNCHANGED <<faults, slip>>
       \/ Fault /\ slip' = TRUE /\ UNCHANGED conv
    /\ Done
    /\ UNCHANGED <<part, cards, api, seen>>

(* The session is written back whole; an error of Redis leaves the old card. *)
ByVote == job.u[1] = "fb"
ShowCard ==
    /\ Doing("show")
    /\ \/ session' = Arg /\ UNCHANGED <<faults, slip>>
       \/ Fault /\ slip' = TRUE /\ UNCHANGED session
    /\ shown' = [shown EXCEPT ![Arg] = @ + 1]
    /\ owed' = IF ByVote THEN job.u[2] ELSE owed
    /\ Done
    /\ UNCHANGED <<part, conv, cache, asked, walk, posted, api, seen>>

FinishCards ==
    /\ Doing("finish")
    /\ \/ session' = 0 /\ UNCHANGED <<faults, slip>>
       \/ Fault /\ slip' = TRUE /\ UNCHANGED session
    /\ owed' = job.u[2]
    /\ Done
    /\ UNCHANGED <<part, conv, cache, asked, walk, shown, posted, api, seen>>

(* An attempt to post the vote. The backend answers 204 without a body; the  *)
(* empty body cannot be read as JSON, and so what was accepted is posted     *)
(* again while attempts are left, each time signed anew. In the end the vote *)
(* is reported as failed, which is only logged.                              *)
Tries == Head(job.todo)[3]
Again ==
    IF Tries = 1 THEN Done
    ELSE Then([job.todo EXCEPT ![1] = <<"vote", Arg, Tries - 1>>])

PostVote ==
    /\ Doing("vote")
    /\ \/ /\ posted' = [posted EXCEPT ![Arg] = @ + 1] /\ owed' = 0
          /\ Again /\ UNCHANGED faults
       \/ /\ Fault /\ posted' \in {posted, [posted EXCEPT ![Arg] = @ + 1]}
          /\ Again \/ Done
          /\ UNCHANGED owed
    /\ UNCHANGED <<part, dialog, session, shown, api, seen>>

(* Old votes and requests for Pro are rows the backend only collects. Both   *)
(* are answered 204 too, and so end as failed even when accepted.            *)
Collected == GiveUp /\ UNCHANGED <<api, faults>>
PostOldVote == Doing("old_vote") /\ Collected /\ OtherThanApi
PostIntent == Doing("intent") /\ Collected /\ OtherThanApi

Finish ==
    /\ job.phase = "running" /\ job.todo = <<>>
    /\ job' = Idle
    /\ UNCHANGED <<part, dialog, cards, api, seen, faults>>
----------------------------------------------------------------------------
(* The process dies and starts again: the caches are empty and the update    *)
(* that was not completed is delivered again.                                *)
Crash ==
    /\ Fault
    /\ cache' = Miss
    /\ job' = IF job.phase = "idle" THEN Idle ELSE [Idle EXCEPT !.u = job.u, !.phase = "arrived"]
    /\ UNCHANGED <<part, conv, asked, slip, walk, cards, api, seen>>

(* The TTLs: a cached state is refreshed on its own, so either copy can go   *)
(* first.                                                                    *)
Expire ==
    /\ job.phase = "idle"
    /\ \/ cache # Miss /\ cache' = Miss /\ UNCHANGED <<conv, walk, session>>
       \/ conv # Nothing /\ conv' = Nothing /\ walk' = "none" /\ UNCHANGED <<cache, session>>
       \/ session # 0 /\ session' = 0 /\ UNCHANGED <<conv, cache, walk>>
    /\ UNCHANGED <<part, asked, slip, owed, shown, posted, api, seen, job, faults>>

Effect ==
    \/ CallUsers \/ LookUp \/ Read \/ PutProfile \/ PutPrefs \/ PutPause \/ PutPro \/ TryPrefs
    \/ PutHour \/ AskPro \/ MergePrefs \/ FirstSeen \/ SetConv \/ ClearConv
    \/ ShowCard \/ FinishCards \/ PostVote \/ PostOldVote \/ PostIntent

Next ==
    \/ \E u \in Updates.common \union Updates[part] : Arrive(u)
    \/ \E c \in {conv, cache, Nothing} : Start(c)
    \/ Effect \/ Finish \/ Crash \/ Expire

Spec == Init /\ [][Next]_vars /\ WF_vars((\E c \in {conv, cache, Nothing} : Start(c)) \/ Effect \/ Finish)
----------------------------------------------------------------------------
Handling(kind) == job.phase = "arrived" /\ job'.phase = "running" /\ job.u[1] = kind

(* A text is taken for what the bot last asked for, or for nothing at all:   *)
(* a state that was cleared or replaced never comes back from the cache or   *)
(* from Redis. Only a failed write to Redis can bring it back.               *)
TextAnswersLastQuestion ==
    [][Handling("text") /\ job'.todo # <<>> =>
           slip \/ job'.todo = TextPlan(job.u[2], asked)]_vars

(* A profile saved by the questionnaire has the category that was picked in  *)
(* it, unless the questionnaire was interrupted in between or Redis did not  *)
(* take or give the state.                                                   *)
SavedProfileWasChosen ==
    [][api'.profile # api.profile /\ api'.profile.by = "built" =>
           slip \/ walk \in {"none", api'.profile.cat}]_vars

(* A submission, a toggle or a reset changes the filters it is about; only   *)
(* the questionnaire and the reset replace them all, and a submission whose  *)
(* read of the current filters failed.                                       *)
Purpose(u) ==
    CASE u = <<"flt", "toggle">> -> {"src"}
      [] u[1] = "text" /\ asked.step = "await_filter_budget" -> {"budget"}
      [] u[1] = "text" /\ asked.step = "await_filter_include_keywords" -> {"include"}
      [] u[1] = "text" /\ asked.step = "await_filter_exclude_keywords" -> {"exclude"}
      [] OTHER -> DOMAIN NoPrefs
Changed(old, new) == {f \in DOMAIN NoPrefs : old[f] # new[f]}

OnlyItsFilterChanges ==
    [][api'.prefs # api.prefs =>
           Changed(api.prefs, api'.prefs) \subseteq Purpose(job.u) \/ job.blind \/ slip]_vars

(* However often a card is tapped, and when a tap is delivered again after a *)
(* crash, its votes are those of one handler each time it was shown, unless  *)
(* Redis did not take the session.                                           *)
VotesWithinAttempts == slip \/ \A i \in 1 .. Cards : posted[i] <= Attempts * shown[i]

(* A vote that moved the cards on is posted, unless a fault came between.    *)
MovedOnMeansPosted == job.phase = "idle" /\ owed # 0 => faults > 0
=============================================================================
