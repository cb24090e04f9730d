------------------------ MODULE MCProfilePipeline ------------------------
EXTENDS ProfilePipeline

(* A web developer who moves from go to vue and asks for more, or writes    *)
(* a text neither parser can tell anything of.                              *)
goDev == [stack |-> {"go"}, min |-> 1, years |-> 2, kind |-> "web"]
vueDev == [stack |-> {"vue"}, min |-> 2, years |-> 2, kind |-> "web"]
vague == [stack |-> {}, min |-> Nil, years |-> Nil, kind |-> "any"]
MCTexts == {goDev, vueDev, vague}
MCGuesses == [t \in MCTexts |-> IF t = vueDev THEN {[stack |-> {"go", "vue"}, min |-> Nil]} ELSE {}]

goJob == [source |-> "kwork", kind |-> "web", stack |-> {"go"}, words |-> {"go"},
          years |-> 2, budget |-> 1]
bothJob == [source |-> "flru", kind |-> "any", stack |-> {"go", "vue"}, words |-> {"go", "vue"},
            years |-> Nil, budget |-> 2]
MCListings == {goJob, bothJob}
MCSimilar == {<<goDev, goJob>>, <<goDev, bothJob>>, <<vueDev, bothJob>>, <<vague, goJob>>}

MCChoices == {NoFilter,
              [NoFilter EXCEPT !.include = {"vue"}, !.exclude = {"go"}],
              [NoFilter EXCEPT !.include = {"go"}, !.min = 2, !.sources = {"flru"}]}
==========================================================================
