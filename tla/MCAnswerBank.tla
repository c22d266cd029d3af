---------------------------- MODULE MCAnswerBank ----------------------------
(* Two catalog questions, one of which the profile answers.  One wording     *)
(* matches both, and the catalog's order decides; one is spelled like a key  *)
(* and matches neither, an underscore being no boundary of a word.           *)
EXTENDS AnswerBank, FormQuestions, TLC

CONSTANTS t1, t2, yes, no

MCKey == {"work_authorization", "sponsorship"}

\* The wordings, by what they match.
Matches == [authorized |-> {"work_authorization"},
            sponsor |-> {"sponsorship"},
            without |-> {"work_authorization", "sponsorship"},
            work_authorization |-> {}]

MCText == DOMAIN Matches

MCCanonical == [k \in MCKey |-> IF k = "sponsorship" THEN "sponsor" ELSE "authorized"]

MCMeansKey == [q \in MCText |-> MatchQuestion(Matches[q], None)]

\* The profile does not say where he may work.
MCFilled == MCKey \cap FilledKeys(Variables({"full_name", "email"}, {"city", "state"}, {}))

Names == Permutations({t1, t2}) \cup Permutations({yes, no})
=============================================================================
